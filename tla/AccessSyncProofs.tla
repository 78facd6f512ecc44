---- MODULE AccessSyncProofs ----
(***************************************************************************)
(* Type correctness of AccessSync, that polls which take turns keep the    *)
(* promise, and that no access is forgotten; and, in the second half, what *)
(* Hierarchy keeps of the tree whose repositories are synchronised, for    *)
(* any number of rows, repositories, requests and events.                  *)
(***************************************************************************)
EXTENDS AccessSync, Hierarchy, FiniteSetTheorems, TLAPS

-----------------------------------------------------------------------------
(* Type correctness.                                                       *)

LEMMA AnyoneType == Anyone \in Assignments
  BY AccessAssumption DEF Anyone

LEMMA RestingType == Resting \in Poll
  BY AccessAssumption DEF Resting, Poll, JobIds

LEMMA InitType == Init => TypeOK
  BY AnyoneType, RestingType, AccessAssumption
  DEF Init, TypeOK, Assignment, SyncRow, Row, Request, JobIds, Kinds, Routes, Memberships,
      Expenses, FaultKinds

LEMMA PublishType ==
  ASSUME TypeOK, NEW kind \in Kinds, NEW a \in Assignments, PublishLater(kind, a)
  PROVE  outbox' \in [JobIds -> Row] /\ rows' \in 0..MaxJobs
<1>1. rows + 1 \in JobIds
  BY AccessAssumption DEF TypeOK, JobIds, PublishLater, HasRoom
<1>2. [kind |-> kind, asg |-> a, status |-> "pending", owner |-> NoOne, mark |-> "none"] \in Row
  BY DEF Row
<1> QED
  BY <1>1, <1>2, AccessAssumption DEF TypeOK, PublishLater, HasRoom, JobIds

LEMMA JobType ==
  ASSUME TypeOK, NEW p \in Pollers
  PROVE  poll[p].job \in JobIds /\ Job(p) \in Row /\ Target(p) \in Assignments /\ Job(p).kind \in Kinds
<1>1. poll[p] \in Poll
  BY DEF TypeOK
<1>2. poll[p].job \in JobIds
  BY <1>1 DEF Poll
<1>3. Job(p) \in Row
  BY <1>2 DEF Job, TypeOK
<1> QED
  BY <1>2, <1>3 DEF Target, Row

LEMMA SpendType == TypeOK /\ (\E e \in Expenses : Spend(e)) => left' \in [Expenses -> Nat]
<1> SUFFICES ASSUME TypeOK, NEW e \in Expenses, Spend(e) PROVE left' \in [Expenses -> Nat]
  OBVIOUS
<1>1. left[e] - 1 \in Nat
  BY DEF TypeOK, Spend
<1> QED
  BY <1>1 DEF TypeOK, Spend

LEMMA SufferType == TypeOK /\ (\E k \in FaultKinds : Suffer(k)) => left' \in [Expenses -> Nat]
  BY SpendType DEF Suffer, Expenses

\* A failure path that records whether it runs inside the try block.
LEMMA CaughtType ==
  ASSUME TypeOK, NEW p \in Pollers, NEW caught \in BOOLEAN,
         poll' = [poll EXCEPT ![p].pc = "fail", ![p].caught = caught]
  PROVE  poll' \in [Pollers -> Poll]
<1>1. [poll[p] EXCEPT !.pc = "fail", !.caught = caught] \in Poll
  BY DEF TypeOK, Poll, JobPcs
<1> QED
  BY <1>1 DEF TypeOK

\* What a record field is set to keeps the record's type.
LEMMA GotoType ==
  ASSUME TypeOK, NEW p \in Pollers, NEW pc \in JobPcs \cup {"take"}, Goto(p, pc)
  PROVE  poll' \in [Pollers -> Poll]
<1>1. [poll[p] EXCEPT !.pc = pc] \in Poll
  BY DEF TypeOK, Poll
<1> QED
  BY <1>1 DEF Goto, TypeOK

LEMMA MgrGotoType ==
  ASSUME TypeOK, NEW m \in Managers, NEW pc \in {"idle", "publishGrant"}, MgrGoto(m, pc)
  PROVE  mgr' \in [Managers -> Request]
<1>1. [mgr[m] EXCEPT !.pc = pc] \in Request
  BY DEF TypeOK, Request
<1> QED
  BY <1>1 DEF MgrGoto, TypeOK

LEMMA AcceptType ==
  ASSUME TypeOK, NEW m \in Managers, NEW a \in Assignments,
         NEW pc \in {"upsert", "publishGrant", "publishRevoke"}, Accept(m, a, pc)
  PROVE  mgr' \in [Managers -> Request] /\ left' \in [Expenses -> Nat]
<1>1. [pc |-> pc, asg |-> a] \in Request
  BY DEF Request
<1> QED
  BY <1>1, SpendType DEF Accept, TypeOK, Expenses

LEMMA RollbackType ==
  ASSUME TypeOK, NEW p \in Pollers, Rollback(p)
  PROVE  outbox' \in [JobIds -> Row] /\ poll' \in [Pollers -> Poll]
<1>1. \A i \in JobIds : [outbox[i] EXCEPT !.owner = NoOne, !.mark = "none"] \in Row
  BY DEF TypeOK, Row
<1> QED
  BY <1>1, RestingType DEF Rollback, TypeOK

LEMMA MarkRowType ==
  ASSUME TypeOK, NEW p \in Pollers, NEW status \in {"published", "failed"}, MarkRow(p, status)
  PROVE  outbox' \in [JobIds -> Row] /\ poll' \in [Pollers -> Poll]
<1>1. poll[p].job \in JobIds
  BY DEF TypeOK, Poll
<1>2. [outbox[poll[p].job] EXCEPT !.mark = status] \in Row
  BY <1>1 DEF TypeOK, Row
<1> QED
  BY <1>1, <1>2, GotoType DEF MarkRow, TypeOK

LEMMA ManagerType == ASSUME TypeOK, NEW m \in Managers, ManagerStep(m) PROVE TypeOK'
<1> USE DEF tables, github, queue
<1>1. ASSUME NEW a \in Assignments, CreateAssignment(m, a) PROVE TypeOK'
  <2>1. [desired |-> "assigned", effective |-> "pending", status |-> "pending"] \in Assignment
    BY DEF Assignment
  <2> QED
    BY <1>1, <2>1, AcceptType DEF CreateAssignment, TypeOK
<1>2. ASSUME NEW a \in Assignments, RemoveAssignment(m, a) PROVE TypeOK'
  <2>1. [asg[a] EXCEPT !.desired = "unassigned", !.effective = "revoking"] \in Assignment
    BY DEF TypeOK, Assignment
  <2>2. asg' \in [Assignments -> Assignment]
    BY <1>2, <2>1 DEF RemoveAssignment, TypeOK
  <2> QED
    BY <1>2, <2>2, AcceptType DEF RemoveAssignment, TypeOK
<1>3. ASSUME NEW a \in Assignments, Reconcile(m, a) PROVE TypeOK'
  BY <1>3, AcceptType DEF Reconcile, TypeOK
<1>4. CASE UpsertPending(m)
  <2>1. mgr[m].asg \in Assignments
    BY DEF TypeOK, Request
  <2>2. [sync[mgr[m].asg] EXCEPT !.state = "pending"] \in SyncRow
    BY <2>1 DEF TypeOK, SyncRow
  <2> QED
    BY <1>4, <2>1, <2>2, MgrGotoType DEF UpsertPending, TypeOK
<1>5. CASE PublishRequest(m)
  <2>1. mgr[m].asg \in Assignments
    BY DEF TypeOK, Request
  <2>2. outbox' \in [JobIds -> Row] /\ rows' \in 0..MaxJobs
    BY <1>5, <2>1, PublishType DEF PublishRequest, Kinds
  <2> QED
    BY <1>5, <2>2, MgrGotoType DEF PublishRequest, TypeOK
<1>6. CASE RequestCutShort(m)
  BY <1>6, SufferType, MgrGotoType DEF RequestCutShort, TypeOK, FaultKinds
<1> QED
  BY <1>1, <1>2, <1>3, <1>4, <1>5, <1>6 DEF ManagerStep

LEMMA PollType == ASSUME TypeOK, NEW p \in Pollers, PollStep(p) PROVE TypeOK'
<1> USE DEF tables, github
<1>1. CASE StartPoll(p)
  <2>1. \A i \in JobIds : [outbox[i] EXCEPT !.owner = p] \in Row
    BY DEF TypeOK, Row
  <2> QED
    BY <1>1, <2>1, GotoType DEF StartPoll, TypeOK
<1>2. CASE TakeJob(p)
  <2>1. \A i \in JobIds : [Resting EXCEPT !.pc = "read", !.job = i] \in Poll
    BY RestingType DEF Poll, JobPcs
  <2>2. PICK i \in JobIds : poll' = [poll EXCEPT ![p] = [Resting EXCEPT !.pc = "read", !.job = i]]
    BY <1>2 DEF TakeJob, Unprocessed, Held
  <2>3. poll' \in [Pollers -> Poll]
    BY <2>1, <2>2 DEF TypeOK
  <2> QED
    BY <1>2, <2>3 DEF TakeJob, TypeOK, queue
<1>3. CASE Acknowledge(p)
  BY <1>3, RollbackType, MarkRowType DEF Acknowledge, TypeOK
<1>4. CASE MarkJobFailed(p)
  BY <1>4, RollbackType, MarkRowType DEF MarkJobFailed, TypeOK
<1>5. CASE Commit(p)
  <2>1. ASSUME NEW i \in JobIds, outbox[i].owner = p
        PROVE  [outbox[i] EXCEPT !.status = outbox[i].mark, !.owner = NoOne, !.mark = "none"] \in Row
    <3>1. outbox[i].mark \in {"published", "failed"}
      BY <1>5, <2>1 DEF Commit, Unprocessed, Held, TypeOK, Row
    <3> QED
      BY <3>1 DEF TypeOK, Row
  <2> QED
    BY <1>5, <2>1, RestingType DEF Commit, TypeOK
<1> QED
  BY <1>1, <1>2, <1>3, <1>4, <1>5 DEF PollStep

LEMMA TeamType ==
  ASSUME TypeOK, NEW p \in Pollers, AddMember(p) \/ RemoveMember(p)
  PROVE  team' \in [Assignments -> Memberships] /\ outside' \in [Assignments -> SUBSET Routes]
<1>1. Target(p) \in Assignments
  BY JobType
<1> QED
  BY <1>1 DEF AddMember, RemoveMember, TypeOK, Memberships

\* A sync row keeps its type whatever its state is set to.
LEMMA SyncFieldType ==
  ASSUME TypeOK, NEW a \in Assignments,
         NEW state \in {"none", "pending", "syncing", "verified", "failed"}
  PROVE  /\ [sync[a] EXCEPT !.state = state] \in SyncRow
         /\ [sync[a] EXCEPT !.state = state, !.slug = TRUE] \in SyncRow
         /\ [sync[a] EXCEPT !.state = state, !.retry = sync[a].retry + 1] \in SyncRow
<1> DEFINE r == sync[a]
<1>1. r \in SyncRow
  BY DEF TypeOK
<1>2. r.retry + 1 \in Nat
  BY <1>1 DEF SyncRow
<1> HIDE DEF r
<1>3. [r EXCEPT !.state = state] \in SyncRow
  BY <1>1 DEF SyncRow
<1>4. [r EXCEPT !.state = state, !.slug = TRUE] \in SyncRow
  BY <1>1 DEF SyncRow
<1>5. [r EXCEPT !.state = state, !.retry = r.retry + 1] \in SyncRow
  BY <1>1, <1>2 DEF SyncRow
<1> QED
  BY <1>3, <1>4, <1>5 DEF r

LEMMA JobStepType == ASSUME TypeOK, NEW p \in Pollers, JobStep(p) PROVE TypeOK'
<1> DEFINE a == Target(p)
<1>0. a \in Assignments /\ Job(p).kind \in Kinds
  BY JobType
<1> USE DEF tables, github, queue
<1> HIDE DEF a
<1>1. CASE ReadAssignment(p)
  <2>1. \A slug \in BOOLEAN, actor \in BOOLEAN, pc \in JobPcs :
          /\ [poll[p] EXCEPT !.pc = pc, !.actor = actor] \in Poll
          /\ [poll[p] EXCEPT !.pc = pc, !.actor = actor, !.slug = slug] \in Poll
    BY DEF TypeOK, Poll
  <2>2. (~Granting(p) /\ sync[a].slug) \in BOOLEAN
    OBVIOUS
  <2>3. poll' \in [Pollers -> Poll]
    BY <1>1, <2>1, <2>2, GotoType DEF ReadAssignment, TypeOK, JobPcs, a
  <2> QED
    BY <1>1, <2>3 DEF ReadAssignment, TypeOK
<1>2. CASE MarkSyncing(p)
  <2>1. sync' \in [Assignments -> SyncRow]
    BY <1>0, <1>2, SyncFieldType DEF MarkSyncing, SetSync, TypeOK, a
  <2> QED
    BY <1>2, <2>1, GotoType DEF MarkSyncing, TypeOK, JobPcs
<1>3. CASE EnsureTeam(p)
  BY <1>3, GotoType DEF EnsureTeam, TypeOK, JobPcs
<1>4. CASE ChangeMembership(p)
  BY <1>4, GotoType, TeamType DEF ChangeMembership, TypeOK, JobPcs
<1>5. CASE VerifyPermission(p)
  <2>1. poll' \in [Pollers -> Poll]
    BY <1>5, GotoType, CaughtType DEF VerifyPermission, JobPcs
  <2> QED
    BY <1>5, <2>1 DEF VerifyPermission, TypeOK
<1>6. CASE MarkVerifiedAssignment(p)
  <2>1. \A claim \in {"active", "revoked"} :
          [asg[a] EXCEPT !.effective = claim, !.status = claim] \in Assignment
    BY <1>0 DEF TypeOK, Assignment
  <2>2. asg' \in [Assignments -> Assignment]
    BY <1>0, <1>6, <2>1 DEF MarkVerifiedAssignment, TypeOK, a
  <2> QED
    BY <1>6, <2>2, GotoType DEF MarkVerifiedAssignment, TypeOK, JobPcs
<1>7. CASE MarkVerifiedSync(p)
  <2>1. sync' \in [Assignments -> SyncRow]
    BY <1>0, <1>7, SyncFieldType DEF MarkVerifiedSync, TypeOK, a
  <2> QED
    BY <1>7, <2>1, GotoType DEF MarkVerifiedSync, TypeOK, JobPcs
<1>8. CASE FailAssignment(p)
  <2>1. [asg[a] EXCEPT !.effective = "failed", !.status = "failed"] \in Assignment
    BY <1>0 DEF TypeOK, Assignment
  <2>2. asg' \in [Assignments -> Assignment]
    BY <1>0, <1>8, <2>1 DEF FailAssignment, TypeOK, a
  <2> QED
    BY <1>8, <2>2, GotoType DEF FailAssignment, TypeOK, JobPcs
<1>9. CASE FailSync(p)
  <2>1. sync' \in [Assignments -> SyncRow]
    BY <1>0, <1>9, SyncFieldType DEF FailSync, TypeOK, a
  <2> QED
    BY <1>9, <2>1, GotoType DEF FailSync, TypeOK, JobPcs
<1>10. CASE Requeue(p)
  BY <1>0, <1>10, PublishType, GotoType DEF Requeue, TypeOK, JobPcs, a
<1> QED
  BY <1>1, <1>2, <1>3, <1>4, <1>5, <1>6, <1>7, <1>8, <1>9, <1>10 DEF JobStep

LEMMA FaultType == ASSUME TypeOK, NEW p \in Pollers, FaultStep(p) PROVE TypeOK'
<1> USE DEF tables, github, queue
<1>1. CASE CrashPoll(p)
  BY <1>1, SufferType, RollbackType DEF CrashPoll, TypeOK, FaultKinds
<1>2. CASE ChangeUnanswered(p)
  <2>1. team' \in [Assignments -> Memberships] /\ outside' \in [Assignments -> SUBSET Routes]
    BY <1>2, TeamType, JobType DEF ChangeUnanswered, TypeOK, Memberships
  <2> QED
    BY <1>2, <2>1, SufferType, GotoType DEF ChangeUnanswered, TypeOK, FaultKinds, JobPcs
<1>3. CASE GithubFault(p)
  BY <1>3, SufferType, GotoType DEF GithubFault, TypeOK, FaultKinds, JobPcs
<1>4. CASE DatabaseFault(p)
  <2>1. poll' \in [Pollers -> Poll]
    BY <1>4, GotoType, CaughtType DEF DatabaseFault, JobPcs
  <2> QED
    BY <1>4, <2>1, SufferType DEF DatabaseFault, TypeOK, FaultKinds
<1> QED
  BY <1>1, <1>2, <1>3, <1>4 DEF FaultStep

LEMMA CronType == ASSUME TypeOK, CronStep PROVE TypeOK'
<1> USE SufferType DEF tables, github, queue, FaultKinds
<1>1. CASE CronSelect
  BY <1>1 DEF CronSelect, Takeable, TypeOK
<1>2. CASE CronStops
  BY <1>2 DEF CronStops, TypeOK
<1>3. ASSUME NEW i \in JobIds, CronForward(i) PROVE TypeOK'
  <2>1. [outbox[i] EXCEPT !.status = "published"] \in Row
    BY DEF TypeOK, Row
  <2> QED
    BY <1>3, <2>1 DEF CronForward, TypeOK
<1> QED
  BY <1>1, <1>2, <1>3 DEF CronStep

LEMMA OutsideType ==
  ASSUME TypeOK, NEW a \in Assignments, NEW route \in Routes, OutsideChange(a, route)
  PROVE  TypeOK'
  BY SpendType DEF OutsideChange, TypeOK, tables, queue, Expenses

LEMMA AnswerType == ASSUME TypeOK, NEW a \in Assignments, AnswerInvitation(a) PROVE TypeOK'
  BY DEF AnswerInvitation, TypeOK, Memberships, tables, queue

LEMMA StepType == TypeOK /\ [Next]_vars => TypeOK'
<1> SUFFICES ASSUME TypeOK, [Next]_vars PROVE TypeOK'
  OBVIOUS
<1>1. CASE UNCHANGED vars
  BY <1>1 DEF vars, TypeOK
<1> QED
  BY <1>1, ManagerType, JobStepType, PollType, FaultType, CronType, OutsideType, AnswerType DEF Next

\* No sequence of requests, polls, faults and cron runs leaves a row, a table or
\* a request in a state the code has no name for.
THEOREM TypeCorrect == Spec => []TypeOK
  BY InitType, StepType, PTL DEF Spec

-----------------------------------------------------------------------------
(* A job's row stays its own.                                              *)

\* What the steps of a job have in common: they move one poll, which keeps its
\* job, and touch the outbox only to append.
LEMMA JobFrame ==
  ASSUME TypeOK, NEW p \in Pollers,
         JobStep(p) \/ ChangeUnanswered(p) \/ GithubFault(p) \/ DatabaseFault(p)
  PROVE  /\ poll[p].pc \in JobPcs /\ poll'[p].job = poll[p].job
         /\ \A q \in Pollers \ {p} : poll'[q] = poll[q]
         /\ UNCHANGED <<outbox, rows>> \/ PublishLater(Job(p).kind, Target(p))
         /\ UNCHANGED <<mgr, cron>>
<1>1. \A pc : Goto(p, pc) => /\ poll'[p] = [poll[p] EXCEPT !.pc = pc]
                             /\ \A q \in Pollers \ {p} : poll'[q] = poll[q]
  BY DEF Goto, TypeOK
<1>2. \A pc : [poll[p] EXCEPT !.pc = pc].job = poll[p].job
  BY DEF TypeOK, Poll
<1>3. CASE ReadAssignment(p)
  <2>1. At(p, "read") /\ UNCHANGED <<outbox, rows, mgr, cron>>
    BY <1>3 DEF ReadAssignment, queue
  <2>2. CASE Goto(p, "ack")
    BY <1>1, <1>2, <2>1, <2>2 DEF At, JobPcs
  <2>3. CASE poll' = [poll EXCEPT ![p].pc = "fail", ![p].actor = FALSE]
    BY <2>1, <2>3 DEF At, JobPcs, TypeOK, Poll
  <2>4. CASE poll' = [poll EXCEPT ![p].pc = "syncing", ![p].actor = TRUE,
                                  ![p].slug = ~Granting(p) /\ sync[Target(p)].slug]
    BY <2>1, <2>4 DEF At, JobPcs, TypeOK, Poll
  <2> QED
    BY <1>3, <2>2, <2>3, <2>4 DEF ReadAssignment
<1>4. CASE Requeue(p)
  BY <1>1, <1>2, <1>4 DEF Requeue, At, JobPcs
<1>a. \A caught : poll' = [poll EXCEPT ![p].pc = "fail", ![p].caught = caught]
        => poll'[p].job = poll[p].job /\ \A q \in Pollers \ {p} : poll'[q] = poll[q]
  BY DEF TypeOK, Poll
<1>5. CASE MarkSyncing(p) \/ EnsureTeam(p) \/ ChangeMembership(p) \/ VerifyPermission(p)
  BY <1>1, <1>2, <1>a, <1>5
  DEF MarkSyncing, EnsureTeam, ChangeMembership, AddMember, RemoveMember, VerifyPermission,
      At, JobPcs, queue
<1>6. CASE \/ MarkVerifiedAssignment(p) \/ MarkVerifiedSync(p) \/ FailAssignment(p) \/ FailSync(p)
  BY <1>1, <1>2, <1>6
  DEF MarkVerifiedAssignment, MarkVerifiedSync, FailAssignment, FailSync, At, JobPcs, queue
<1>7. CASE ChangeUnanswered(p) \/ GithubFault(p) \/ DatabaseFault(p)
  BY <1>1, <1>2, <1>a, <1>7
  DEF ChangeUnanswered, AddMember, RemoveMember, GithubFault, DatabaseFault, At, JobPcs, queue
<1> QED
  BY <1>3, <1>4, <1>5, <1>6, <1>7 DEF JobStep

LEMMA HeldRowsInit == Init => HeldRows
  BY AnyoneType, RestingType DEF Init, HeldRows, Resting, JobPcs

\* A row that has been inserted is not touched by an INSERT.
LEMMA PublishKeeps ==
  ASSUME TypeOK, HeldRows, NEW kind, NEW a, PublishLater(kind, a)
  PROVE  /\ \A i \in JobIds : i <= rows => outbox'[i] = outbox[i]
         /\ \A i \in JobIds : i > rows' => outbox'[i] = outbox[i]
         /\ rows' = rows + 1 /\ rows \in Nat
  BY AccessAssumption DEF TypeOK, PublishLater, HasRoom, JobIds

\* The job a poll runs has been inserted.
LEMMA JobInserted ==
  ASSUME TypeOK, HeldRows, NEW p \in Pollers, poll[p].pc \in JobPcs
  PROVE  poll[p].job \in JobIds /\ poll[p].job <= rows
<1>1. poll[p].job \in JobIds
  BY JobType
<1>2. ~(poll[p].job > rows)
  BY <1>1, AccessAssumption DEF HeldRows, Job
<1> QED
  BY <1>1, <1>2 DEF JobIds, TypeOK

\* Whoever appends to the outbox, and whoever leaves it alone, leaves every
\* running job its row.
LEMMA AppendKeepsRows ==
  ASSUME TypeOK, HeldRows, UNCHANGED cron,
         UNCHANGED <<outbox, rows>> \/ (\E kind, a : PublishLater(kind, a)),
         \A p \in Pollers : poll'[p].pc \in JobPcs =>
                              poll[p].pc \in JobPcs /\ poll'[p].job = poll[p].job
  PROVE  /\ HeldRows'
         /\ \A p \in Pollers : poll[p].pc \in JobPcs => outbox'[poll[p].job] = outbox[poll[p].job]
<1>1. CASE UNCHANGED <<outbox, rows>>
  BY <1>1 DEF HeldRows, Job
<1>2. ASSUME NEW kind, NEW a, PublishLater(kind, a) PROVE
        /\ HeldRows'
        /\ \A p \in Pollers : poll[p].pc \in JobPcs => outbox'[poll[p].job] = outbox[poll[p].job]
  <2>1. \A p \in Pollers : poll[p].pc \in JobPcs => outbox'[poll[p].job] = outbox[poll[p].job]
    BY <1>2, PublishKeeps, JobInserted
  <2>2. \A i \in JobIds : i > rows' => outbox'[i].status = "unused" /\ outbox'[i].owner = NoOne
    BY <1>2, PublishKeeps DEF HeldRows, JobIds
  <2>3. \A i \in cron' : i <= rows'
    BY <1>2, PublishKeeps DEF HeldRows, TypeOK, JobIds
  <2>4. \A p \in Pollers : poll'[p].pc \in JobPcs => Job(p)'.owner = p
    BY <2>1 DEF HeldRows, Job
  <2> QED
    BY <2>1, <2>2, <2>3, <2>4 DEF HeldRows
<1> QED
  BY <1>1, <1>2

LEMMA ManagerFrame ==
  ASSUME TypeOK, NEW m \in Managers, ManagerStep(m)
  PROVE  /\ UNCHANGED <<team, outside, poll, cron>>
         /\ UNCHANGED <<outbox, rows>> \/ (\E kind, a : PublishLater(kind, a))
  BY DEF ManagerStep, CreateAssignment, RemoveAssignment, Reconcile, UpsertPending,
         PublishRequest, RequestCutShort, queue, github

\* What a poll's own steps do to the rows: they lock, mark and free rows it
\* holds or may take, and never a row beyond those inserted.
LEMMA HeldRowsPoll ==
  ASSUME TypeOK, HeldRows, NEW p \in Pollers, PollStep(p) \/ CrashPoll(p)
  PROVE  HeldRows'
<1>0. /\ UNCHANGED <<rows, cron>>
      /\ \A q \in Pollers \ {p} : poll'[q] = poll[q]
  BY DEF PollStep, CrashPoll, StartPoll, TakeJob, Acknowledge, MarkJobFailed, Commit, MarkRow,
         Rollback, Goto, TypeOK, queue
<1>a. "idle" \notin JobPcs /\ "take" \notin JobPcs /\ NoOne \notin Pollers
  BY AccessAssumption DEF JobPcs
<1>b. \A q \in Pollers : poll[q].pc \in JobPcs => poll[q].job \in JobIds /\ poll[q].job <= rows
  BY JobInserted
<1>c. Resting.pc = "idle" /\ \A i \in JobIds : outbox[i] \in Row
  BY DEF Resting, TypeOK
<1>1. CASE StartPoll(p)
  <2>1. poll'[p].pc = "take"
    BY <1>1 DEF StartPoll, Goto, TypeOK, Poll
  <2>2. \A i \in JobIds : i > rows => i \notin NextBatch
    BY DEF HeldRows, NextBatch, Takeable
  <2>3. \A i \in JobIds : i \notin NextBatch => outbox'[i] = outbox[i]
    BY <1>1 DEF StartPoll
  <2>4. \A i \in NextBatch : outbox[i].owner = NoOne
    BY DEF NextBatch, Takeable
  <2> QED
    BY <1>0, <1>a, <1>b, <2>1, <2>2, <2>3, <2>4 DEF HeldRows, Job
<1>2. CASE TakeJob(p)
  <2>1. PICK i \in JobIds : /\ outbox[i].owner = p
                            /\ poll' = [poll EXCEPT ![p] = [Resting EXCEPT !.pc = "read", !.job = i]]
    BY <1>2 DEF TakeJob, Unprocessed, Held
  <2>2. poll'[p].job = i
    BY <2>1 DEF TypeOK, Resting
  <2>3. UNCHANGED outbox
    BY <1>2 DEF TakeJob, queue
  <2> QED
    BY <1>0, <2>1, <2>2, <2>3 DEF HeldRows, Job
<1>3. CASE Rollback(p)
  <2>1. poll'[p].pc = "idle"
    BY <1>3, <1>c DEF Rollback, TypeOK
  <2>2. \A i \in JobIds : outbox[i].owner # p => outbox'[i] = outbox[i]
    BY <1>3 DEF Rollback
  <2>3. \A i \in JobIds : i > rows => outbox[i].owner # p
    BY <1>a DEF HeldRows
  <2> QED
    BY <1>0, <1>a, <1>b, <2>1, <2>2, <2>3 DEF HeldRows, Job
<1>4. ASSUME NEW status, MarkRow(p, status), poll[p].pc \in JobPcs PROVE HeldRows'
  <2>1. poll'[p].pc = "take"
    BY <1>4 DEF MarkRow, Goto, TypeOK, Poll
  <2>2. \A i \in JobIds : outbox'[i].owner = outbox[i].owner /\ outbox'[i].status = outbox[i].status
    BY <1>4, <1>c DEF MarkRow, TypeOK, Row
  <2> QED
    BY <1>0, <1>a, <1>b, <2>1, <2>2 DEF HeldRows, Job
<1>5. CASE Commit(p)
  <2>1. poll'[p].pc = "idle"
    BY <1>5, <1>c DEF Commit, TypeOK
  <2>2. \A i \in JobIds : outbox[i].owner # p => outbox'[i] = outbox[i]
    BY <1>5 DEF Commit
  <2>3. \A i \in JobIds : i > rows => outbox[i].owner # p
    BY <1>a DEF HeldRows
  <2> QED
    BY <1>0, <1>a, <1>b, <2>1, <2>2, <2>3 DEF HeldRows, Job
<1> QED
  BY <1>1, <1>2, <1>3, <1>4, <1>5
  DEF PollStep, CrashPoll, Acknowledge, MarkJobFailed, At, JobPcs

LEMMA HeldRowsCron == ASSUME TypeOK, HeldRows, CronStep PROVE HeldRows'
<1>1. CASE CronSelect
  <2>1. \A i \in cron' : i <= rows
    BY <1>1 DEF CronSelect, Takeable, HeldRows, TypeOK, JobIds
  <2> QED
    BY <1>1, <2>1 DEF CronSelect, HeldRows, Job, queue
<1>2. CASE CronStops
  BY <1>2 DEF CronStops, HeldRows, Job, queue
<1>3. ASSUME NEW i \in JobIds, CronForward(i) PROVE HeldRows'
  <2>1. \A j \in JobIds : j # i => outbox'[j] = outbox[j]
    BY <1>3 DEF CronForward, TypeOK
  <2>2. i <= rows /\ cron' \subseteq cron /\ UNCHANGED <<rows, poll>>
    BY <1>3 DEF CronForward, HeldRows
  <2>3. \A p \in Pollers : poll[p].pc \in JobPcs => poll[p].job \in JobIds /\ poll[p].job # i
    BY <1>3, JobInserted, AccessAssumption DEF CronForward, HeldRows, Job
  <2>4. \A j \in JobIds : j > rows => j # i
    BY <2>2 DEF JobIds, TypeOK
  <2> QED
    BY <2>1, <2>2, <2>3, <2>4 DEF HeldRows, Job
<1> QED
  BY <1>1, <1>2, <1>3 DEF CronStep

LEMMA HeldRowsStep == TypeOK /\ HeldRows /\ [Next]_vars => HeldRows'
<1> SUFFICES ASSUME TypeOK, HeldRows, [Next]_vars PROVE HeldRows'
  OBVIOUS
<1>1. CASE UNCHANGED vars
  BY <1>1 DEF vars, HeldRows, Job
<1>2. ASSUME NEW m \in Managers, ManagerStep(m) PROVE HeldRows'
  BY <1>2, ManagerFrame, AppendKeepsRows
<1>3. ASSUME NEW p \in Pollers, JobStep(p) \/ ChangeUnanswered(p) \/ GithubFault(p) \/ DatabaseFault(p)
      PROVE  HeldRows'
  BY <1>3, JobFrame, AppendKeepsRows
<1>4. ASSUME NEW a \in Assignments, NEW route \in Routes, OutsideChange(a, route) PROVE HeldRows'
  BY <1>4 DEF OutsideChange, HeldRows, Job, queue
<1>5. ASSUME NEW a \in Assignments, AnswerInvitation(a) PROVE HeldRows'
  BY <1>5 DEF AnswerInvitation, HeldRows, Job, queue
<1> QED
  BY <1>1, <1>2, <1>3, <1>4, <1>5, HeldRowsPoll, HeldRowsCron DEF Next, FaultStep

\* A poll runs only jobs whose rows it has locked, and neither the forwarding
\* cron nor another poll ever takes one from it (poll's FOR UPDATE SKIP LOCKED).
THEOREM RowsAreHeld == Spec => []HeldRows
<1>1. Init => TypeOK /\ HeldRows
  BY InitType, HeldRowsInit
<1>2. TypeOK /\ HeldRows /\ [Next]_vars => (TypeOK /\ HeldRows)'
  BY StepType, HeldRowsStep
<1> QED
  BY <1>1, <1>2, PTL DEF Spec

-----------------------------------------------------------------------------
(* Polls that take turns: what the job in flight relies on.                *)

Ready == TypeOK /\ HeldRows /\ JobInFlight

LEMMA JobInFlightInit == Init => JobInFlight
  BY RestingType DEF Init, JobInFlight, At, Resting, Approaching

\* JobInFlight looks at an assignment only through its two claims, and at a job
\* only through its row, so a step that makes no claim and leaves polls, team
\* and the rows in use alone keeps it.
LEMMA JobInFlightFrame ==
  ASSUME TypeOK, JobInFlight, UNCHANGED <<team, poll>>,
         \A p \in Pollers : poll[p].pc \in JobPcs =>
           Job(p)'.kind = Job(p).kind /\ Job(p)'.asg = Job(p).asg,
         \A a \in Assignments : (Gone(a)' => Gone(a)) /\ (Live(a)' => Live(a))
  PROVE  JobInFlight'
<1>1. \A p \in Pollers : poll[p].pc \in Approaching \cup {"verify", "mark"} => poll[p].pc \in JobPcs
  BY DEF Approaching, At, JobPcs
<1>2. \A p \in Pollers : Target(p) \in Assignments
  BY JobType
<1> QED
  BY <1>1, <1>2 DEF JobInFlight, At, Granting, Target

LEMMA JobInFlightManager ==
  ASSUME Ready, NEW m \in Managers, ManagerStep(m) PROVE JobInFlight'
<1>1. \A a \in Assignments : (Gone(a)' => Gone(a)) /\ (Live(a)' => Live(a))
  <2>1. CASE UNCHANGED asg
    BY <2>1 DEF Gone, Live
  <2>2. ASSUME NEW b \in Assignments, CreateAssignment(m, b) \/ RemoveAssignment(m, b)
        PROVE  \A a \in Assignments : (Gone(a)' => Gone(a)) /\ (Live(a)' => Live(a))
    <3>1. asg \in [Assignments -> Assignment] /\ asg[b] \in Assignment
      BY DEF Ready, TypeOK
    <3>2. asg' = [asg EXCEPT ![b] = asg'[b]]
      BY <2>2, <3>1 DEF CreateAssignment, RemoveAssignment
    <3>3. asg'[b].effective \in {"pending", "revoking"}
      BY <2>2, <3>1 DEF CreateAssignment, RemoveAssignment, Assignment
    <3> QED
      BY <3>1, <3>2, <3>3 DEF Gone, Live
  <2> QED
    BY <2>1, <2>2 DEF ManagerStep, Reconcile, UpsertPending, PublishRequest, RequestCutShort, tables
<1>2. \A p \in Pollers : poll[p].pc \in JobPcs => Job(p)' = Job(p)
  BY ManagerFrame, AppendKeepsRows DEF Job, Ready
<1> QED
  BY <1>1, <1>2, ManagerFrame, JobInFlightFrame DEF Ready

LEMMA JobInFlightPoll ==
  ASSUME Ready, ~OverlappingPolls, NEW p \in Pollers, PollStep(p) \/ CrashPoll(p)
  PROVE  JobInFlight'
<1> USE DEF Ready
<1>1. /\ UNCHANGED <<asg, team>>
      /\ \A q \in Pollers \ {p} : poll'[q] = poll[q]
  BY DEF PollStep, CrashPoll, StartPoll, TakeJob, Acknowledge, MarkJobFailed, Commit, MarkRow,
         Rollback, Goto, TypeOK, queue, tables, github
<1>2. \A q \in Pollers \ {p} : At(q, "idle")
  BY DEF PollStep, CrashPoll, StartPoll, TakeJob, Acknowledge, MarkJobFailed, Commit,
         JobInFlight, At
<1>3. poll'[p].pc \in {"idle", "take", "read"}
  <2>1. poll' = [poll EXCEPT ![p] = Resting] \/ poll' = [poll EXCEPT ![p].pc = "take"]
        \/ \E i : poll' = [poll EXCEPT ![p] = [Resting EXCEPT !.pc = "read", !.job = i]]
    BY DEF PollStep, CrashPoll, StartPoll, TakeJob, Acknowledge, MarkJobFailed, Commit, MarkRow,
           Rollback, Goto
  <2>2. CASE poll' = [poll EXCEPT ![p] = Resting]
    BY <2>2 DEF TypeOK, Resting
  <2>3. CASE poll' = [poll EXCEPT ![p].pc = "take"]
    BY <2>3 DEF TypeOK, Poll
  <2>4. ASSUME NEW i, poll' = [poll EXCEPT ![p] = [Resting EXCEPT !.pc = "read", !.job = i]]
        PROVE  poll'[p].pc = "read"
    BY <2>4 DEF TypeOK, Resting
  <2> QED
    BY <2>1, <2>2, <2>3, <2>4
<1> QED
  BY <1>1, <1>2, <1>3 DEF JobInFlight, At, Approaching

\* The steps of a job: only this poll is busy, so only its own clauses matter.
LEMMA JobInFlightJob ==
  ASSUME Ready, NEW p \in Pollers,
         JobStep(p) \/ ChangeUnanswered(p) \/ GithubFault(p) \/ DatabaseFault(p)
  PROVE  JobInFlight'
<1> USE DEF Ready
<1>1. /\ poll[p].pc \in JobPcs /\ \A q \in Pollers \ {p} : poll'[q] = poll[q]
      /\ Job(p)' = Job(p)
  <2>1. poll'[p].job = poll[p].job /\ poll[p].pc \in JobPcs
    BY JobFrame
  <2>2. outbox'[poll[p].job] = outbox[poll[p].job]
    BY <2>1, JobFrame, PublishKeeps, JobInserted
  <2> QED
    BY <2>1, <2>2, JobFrame DEF Job
<1>2. \A q \in Pollers \ {p} : At(q, "idle") /\ At(q, "idle")'
  BY <1>1 DEF JobInFlight, At, JobPcs
<1>3. Target(p)' = Target(p) /\ Granting(p)' = Granting(p)
  BY <1>1 DEF Target, Granting
<1>4. SUFFICES /\ poll'[p].pc \in Approaching /\ Granting(p) => ~Gone(Target(p))'
               /\ poll'[p].pc \in Approaching /\ ~Granting(p) => ~Live(Target(p))'
               /\ At(p, "mark")' /\ Granting(p) => team'[Target(p)] = "in"
               /\ poll'[p].pc \in {"verify", "mark"} /\ ~Granting(p) => team'[Target(p)] = "out"
  BY <1>2, <1>3 DEF JobInFlight, At, Approaching, Gone, Live
<1>5. Target(p) \in Assignments /\ poll[p] \in Poll
  BY JobType DEF TypeOK
<1>6. \A pc : Goto(p, pc) => poll'[p].pc = pc
  BY <1>5 DEF Goto, TypeOK, Poll
<1>7. CASE ReadAssignment(p)
  <2>1. UNCHANGED asg /\ poll'[p].pc \notin {"verify", "mark"}
    BY <1>5, <1>6, <1>7 DEF ReadAssignment, tables, At, TypeOK, Poll
  <2>2. poll'[p].pc \in Approaching => asg[Target(p)].desired = Wanted(p)
    BY <1>5, <1>6, <1>7 DEF ReadAssignment, TypeOK, Poll, Approaching
  <2> QED
    BY <1>3, <2>1, <2>2 DEF Gone, Live, Wanted, At
<1>8. CASE MarkSyncing(p) \/ EnsureTeam(p)
  <2>1. UNCHANGED asg /\ poll[p].pc \in Approaching /\ poll'[p].pc \notin {"verify", "mark"}
    BY <1>6, <1>8 DEF MarkSyncing, EnsureTeam, Approaching, At, tables
  <2> QED
    BY <1>3, <2>1 DEF JobInFlight, Gone, Live, At
<1>9. CASE VerifyPermission(p)
  <2>1. CASE Confirms(p) /\ Goto(p, "mark")
    <3>1. UNCHANGED <<asg, team>> /\ At(p, "verify") /\ poll'[p].pc = "mark"
      BY <1>6, <1>9, <2>1 DEF VerifyPermission, tables, github
    <3>2. Granting(p) => team[Target(p)] = "in"
      BY <2>1, <1>5 DEF Confirms, HasAccess, HasUnapprovedGrant, TypeOK
    <3> QED
      BY <3>1, <3>2 DEF JobInFlight, At, Approaching
  <2>2. CASE poll' = [poll EXCEPT ![p].pc = "fail", ![p].caught = FALSE]
    BY <1>5, <2>2 DEF TypeOK, Poll, Approaching, At
  <2> QED
    BY <1>9, <2>1, <2>2 DEF VerifyPermission
<1>10. CASE ChangeMembership(p)
  <2>1. poll'[p].pc = "verify" /\ UNCHANGED asg
    BY <1>6, <1>10 DEF ChangeMembership, tables
  <2>2. ~Granting(p) => team'[Target(p)] = "out"
    BY <1>5, <1>10 DEF ChangeMembership, AddMember, RemoveMember, TypeOK
  <2> QED
    BY <2>1, <2>2 DEF Approaching, At
<1>11. CASE MarkVerifiedAssignment(p) \/ MarkVerifiedSync(p) \/ FailAssignment(p) \/ FailSync(p)
              \/ Requeue(p)
  BY <1>6, <1>11
  DEF MarkVerifiedAssignment, MarkVerifiedSync, FailAssignment, FailSync, Requeue, Approaching, At
<1>12. CASE ChangeUnanswered(p) \/ GithubFault(p) \/ DatabaseFault(p)
  <2>1. poll'[p].pc \in {"fail", "nack", "ack"}
    <3>1. \A caught : poll' = [poll EXCEPT ![p].pc = "fail", ![p].caught = caught]
            => poll'[p].pc = "fail"
      BY <1>5 DEF TypeOK, Poll
    <3> QED
      BY <1>6, <1>12, <3>1 DEF ChangeUnanswered, GithubFault, DatabaseFault
  <2> QED
    BY <2>1 DEF Approaching, At
<1> QED
  BY <1>7, <1>8, <1>9, <1>10, <1>11, <1>12 DEF JobStep

LEMMA JobInFlightStep == ~OverlappingPolls /\ Ready /\ [Next]_vars => JobInFlight'
<1> SUFFICES ASSUME ~OverlappingPolls, Ready, [Next]_vars PROVE JobInFlight'
  OBVIOUS
<1>1. CASE UNCHANGED vars
  BY <1>1, JobInFlightFrame DEF vars, Ready, Job, Gone, Live
<1>2. CASE CronStep
  <2>1. /\ UNCHANGED <<asg, team, poll>>
        /\ \A i \in JobIds : outbox'[i].kind = outbox[i].kind /\ outbox'[i].asg = outbox[i].asg
    <3>1. \A i \in JobIds : outbox[i] \in Row
      BY DEF Ready, TypeOK
    <3> QED
      BY <1>2, <3>1 DEF CronStep, CronSelect, CronForward, CronStops, tables, github, queue,
         Ready, TypeOK, Row
  <2>2. \A p \in Pollers : poll[p].job \in JobIds
    BY JobType DEF Ready
  <2> QED
    BY <2>1, <2>2, JobInFlightFrame DEF Ready, Job, Gone, Live
<1>3. ASSUME NEW a \in Assignments, NEW route \in Routes, OutsideChange(a, route) PROVE JobInFlight'
  BY <1>3, JobInFlightFrame DEF OutsideChange, Ready, Job, Gone, Live, tables, queue
<1>4. ASSUME NEW a \in Assignments, AnswerInvitation(a) PROVE JobInFlight'
  <2>1. team[a] = "invited" /\ UNCHANGED <<asg, poll, outbox>>
    BY <1>4 DEF AnswerInvitation, tables, queue
  <2>2. \A x \in Assignments : x # a => team'[x] = team[x]
    BY <1>4 DEF AnswerInvitation, Ready, TypeOK
  <2>3. \A p \in Pollers : Target(p) \in Assignments
    BY JobType DEF Ready
  <2> QED
    BY <2>1, <2>2, <2>3 DEF Ready, JobInFlight, At, Granting, Target, Job, Gone, Live
<1> QED
  BY <1>1, <1>2, <1>3, <1>4, JobInFlightManager, JobInFlightPoll, JobInFlightJob DEF Next, FaultStep

LEMMA ReadyInit == Init => Ready
  BY InitType, HeldRowsInit, JobInFlightInit DEF Ready

LEMMA ReadyStep == ~OverlappingPolls /\ Ready /\ [Next]_vars => Ready'
  BY StepType, HeldRowsStep, JobInFlightStep DEF Ready

\* When polls take turns, no request can overtake a job in a way that makes its
\* next step break a claim (processGrant and processRevoke read desired_state
\* once, several awaits before they act on it).
THEOREM JobsAreSound == ~OverlappingPolls => (Spec => []JobInFlight)
<1> SUFFICES ASSUME ~OverlappingPolls PROVE Spec => []JobInFlight
  OBVIOUS
<1>1. Ready /\ [Next]_vars => Ready'
  BY ReadyStep
<1>2. Ready => JobInFlight
  BY DEF Ready
<1> QED
  BY ReadyInit, <1>1, <1>2, PTL DEF Spec

-----------------------------------------------------------------------------
(* Polls that take turns keep the promise.                                 *)

LEMMA PromiseStarts == Init => Promise!PromiseInit
  BY DEF Init, Promise!PromiseInit

LEMMA PromiseStutters ==
  ASSUME UNCHANGED <<asg, team>> PROVE UNCHANGED Promise!promiseVars
  BY DEF Promise!promiseVars

\* A lead's request asks, withdraws, or is not noticed.
LEMMA ManagerPromise ==
  ASSUME Ready, NEW m \in Managers, ManagerStep(m)
  PROVE  [Promise!PromiseNext]_(Promise!promiseVars)
<1>0. asg \in [Assignments -> Assignment]
  BY DEF Ready, TypeOK
<1>1. ASSUME NEW a \in Assignments, CreateAssignment(m, a) PROVE Promise!Ask(a)
  BY <1>0, <1>1 DEF CreateAssignment, Promise!Ask, github
<1>2. ASSUME NEW a \in Assignments, RemoveAssignment(m, a) PROVE Promise!Withdraw(a)
  <2>1. asg[a] \in Assignment
    BY <1>0
  <2>2. asg'[a].desired = "unassigned" /\ asg'[a].effective = "revoking"
    BY <1>0, <1>2, <2>1 DEF RemoveAssignment, Assignment
  <2>3. asg' = [asg EXCEPT ![a] = asg'[a]]
    BY <1>0, <1>2 DEF RemoveAssignment
  <2> QED
    BY <1>0, <1>2, <2>2, <2>3 DEF RemoveAssignment, Promise!Withdraw, github
<1>3. CASE UNCHANGED <<asg, team>>
  BY <1>3, PromiseStutters
<1> QED
  BY <1>1, <1>2, <1>3
  DEF Promise!PromiseNext, ManagerStep, Reconcile, UpsertPending, PublishRequest, RequestCutShort,
      tables, github

\* A change of the team that a job makes is one the claims of the moment allow.
LEMMA TeamPromise ==
  ASSUME Ready, NEW p \in Pollers, At(p, "change"), UNCHANGED asg,
         \/ AddMember(p)
         \/ ~Granting(p) /\ team' = [team EXCEPT ![Target(p)] = "out"]
  PROVE  Promise!PromiseNext
<1>1. PICK t \in Assignments : t = Target(p)
  BY JobType DEF Ready
<1>2. CASE AddMember(p)
  <2>1. ~Promise!ClaimsGone(t)
    BY <1>1, <1>2 DEF AddMember, Ready, JobInFlight, At, Approaching, Gone, Promise!ClaimsGone
  <2>2. \/ team' = [team EXCEPT ![t] = "in"]
        \/ team[t] # "in" /\ team' = [team EXCEPT ![t] = "invited"]
    BY <1>1, <1>2 DEF AddMember
  <2>3. Promise!Admit(t)
    BY <2>1, <2>2 DEF Promise!Admit
  <2> QED
    BY <1>1, <2>3 DEF Promise!PromiseNext
<1>3. CASE ~Granting(p) /\ team' = [team EXCEPT ![Target(p)] = "out"]
  <2>1. ~Promise!ClaimsLive(t)
    BY <1>1, <1>3 DEF Ready, JobInFlight, At, Approaching, Live, Promise!ClaimsLive
  <2>2. team' = [team EXCEPT ![t] = "out"]
    BY <1>1, <1>3
  <2>3. Promise!Expel(t)
    BY <2>1, <2>2 DEF Promise!Expel
  <2> QED
    BY <1>1, <2>3 DEF Promise!PromiseNext
<1> QED
  BY <1>2, <1>3

\* A claim a job writes is true when it writes it.
LEMMA ClaimPromise ==
  ASSUME Ready, NEW p \in Pollers, MarkVerifiedAssignment(p) \/ FailAssignment(p)
  PROVE  [Promise!PromiseNext]_(Promise!promiseVars)
<1>0. PICK t \in Assignments : t = Target(p)
  BY JobType DEF Ready
<1>1. asg \in [Assignments -> Assignment] /\ asg[t] \in Assignment
  BY <1>0 DEF Ready, TypeOK
<1>2. UNCHANGED team
  BY DEF MarkVerifiedAssignment, FailAssignment, github
<1>3. ASSUME NEW claim, asg' = [asg EXCEPT ![t].effective = claim, ![t].status = claim]
      PROVE  /\ [x \in Assignments |-> asg'[x].desired] = [x \in Assignments |-> asg[x].desired]
             /\ [x \in Assignments |-> asg'[x].effective]
                  = [[x \in Assignments |-> asg[x].effective] EXCEPT ![t] = claim]
  <2>1. asg'[t].desired = asg[t].desired /\ asg'[t].effective = claim
    BY <1>0, <1>1, <1>3 DEF Assignment
  <2>2. \A x \in Assignments \ {t} : asg'[x] = asg[x]
    BY <1>1, <1>3
  <2> QED
    BY <1>1, <2>1, <2>2
<1>4. CASE MarkVerifiedAssignment(p)
  <2>1. team[t] = IF Granting(p) THEN "in" ELSE "out"
    BY <1>0, <1>4 DEF MarkVerifiedAssignment, Ready, JobInFlight, At
  <2>2. CASE Granting(p)
    <3>1. Promise!ClaimActive(t)
      BY <1>0, <1>2, <1>3, <1>4, <2>1, <2>2 DEF MarkVerifiedAssignment, Promise!ClaimActive
    <3> QED
      BY <1>0, <3>1 DEF Promise!PromiseNext
  <2>3. CASE ~Granting(p)
    <3>1. Promise!ClaimRevoked(t)
      BY <1>0, <1>2, <1>3, <1>4, <2>1, <2>3 DEF MarkVerifiedAssignment, Promise!ClaimRevoked
    <3> QED
      BY <1>0, <3>1 DEF Promise!PromiseNext
  <2> QED
    BY <2>2, <2>3
<1>5. CASE FailAssignment(p) /\ Granting(p)
  <2>1. Promise!ClaimFailed(t)
    BY <1>0, <1>2, <1>3, <1>5 DEF FailAssignment, Promise!ClaimFailed
  <2> QED
    BY <1>0, <2>1 DEF Promise!PromiseNext
<1>6. CASE FailAssignment(p) /\ ~Granting(p)
  BY <1>2, <1>6, PromiseStutters DEF FailAssignment
<1> QED
  BY <1>4, <1>5, <1>6

LEMMA PromiseHolds == Ready /\ [Next]_vars => [Promise!PromiseNext]_(Promise!promiseVars)
<1> SUFFICES ASSUME Ready, [Next]_vars PROVE [Promise!PromiseNext]_(Promise!promiseVars)
  OBVIOUS
<1>1. CASE UNCHANGED <<asg, team>>
  BY <1>1, PromiseStutters
<1>2. ASSUME NEW p \in Pollers, ChangeMembership(p) \/ ChangeUnanswered(p) PROVE Promise!PromiseNext
  <2>1. /\ At(p, "change") /\ UNCHANGED asg
        /\ \/ AddMember(p)
           \/ ~Granting(p) /\ team' = [team EXCEPT ![Target(p)] = "out"]
    <3>1. AddMember(p) => At(p, "change")
      BY DEF AddMember
    <3>2. RemoveMember(p) => /\ At(p, "change") /\ ~Granting(p)
                             /\ team' = [team EXCEPT ![Target(p)] = "out"]
      BY DEF RemoveMember
    <3>3. UNCHANGED asg
      BY <1>2 DEF ChangeMembership, ChangeUnanswered, tables
    <3>4. \/ AddMember(p) \/ RemoveMember(p)
          \/ At(p, "change") /\ ~Granting(p) /\ team' = [team EXCEPT ![Target(p)] = "out"]
      BY <1>2 DEF ChangeMembership, ChangeUnanswered
    <3> QED
      BY <3>1, <3>2, <3>3, <3>4
  <2> QED
    BY <2>1, TeamPromise
<1>3. ASSUME NEW p \in Pollers, PollStep(p) \/ CrashPoll(p) PROVE UNCHANGED <<asg, team>>
  BY <1>3 DEF PollStep, CrashPoll, StartPoll, TakeJob, Acknowledge, MarkJobFailed, Commit, tables, github
<1>4. ASSUME NEW p \in Pollers,
             \/ ReadAssignment(p) \/ MarkSyncing(p) \/ EnsureTeam(p) \/ VerifyPermission(p)
             \/ MarkVerifiedSync(p) \/ FailSync(p) \/ Requeue(p) \/ GithubFault(p) \/ DatabaseFault(p)
      PROVE  UNCHANGED <<asg, team>>
  BY <1>4 DEF ReadAssignment, MarkSyncing, EnsureTeam, VerifyPermission, MarkVerifiedSync, FailSync,
              Requeue, GithubFault, DatabaseFault, tables, github
<1>5. CASE CronStep \/ \E a \in Assignments, route \in Routes : OutsideChange(a, route)
  BY <1>1, <1>5 DEF CronStep, CronSelect, CronForward, CronStops, OutsideChange, tables, github
<1>6. CASE UNCHANGED vars
  BY <1>1, <1>6 DEF vars
<1>7. ASSUME NEW a \in Assignments, AnswerInvitation(a) PROVE Promise!PromiseNext
  <2>1. Promise!Answer(a)
    BY <1>7 DEF AnswerInvitation, Promise!Answer, tables
  <2> QED
    BY <2>1 DEF Promise!PromiseNext
<1> QED
  BY <1>1, <1>2, <1>3, <1>4, <1>5, <1>6, <1>7, ManagerPromise, ClaimPromise DEF Next, JobStep, FaultStep

\* The worker, as long as its polls take turns, implements the promise made to
\* the group's lead (processRevoke: "never claim revoked before verified").
THEOREM ImplementsPromise == ~OverlappingPolls => (Spec => KeepsPromise)
<1> SUFFICES ASSUME ~OverlappingPolls PROVE Spec => KeepsPromise
  OBVIOUS
<1>1. Ready /\ [Next]_vars => Ready'
  BY ReadyStep
<1> QED
  BY ReadyInit, PromiseStarts, <1>1, PromiseHolds, PTL DEF Spec, KeepsPromise, Promise!PromiseSpec

\* Every step of the promise keeps the claims true, in whatever system makes it.
TeamSound == team \in [Assignments -> Memberships]

LEMMA PromiseStep ==
  TeamSound /\ Promise!PromiseKept /\ [Promise!PromiseNext]_(Promise!promiseVars)
    => (TeamSound /\ Promise!PromiseKept)'
<1> SUFFICES ASSUME TeamSound, Promise!PromiseKept, [Promise!PromiseNext]_(Promise!promiseVars)
             PROVE  TeamSound' /\ ClaimsAreTrue'
  BY DEF ClaimsAreTrue, Gone, Live, Promise!PromiseKept, Promise!ClaimsGone, Promise!ClaimsLive
<1>a. TeamSound'
  BY DEF TeamSound, Memberships, Promise!PromiseNext, Promise!promiseVars, Promise!Ask,
         Promise!Withdraw, Promise!Admit, Promise!Expel, Promise!Answer, Promise!ClaimActive,
         Promise!ClaimRevoked, Promise!ClaimFailed
<1> DEFINE Stays(x) == /\ asg'[x].desired = asg[x].desired /\ asg'[x].effective = asg[x].effective
                       /\ team'[x] = team[x]
           Kept(x) == (Gone(x)' => team'[x] = "out") /\ (Live(x)' => team'[x] = "in")
<1>0. ASSUME NEW x \in Assignments, Stays(x) PROVE Kept(x)
  BY <1>0 DEF Promise!PromiseKept, Promise!ClaimsGone, Promise!ClaimsLive, Gone, Live
<1>1. CASE UNCHANGED Promise!promiseVars
  <2>1. \A x \in Assignments : Stays(x)
    BY <1>1 DEF Promise!promiseVars
  <2> QED
    BY <1>0, <1>a, <2>1 DEF ClaimsAreTrue, Gone, Live
<1>2. ASSUME NEW a \in Assignments, Promise!Ask(a) \/ Promise!Withdraw(a) PROVE ClaimsAreTrue'
  <2>1. \A x \in Assignments \ {a} : Stays(x)
    BY <1>2 DEF Promise!Ask, Promise!Withdraw
  <2>2. asg'[a].effective \in {"pending", "revoking"}
    BY <1>2 DEF Promise!Ask, Promise!Withdraw
  <2> QED
    BY <1>0, <2>1, <2>2 DEF ClaimsAreTrue, Gone, Live
<1>3. ASSUME NEW a \in Assignments, Promise!Admit(a) \/ Promise!Expel(a) \/ Promise!Answer(a)
      PROVE  ClaimsAreTrue'
  <2>1. /\ \A x \in Assignments : asg'[x].desired = asg[x].desired /\ asg'[x].effective = asg[x].effective
        /\ \A x \in Assignments \ {a} : team'[x] = team[x]
    BY <1>3 DEF Promise!Admit, Promise!Expel, Promise!Answer, TeamSound
  <2>2. Kept(a)
    BY <1>3, <2>1
    DEF TeamSound, Promise!PromiseKept, Promise!Admit, Promise!Expel, Promise!Answer,
        Promise!ClaimsGone, Promise!ClaimsLive, Gone, Live
  <2> QED
    BY <1>0, <2>1, <2>2 DEF ClaimsAreTrue
<1>4. ASSUME NEW a \in Assignments,
             Promise!ClaimActive(a) \/ Promise!ClaimRevoked(a) \/ Promise!ClaimFailed(a)
      PROVE  ClaimsAreTrue'
  <2>1. \A x \in Assignments \ {a} : Stays(x)
    BY <1>4 DEF Promise!ClaimActive, Promise!ClaimRevoked, Promise!ClaimFailed
  <2>2. /\ team'[a] = team[a] /\ asg'[a].effective \in {"active", "revoked", "failed"}
        /\ asg'[a].effective = "active" => team[a] = "in"
        /\ asg'[a].effective = "revoked" => team[a] = "out"
    BY <1>4 DEF Promise!ClaimActive, Promise!ClaimRevoked, Promise!ClaimFailed
  <2> QED
    BY <1>0, <2>1, <2>2 DEF ClaimsAreTrue, Gone, Live
<1> QED
  BY <1>a, <1>1, <1>2, <1>3, <1>4 DEF Promise!PromiseNext

\* A system that keeps the promise never shows revoked what GitHub still grants,
\* nor active what it does not (processRevoke, processGrant).
THEOREM PromiseIsKept == KeepsPromise => []Promise!PromiseKept
<1>1. Promise!PromiseInit => Promise!PromiseKept
  BY DEF Promise!PromiseInit, Promise!PromiseKept, Promise!ClaimsGone, Promise!ClaimsLive
<1>2. Promise!PromiseInit => TeamSound
  BY DEF Promise!PromiseInit, TeamSound, Memberships
<1> QED
  BY <1>1, <1>2, PromiseStep, PTL DEF KeepsPromise, Promise!PromiseSpec

\* What the console shows as revoked is off the team and what it shows as active
\* is on it, as long as polls take turns (markRevokeVerified, markGrantVerified).
THEOREM ClaimsHold == ~OverlappingPolls => (Spec => []ClaimsAreTrue)
<1> SUFFICES ASSUME ~OverlappingPolls PROVE Spec => []ClaimsAreTrue
  OBVIOUS
<1>1. Spec => KeepsPromise
  BY ImplementsPromise
<1>2. Promise!PromiseKept => ClaimsAreTrue
  BY DEF Promise!PromiseKept, Promise!ClaimsGone, Promise!ClaimsLive, ClaimsAreTrue, Gone, Live
<1> QED
  BY <1>1, <1>2, PromiseIsKept, PTL

-----------------------------------------------------------------------------
(* No access is forgotten.                                                 *)

\* Two requests about the same assignment are not handled at the same time.
RequestsTakeTurns ==
  \A m, n \in Managers :
    ~MgrAt(m, "idle") /\ ~MgrAt(n, "idle") /\ mgr[m].asg = mgr[n].asg => m = n

\* A revoke of the assignment is still to be tried: its request is under way, or its
\* row waits and its job is not at its end.
Waits(i, a) ==
  /\ outbox[i].kind = "revoke" /\ outbox[i].asg = a
  /\ outbox[i].status = "pending" /\ outbox[i].mark = "none"
  /\ \A p \in Pollers : At(p, "ack") => poll[p].job # i
Due(a) == RevokeRequestUnderWay(a) \/ \E i \in JobIds : Waits(i, a)
Unwanted(a) == asg[a].desired = "unassigned"

\* Rows that are locked are pending, the row of a running job is not marked, and no job
\* ends in an exception.
RowsInUse ==
  /\ \A i \in JobIds : outbox[i].owner # NoOne => outbox[i].status = "pending"
  /\ \A p \in Pollers : poll[p].pc \in JobPcs => Job(p).mark = "none"
  /\ \A p \in Pollers : ~At(p, "nack")

\* What leaves access that nobody wants is a grant that was under way when it was
\* withdrawn; its withdrawal comes after it.
Acting == JobPcs \ {"read", "ack"}
GrantWatched ==
  \A p \in Pollers :
    poll[p].pc \in Acting /\ Granting(p) /\ Unwanted(Target(p)) => Due(Target(p))

RevokeDone ==
  \A p \in Pollers :
    poll[p].pc \in {"verify", "mark", "marksync"} /\ ~Granting(p) => team[Target(p)] = "out"

Remembered ==
  \A a \in Assignments :
    Unwanted(a) /\ team[a] # "out" => Due(a) \/ sync[a].state = "failed"

\* Without its sync row an assignment was never granted, and a request is about to
\* write the row if one is wanted.
Rowless ==
  \A a \in Assignments : sync[a].state = "none" =>
    /\ team[a] = "out"
    /\ \A i \in JobIds : i <= rows /\ outbox[i].asg = a => outbox[i].kind = "revoke"
    /\ \A m \in Managers : MgrAt(m, "publishGrant") => mgr[m].asg # a
    /\ asg[a].desired = "assigned" => \E m \in Managers : MgrAt(m, "upsert") /\ mgr[m].asg = a

UpsertWanted ==
  \A m \in Managers : MgrAt(m, "upsert") => asg[mgr[m].asg].desired = "assigned"

Memory ==
  /\ cron = {} /\ RowsInUse /\ GrantWatched /\ RevokeDone
  /\ Remembered /\ Rowless /\ UpsertWanted

LEMMA MemoryStarts == Init => Memory
<1> SUFFICES ASSUME Init PROVE Memory
  OBVIOUS
<1>1. \A a \in Assignments : asg[a].desired = "none" /\ team[a] = "out"
  BY DEF Init
<1>2. \A p \in Pollers : poll[p].pc = "idle"
  BY DEF Init, Resting
<1>3. \A i \in JobIds : outbox[i].owner = NoOne /\ ~(i <= rows)
  BY DEF Init, JobIds
<1>4. \A m \in Managers : mgr[m].pc = "idle"
  BY DEF Init
<1> QED
  BY <1>1, <1>2, <1>3, <1>4
  DEF Memory, RowsInUse, GrantWatched, RevokeDone, Remembered, Rowless, UpsertWanted, Unwanted,
      Acting, JobPcs, At, MgrAt, Init

\* The row an INSERT leaves, and those it leaves alone.
LEMMA NewRow ==
  ASSUME TypeOK, NEW kind, NEW a, PublishLater(kind, a)
  PROVE  /\ rows + 1 \in JobIds /\ rows' = rows + 1
         /\ outbox'[rows + 1] = [kind |-> kind, asg |-> a, status |-> "pending",
                                 owner |-> NoOne, mark |-> "none"]
         /\ \A i \in JobIds : i # rows + 1 => outbox'[i] = outbox[i]
         /\ \A i \in JobIds : i <= rows' <=> i <= rows \/ i = rows + 1
<1>1. rows + 1 \in JobIds /\ rows \in Nat
  BY AccessAssumption DEF TypeOK, JobIds, PublishLater, HasRoom
<1>2. rows' = rows + 1
  BY DEF PublishLater
<1>3. \A i \in JobIds : i <= rows' <=> i <= rows \/ i = rows + 1
  BY <1>1, <1>2 DEF JobIds
<1> QED
  BY <1>1, <1>2, <1>3 DEF PublishLater, TypeOK

\* A row somebody waits for has been inserted.
LEMMA InsertedJob ==
  ASSUME TypeOK, HeldRows, NEW i \in JobIds, outbox[i].status = "pending"
  PROVE  i <= rows /\ i # rows + 1
<1>1. ~(i > rows)
  BY DEF HeldRows
<1> QED
  BY <1>1 DEF JobIds, TypeOK

\* Steps that only append to the outbox.
Appends == UNCHANGED <<outbox, rows>> \/ \E kind, a : PublishLater(kind, a)

LEMMA AppendKeepsUse ==
  ASSUME TypeOK, HeldRows, RowsInUse, Appends,
         \A p \in Pollers : poll'[p].pc \in JobPcs =>
           poll[p].pc \in JobPcs /\ poll'[p].job = poll[p].job,
         \A p \in Pollers : poll'[p].pc # "nack"
  PROVE  RowsInUse'
<1>1. CASE UNCHANGED <<outbox, rows>>
  BY <1>1 DEF RowsInUse, Job, At
<1>2. ASSUME NEW kind, NEW a, PublishLater(kind, a) PROVE RowsInUse'
  <2>1. \A i \in JobIds : outbox'[i].owner # NoOne => outbox'[i].status = "pending"
    <3>0. outbox'[rows + 1] = [kind |-> kind, asg |-> a, status |-> "pending",
                               owner |-> NoOne, mark |-> "none"]
      BY <1>2, NewRow
    <3>1. outbox'[rows + 1].owner = NoOne
      BY <3>0
    <3>2. \A i \in JobIds : i # rows + 1 => outbox'[i] = outbox[i]
      BY <1>2, NewRow
    <3> QED
      BY <3>1, <3>2 DEF RowsInUse
  <2>2. \A p \in Pollers : poll'[p].pc \in JobPcs => Job(p)'.mark = "none"
    <3> SUFFICES ASSUME NEW p \in Pollers, poll'[p].pc \in JobPcs PROVE Job(p)'.mark = "none"
      OBVIOUS
    <3>1. poll'[p].job \in JobIds /\ poll'[p].job = poll[p].job /\ poll[p].job <= rows
      BY JobInserted
    <3>2. outbox'[poll[p].job] = outbox[poll[p].job]
      BY <1>2, <3>1, PublishKeeps
    <3> QED
      BY <3>1, <3>2 DEF RowsInUse, Job
  <2> QED
    BY <2>1, <2>2 DEF RowsInUse, At
<1> QED
  BY <1>1, <1>2 DEF Appends

LEMMA AppendKeepsWaiting ==
  ASSUME TypeOK, HeldRows, Appends, NEW i \in JobIds, NEW a, Waits(i, a),
         \A p \in Pollers : poll'[p].pc = "ack" => poll'[p].job # i
  PROVE  Waits(i, a)'
<1>1. outbox'[i] = outbox[i]
  <2>1. i # rows + 1
    BY InsertedJob DEF Waits
  <2> QED
    BY <2>1, NewRow DEF Appends
<1> QED
  BY <1>1 DEF Waits, At

\* A request of m's, by what it does to desired states and to who is at work.
Starts(m, pc, a) == mgr[m].pc = "idle" /\ mgr'[m] = [pc |-> pc, asg |-> a]
Wishes(a, desired) ==
  /\ asg'[a].desired = desired
  /\ \A b \in Assignments \ {a} : asg'[b] = asg[b]
  /\ UNCHANGED <<sync, outbox, rows>>
AsksFor(m, a) == Starts(m, "upsert", a) /\ Wishes(a, "assigned")
Withdraws(m, a) == Starts(m, "publishRevoke", a) /\ Wishes(a, "unassigned")
Rechecks(m, a) ==
  /\ \/ Starts(m, "publishRevoke", a)
     \/ Starts(m, "publishGrant", a) /\ asg[a].desired = "assigned"
  /\ UNCHANGED <<asg, sync, outbox, rows>>
Upserts(m) ==
  /\ mgr[m].pc = "upsert" /\ mgr'[m] = [pc |-> "publishGrant", asg |-> mgr[m].asg]
  /\ sync'[mgr[m].asg].state = "pending"
  /\ \A b \in Assignments \ {mgr[m].asg} : sync'[b] = sync[b]
  /\ UNCHANGED <<asg, outbox, rows>>
Publishes(m) ==
  /\ \/ mgr[m].pc = "publishGrant" /\ PublishLater("grant", mgr[m].asg)
     \/ mgr[m].pc = "publishRevoke" /\ PublishLater("revoke", mgr[m].asg)
  /\ mgr'[m] = [pc |-> "idle", asg |-> mgr[m].asg]
  /\ UNCHANGED <<asg, sync>>

LEMMA ManagerMoves ==
  ASSUME Ready, NEW m \in Managers, ManagerStep(m), "database" \notin Faults
  PROVE  /\ \A n \in Managers \ {m} : mgr'[n] = mgr[n]
         /\ mgr[m].asg \in Assignments
         /\ \/ \E a \in Assignments : AsksFor(m, a)
            \/ \E a \in Assignments : Withdraws(m, a)
            \/ \E a \in Assignments : Rechecks(m, a)
            \/ Upserts(m)
            \/ Publishes(m)
<1>0. /\ mgr \in [Managers -> Request] /\ mgr[m] \in Request /\ mgr[m].asg \in Assignments
      /\ asg \in [Assignments -> Assignment] /\ sync \in [Assignments -> SyncRow]
  BY DEF Ready, TypeOK, Request
<1>1. \A pc : MgrGoto(m, pc) => /\ mgr'[m] = [pc |-> pc, asg |-> mgr[m].asg]
                                /\ \A n \in Managers \ {m} : mgr'[n] = mgr[n]
  BY <1>0 DEF MgrGoto, Request
<1>2. \A a, pc : Accept(m, a, pc) => Starts(m, pc, a) /\ \A n \in Managers \ {m} : mgr'[n] = mgr[n]
  BY <1>0 DEF Accept, MgrAt, Starts
<1>3. ASSUME NEW a \in Assignments, CreateAssignment(m, a)
      PROVE  AsksFor(m, a) /\ \A n \in Managers \ {m} : mgr'[n] = mgr[n]
  <2>1. Wishes(a, "assigned")
    BY <1>0, <1>3 DEF CreateAssignment, queue, Wishes
  <2> QED
    BY <1>2, <1>3, <2>1 DEF CreateAssignment, AsksFor
<1>4. ASSUME NEW a \in Assignments, RemoveAssignment(m, a)
      PROVE  Withdraws(m, a) /\ \A n \in Managers \ {m} : mgr'[n] = mgr[n]
  <2>1. asg[a] \in Assignment
    BY <1>0
  <2>2. asg'[a].desired = "unassigned"
    BY <1>0, <1>4, <2>1 DEF RemoveAssignment, Assignment
  <2>3. Wishes(a, "unassigned")
    BY <1>0, <1>4, <2>2 DEF RemoveAssignment, queue, Wishes
  <2> QED
    BY <1>2, <1>4, <2>3 DEF RemoveAssignment, Withdraws
<1>5. ASSUME NEW a \in Assignments, Reconcile(m, a)
      PROVE  Rechecks(m, a) /\ \A n \in Managers \ {m} : mgr'[n] = mgr[n]
  <2>1. CASE asg[a].desired = "assigned"
    BY <1>2, <1>5, <2>1 DEF Reconcile, queue, tables, Rechecks
  <2>2. CASE asg[a].desired # "assigned"
    BY <1>2, <1>5, <2>2 DEF Reconcile, queue, tables, Rechecks
  <2> QED
    BY <2>1, <2>2
<1>6. CASE UpsertPending(m)
  <2>1. sync'[mgr[m].asg].state = "pending" /\ \A b \in Assignments \ {mgr[m].asg} : sync'[b] = sync[b]
    BY <1>0, <1>6 DEF UpsertPending, SyncRow
  <2>2. mgr[m].pc = "upsert" /\ MgrGoto(m, "publishGrant") /\ UNCHANGED <<asg, outbox, rows>>
    BY <1>6 DEF UpsertPending, MgrAt, queue
  <2> QED
    BY <1>0, <1>1, <2>1, <2>2 DEF Upserts
<1>7. CASE PublishRequest(m)
  BY <1>0, <1>1, <1>7 DEF PublishRequest, MgrAt, tables, Publishes
<1>8. ~RequestCutShort(m)
  BY DEF RequestCutShort, Suffer
<1>9. CASE \E a \in Assignments : CreateAssignment(m, a)
  BY <1>0, <1>3, <1>9
<1>10. CASE \E a \in Assignments : RemoveAssignment(m, a)
  BY <1>0, <1>4, <1>10
<1>11. CASE \E a \in Assignments : Reconcile(m, a)
  BY <1>0, <1>5, <1>11
<1> QED
  BY <1>6, <1>7, <1>8, <1>9, <1>10, <1>11 DEF ManagerStep

\* A revoke that is to be tried stays so, whatever leads ask for.
LEMMA ManagerKeepsDue ==
  ASSUME Ready, NEW m \in Managers, ManagerStep(m), "database" \notin Faults,
         NEW a \in Assignments, Due(a)
  PROVE  Due(a)'
<1>1. UNCHANGED poll /\ Appends
  BY ManagerFrame DEF Ready, Appends
<1>2. ASSUME NEW i \in JobIds, Waits(i, a) PROVE Due(a)'
  <2>1. \A p \in Pollers : poll'[p].pc = "ack" => poll'[p].job # i
    BY <1>1, <1>2 DEF Waits, At
  <2>2. Waits(i, a)'
    BY <1>1, <1>2, <2>1, AppendKeepsWaiting DEF Ready
  <2> QED
    BY <2>2 DEF Due
<1>3. ASSUME NEW n \in Managers, mgr[n].asg = a, mgr[n].pc = "publishRevoke" PROVE Due(a)'
  <2>1. CASE n # m
    BY <1>3, <2>1, ManagerMoves DEF Due, RevokeRequestUnderWay
  <2>2. CASE n = m
    <3>1. Publishes(m) /\ PublishLater("revoke", a)
      <4>1. Publishes(m)
        BY <1>3, <2>2, ManagerMoves DEF AsksFor, Withdraws, Rechecks, Upserts, Starts
      <4> QED
        BY <1>3, <2>2, <4>1 DEF Publishes
    <3>2. PICK k \in JobIds :
            /\ k = rows + 1
            /\ outbox'[k] = [kind |-> "revoke", asg |-> a, status |-> "pending",
                             owner |-> NoOne, mark |-> "none"]
      BY <3>1, NewRow DEF Ready
    <3>3. \A p \in Pollers : poll'[p].pc = "ack" => poll'[p].job # k
      <4> SUFFICES ASSUME NEW p \in Pollers, poll[p].pc = "ack" PROVE poll[p].job # k
        BY <1>1
      <4>1. poll[p].job \in JobIds /\ poll[p].job <= rows
        BY JobInserted DEF Ready, JobPcs
      <4> QED
        BY <3>2, <4>1 DEF JobIds, Ready, TypeOK
    <3>4. Waits(k, a)'
      BY <3>2, <3>3 DEF Waits, At
    <3> QED
      BY <3>2, <3>4 DEF Due
  <2> QED
    BY <2>1, <2>2
<1> QED
  BY <1>2, <1>3 DEF Due, RevokeRequestUnderWay

\* Who withdraws an assignment is about to leave a revoke.
LEMMA WithdrawnIsDue ==
  ASSUME Ready, NEW m \in Managers, ManagerStep(m), "database" \notin Faults,
         NEW a \in Assignments, Unwanted(a)'
  PROVE  Unwanted(a) \/ Due(a)'
<1>1. ASSUME NEW b \in Assignments, AsksFor(m, b) PROVE Unwanted(a)
  BY <1>1 DEF AsksFor, Wishes, Unwanted
<1>2. ASSUME NEW b \in Assignments, Withdraws(m, b) PROVE Unwanted(a) \/ Due(a)'
  <2>1. CASE a = b
    BY <1>2, <2>1 DEF Withdraws, Starts, Due, RevokeRequestUnderWay
  <2>2. CASE a # b
    BY <1>2, <2>2 DEF Withdraws, Wishes, Unwanted
  <2> QED
    BY <2>1, <2>2
<1>3. CASE UNCHANGED asg
  BY <1>3 DEF Unwanted
<1> QED
  BY <1>1, <1>2, <1>3, ManagerMoves DEF Rechecks, Upserts, Publishes

\* Two requests under way about one assignment are one.
LEMMA ManagerKeepsRowless ==
  ASSUME Ready, Memory, RequestsTakeTurns', NEW m \in Managers, ManagerStep(m),
         "database" \notin Faults
  PROVE  Rowless'
<1> SUFFICES ASSUME NEW a \in Assignments, sync'[a].state = "none"
             PROVE  /\ team'[a] = "out"
                    /\ \A i \in JobIds : i <= rows' /\ outbox'[i].asg = a => outbox'[i].kind = "revoke"
                    /\ \A n \in Managers : mgr'[n].pc = "publishGrant" => mgr'[n].asg # a
                    /\ asg'[a].desired = "assigned"
                         => \E n \in Managers : mgr'[n].pc = "upsert" /\ mgr'[n].asg = a
  BY DEF Rowless, MgrAt
<1>0. /\ UNCHANGED team
      /\ \A n \in Managers \ {m} : mgr'[n] = mgr[n]
      /\ Upserts(m) => a # mgr[m].asg
  BY ManagerFrame, ManagerMoves DEF Ready, Upserts
<1>1. sync[a].state = "none"
  BY <1>0, ManagerMoves DEF AsksFor, Withdraws, Rechecks, Wishes, Upserts, Publishes
<1>2. /\ team[a] = "out"
      /\ \A i \in JobIds : i <= rows /\ outbox[i].asg = a => outbox[i].kind = "revoke"
      /\ \A n \in Managers : mgr[n].pc = "publishGrant" => mgr[n].asg # a
      /\ asg[a].desired = "assigned"
           => \E n \in Managers : mgr[n].pc = "upsert" /\ mgr[n].asg = a
  BY <1>1 DEF Memory, Rowless, MgrAt
<1>3. \A i \in JobIds : i <= rows' /\ outbox'[i].asg = a => outbox'[i].kind = "revoke"
  <2>1. CASE UNCHANGED <<outbox, rows>>
    BY <1>2, <2>1
  <2>2. ASSUME NEW kind \in Kinds, PublishLater(kind, mgr[m].asg), kind = "grant" => mgr[m].asg # a
        PROVE  \A i \in JobIds : i <= rows' /\ outbox'[i].asg = a => outbox'[i].kind = "revoke"
    <3> SUFFICES ASSUME NEW i \in JobIds, i <= rows', outbox'[i].asg = a PROVE outbox'[i].kind = "revoke"
      OBVIOUS
    <3>1. CASE i = rows + 1
      <4>1. outbox'[i] = [kind |-> kind, asg |-> mgr[m].asg, status |-> "pending",
                          owner |-> NoOne, mark |-> "none"]
        BY <2>2, <3>1, NewRow DEF Ready
      <4> QED
        BY <2>2, <4>1 DEF Kinds
    <3>2. CASE i # rows + 1
      <4>1. outbox'[i] = outbox[i] /\ i <= rows
        BY <2>2, <3>2, NewRow DEF Ready
      <4> QED
        BY <1>2, <4>1
    <3> QED
      BY <3>1, <3>2
  <2> QED
    BY <1>2, <2>1, <2>2, ManagerMoves
    DEF AsksFor, Withdraws, Rechecks, Wishes, Upserts, Publishes, Kinds
<1>4. ASSUME NEW b \in Assignments, Rechecks(m, b) PROVE mgr'[m].pc = "publishGrant" => mgr'[m].asg # a
  <2> SUFFICES ASSUME mgr'[m].pc = "publishGrant", b = a PROVE FALSE
    BY <1>4 DEF Rechecks, Starts
  <2>1. mgr[m].pc = "idle" /\ asg[a].desired = "assigned" /\ mgr'[m].asg = a
    BY <1>4 DEF Rechecks, Starts
  <2>2. PICK n \in Managers : mgr[n].pc = "upsert" /\ mgr[n].asg = a
    BY <1>2, <2>1
  <2>3. n # m /\ mgr'[n] = mgr[n]
    BY <1>0, <2>1, <2>2
  <2> QED
    BY <2>1, <2>2, <2>3 DEF RequestsTakeTurns, MgrAt
<1>5. \A n \in Managers : mgr'[n].pc = "publishGrant" => mgr'[n].asg # a
  <2>1. mgr'[m].pc = "publishGrant" => mgr'[m].asg # a
    <3>1. ASSUME NEW b \in Assignments, AsksFor(m, b) \/ Withdraws(m, b) PROVE mgr'[m].pc # "publishGrant"
      BY <3>1 DEF AsksFor, Withdraws, Starts
    <3>2. Publishes(m) => mgr'[m].pc # "publishGrant"
      BY DEF Publishes
    <3>3. Upserts(m) => mgr'[m].asg # a
      BY <1>0 DEF Upserts
    <3> QED
      BY <1>4, <3>1, <3>2, <3>3, ManagerMoves
  <2> QED
    BY <1>0, <1>2, <2>1
<1>6. ASSUME asg'[a].desired = "assigned"
      PROVE  \E n \in Managers : mgr'[n].pc = "upsert" /\ mgr'[n].asg = a
  <2>1. CASE AsksFor(m, a)
    BY <2>1 DEF AsksFor, Starts
  <2>2. ASSUME NEW b \in Assignments, AsksFor(m, b), b # a PROVE asg[a].desired = "assigned"
    BY <1>6, <2>2 DEF AsksFor, Wishes
  <2>3. ASSUME NEW b \in Assignments, Withdraws(m, b) PROVE asg[a].desired = "assigned"
    BY <1>6, <2>3 DEF Withdraws, Wishes
  <2>4. ASSUME UNCHANGED asg PROVE asg[a].desired = "assigned"
    BY <1>6, <2>4
  <2>5. CASE asg[a].desired = "assigned"
    <3>1. PICK n \in Managers : mgr[n].pc = "upsert" /\ mgr[n].asg = a
      BY <1>2, <2>5
    <3>2. CASE n # m
      BY <1>0, <3>1, <3>2
    <3>3. CASE n = m
      BY <1>0, <3>1, <3>3, ManagerMoves DEF AsksFor, Withdraws, Rechecks, Starts, Publishes
    <3> QED
      BY <3>2, <3>3
  <2> QED
    BY <2>1, <2>2, <2>3, <2>4, <2>5, ManagerMoves DEF Rechecks, Upserts, Publishes
<1> QED
  BY <1>0, <1>2, <1>3, <1>5, <1>6

LEMMA ManagerRemembers ==
  ASSUME Ready, Memory, RequestsTakeTurns', NEW m \in Managers, ManagerStep(m),
         "database" \notin Faults
  PROVE  Memory'
<1> USE DEF Ready, Memory
<1>0. UNCHANGED <<team, poll, cron>> /\ Appends
  BY ManagerFrame DEF Appends
<1>1. RowsInUse'
  BY <1>0, AppendKeepsUse DEF RowsInUse, At
<1>2. \A p \in Pollers : poll[p].pc \in JobPcs => Job(p)' = Job(p)
  BY ManagerFrame, AppendKeepsRows DEF Job
<1>3. \A p \in Pollers : Target(p) \in Assignments
  BY JobType
<1>4. \A a \in Assignments : (Due(a) => Due(a)') /\ (Unwanted(a)' => Unwanted(a) \/ Due(a)')
  BY ManagerKeepsDue, WithdrawnIsDue
<1>5. GrantWatched'
  <2> SUFFICES ASSUME NEW p \in Pollers, poll[p].pc \in Acting, Granting(p)',
                      NEW a \in Assignments, a = Target(p)', Unwanted(a)'
               PROVE  Due(a)'
    <3>1. \A p \in Pollers : poll[p].pc \in Acting => Target(p)' \in Assignments
      BY <1>2, <1>3 DEF Acting, Target
    <3> QED
      BY <1>0, <3>1 DEF GrantWatched, Unwanted, Due, Waits, RevokeRequestUnderWay, At
  <2>1. Granting(p) /\ a = Target(p)
    BY <1>2 DEF Granting, Target, Acting
  <2> QED
    BY <1>4, <2>1 DEF GrantWatched
<1>6. RevokeDone'
  BY <1>0, <1>2 DEF RevokeDone, Granting, Target, JobPcs
<1>7. Remembered'
  <2> SUFFICES ASSUME NEW a \in Assignments, Unwanted(a)', team[a] # "out", ~Due(a)'
               PROVE  sync'[a].state = "failed"
    BY <1>0 DEF Remembered
  <2>1. Unwanted(a) /\ sync[a].state = "failed"
    BY <1>4 DEF Remembered
  <2>2. ~(Upserts(m) /\ a = mgr[m].asg)
    BY <2>1 DEF Upserts, UpsertWanted, Unwanted, MgrAt
  <2> QED
    BY <2>1, <2>2, ManagerMoves DEF AsksFor, Withdraws, Rechecks, Wishes, Upserts, Publishes
<1>8. UpsertWanted'
  <2> SUFFICES ASSUME NEW n \in Managers, mgr'[n].pc = "upsert"
               PROVE  asg'[mgr'[n].asg].desired = "assigned"
    BY DEF UpsertWanted, MgrAt
  <2>0. mgr[n] \in Request
    BY DEF TypeOK
  <2>1. CASE n = m
    <3>1. ASSUME NEW b \in Assignments, AsksFor(m, b) PROVE asg'[mgr'[m].asg].desired = "assigned"
      BY <3>1 DEF AsksFor, Starts, Wishes
    <3>2. ASSUME NEW b \in Assignments, Withdraws(m, b) \/ Rechecks(m, b) PROVE mgr'[m].pc # "upsert"
      BY <3>2 DEF Withdraws, Rechecks, Starts
    <3>3. Upserts(m) \/ Publishes(m) => mgr'[m].pc # "upsert"
      BY DEF Upserts, Publishes
    <3> QED
      BY <2>1, <3>1, <3>2, <3>3, ManagerMoves
  <2>2. CASE n # m
    <3>1. mgr'[n] = mgr[n] /\ asg[mgr[n].asg].desired = "assigned" /\ mgr[n].asg \in Assignments
      BY <2>0, <2>2, ManagerMoves DEF UpsertWanted, MgrAt, Request
    <3>2. ASSUME NEW b \in Assignments, Withdraws(m, b) PROVE b # mgr[n].asg
      BY <2>2, <3>1, <3>2 DEF Withdraws, Starts, RequestsTakeTurns, MgrAt
    <3>3. ASSUME NEW b \in Assignments, AsksFor(m, b) PROVE asg'[mgr[n].asg].desired = "assigned"
      BY <3>1, <3>3 DEF AsksFor, Wishes
    <3>4. ASSUME NEW b \in Assignments, Withdraws(m, b) PROVE asg'[mgr[n].asg].desired = "assigned"
      BY <3>1, <3>2, <3>4 DEF Withdraws, Wishes
    <3> QED
      BY <3>1, <3>3, <3>4, ManagerMoves DEF Rechecks, Upserts, Publishes
  <2> QED
    BY <2>1, <2>2
<1> QED
  BY <1>0, <1>1, <1>5, <1>6, <1>7, <1>8, ManagerKeepsRowless

\* A poll's own steps: what it locks, marks and frees was not waiting any more.
LEMMA PollRemembers ==
  ASSUME Ready, Memory, ~OverlappingPolls, NEW p \in Pollers, PollStep(p) \/ CrashPoll(p)
  PROVE  Memory'
<1> USE DEF Ready, Memory
<1>1. /\ UNCHANGED <<asg, sync, team, rows, mgr, cron>>
      /\ \A q \in Pollers \ {p} : poll'[q] = poll[q]
  BY DEF PollStep, CrashPoll, StartPoll, TakeJob, Acknowledge, MarkJobFailed, Commit, MarkRow,
         Rollback, Goto, TypeOK, queue, tables, github
<1>2. \A q \in Pollers \ {p} : poll[q].pc = "idle"
  BY DEF PollStep, CrashPoll, StartPoll, TakeJob, Acknowledge, MarkJobFailed, Commit,
         JobInFlight, At
<1>3. \A i \in JobIds : outbox[i] \in Row
  BY DEF TypeOK
<1>4. Resting.pc = "idle" /\ NoOne \notin Pollers
  BY AccessAssumption DEF Resting
\* What each step does to the rows and to the poll.
<1>5. /\ poll'[p].pc \in {"idle", "take", "read"}
      /\ poll'[p].pc = "read" => poll'[p].job \in JobIds /\ outbox'[poll'[p].job].mark = "none"
      /\ \A i \in JobIds :
           /\ outbox'[i].kind = outbox[i].kind /\ outbox'[i].asg = outbox[i].asg
           /\ outbox'[i].owner # NoOne => outbox'[i].status = "pending"
           /\ \A a : Waits(i, a) => outbox'[i].status = "pending" /\ outbox'[i].mark = "none"
  <2>1. CASE StartPoll(p)
    <3>1. poll'[p].pc = "take"
      BY <2>1 DEF StartPoll, Goto, TypeOK, Poll
    <3>2. \A i \in JobIds : \/ outbox'[i] = outbox[i]
                            \/ outbox'[i] = [outbox[i] EXCEPT !.owner = p] /\ outbox[i].status = "pending"
      BY <2>1 DEF StartPoll, NextBatch, Takeable
    <3>3. \A i \in JobIds : LET r == [outbox[i] EXCEPT !.owner = p] IN
            /\ r.kind = outbox[i].kind /\ r.asg = outbox[i].asg
            /\ r.status = outbox[i].status /\ r.mark = outbox[i].mark
      BY <1>3 DEF Row
    <3> QED
      BY <3>1, <3>2, <3>3 DEF RowsInUse, Waits
  <2>2. CASE TakeJob(p)
    <3>1. PICK i \in JobIds : /\ outbox[i].mark = "none"
                              /\ poll' = [poll EXCEPT ![p] = [Resting EXCEPT !.pc = "read", !.job = i]]
      BY <2>2 DEF TakeJob, Unprocessed, Held
    <3>2. poll'[p].pc = "read" /\ poll'[p].job = i
      BY <3>1 DEF TypeOK, Resting
    <3>3. UNCHANGED outbox
      BY <2>2 DEF TakeJob, queue
    <3> QED
      BY <3>1, <3>2, <3>3 DEF RowsInUse, Waits
  <2>3. CASE Rollback(p)
    <3>1. poll'[p].pc = "idle"
      BY <1>4, <2>3 DEF Rollback, TypeOK
    <3>2. \A i \in JobIds : \/ outbox'[i] = outbox[i]
                            \/ outbox'[i] = [outbox[i] EXCEPT !.owner = NoOne, !.mark = "none"]
      BY <2>3 DEF Rollback
    <3>3. \A i \in JobIds : LET r == [outbox[i] EXCEPT !.owner = NoOne, !.mark = "none"] IN
            /\ r.kind = outbox[i].kind /\ r.asg = outbox[i].asg
            /\ r.status = outbox[i].status /\ r.mark = "none" /\ r.owner = NoOne
      BY <1>3 DEF Row
    <3> QED
      BY <3>1, <3>2, <3>3 DEF RowsInUse, Waits
  <2>4. CASE At(p, "ack") /\ MarkRow(p, "published")
    <3>1. poll'[p].pc = "take"
      BY <2>4 DEF MarkRow, Goto, TypeOK, Poll
    <3>2. \A i \in JobIds : i # poll[p].job => outbox'[i] = outbox[i]
      BY <2>4 DEF MarkRow, TypeOK
    <3>3. \A i \in JobIds : i = poll[p].job => outbox'[i] = [outbox[i] EXCEPT !.mark = "published"]
      BY <2>4 DEF MarkRow, TypeOK
    <3>4. \A i \in JobIds : LET r == [outbox[i] EXCEPT !.mark = "published"] IN
            /\ r.kind = outbox[i].kind /\ r.asg = outbox[i].asg
            /\ r.status = outbox[i].status /\ r.owner = outbox[i].owner
      BY <1>3 DEF Row
    <3> QED
      BY <2>4, <3>1, <3>2, <3>3, <3>4 DEF RowsInUse, Waits
  <2>5. CASE Commit(p)
    <3>1. poll'[p].pc = "idle"
      BY <1>4, <2>5 DEF Commit, TypeOK
    <3>2. \A i \in JobIds :
            \/ outbox'[i] = outbox[i]
            \/ /\ outbox[i].mark # "none"
               /\ outbox'[i] = [outbox[i] EXCEPT !.status = outbox[i].mark, !.owner = NoOne, !.mark = "none"]
      BY <2>5 DEF Commit, Unprocessed, Held
    <3>3. \A i \in JobIds :
            LET r == [outbox[i] EXCEPT !.status = outbox[i].mark, !.owner = NoOne, !.mark = "none"] IN
            r.kind = outbox[i].kind /\ r.asg = outbox[i].asg /\ r.owner = NoOne
      BY <1>3 DEF Row
    <3> QED
      BY <3>1, <3>2, <3>3 DEF RowsInUse, Waits
  <2>6. ~MarkJobFailed(p)
    BY DEF MarkJobFailed, RowsInUse
  <2> QED
    BY <2>1, <2>2, <2>3, <2>4, <2>5, <2>6 DEF PollStep, CrashPoll, Acknowledge
<1>6. \A q \in Pollers : poll'[q].pc \in {"idle", "take", "read"}
  BY <1>1, <1>2, <1>5
<1>7. RowsInUse'
  BY <1>1, <1>2, <1>5, <1>6 DEF RowsInUse, Job, At, JobPcs
<1>8. \A a \in Assignments : Due(a) => Due(a)'
  <2>1. ASSUME NEW i \in JobIds, NEW a, Waits(i, a) PROVE Waits(i, a)'
    BY <1>5, <1>6, <2>1 DEF Waits, At
  <2> QED
    BY <1>1, <2>1 DEF Due, RevokeRequestUnderWay
<1>9. GrantWatched' /\ RevokeDone'
  BY <1>6 DEF GrantWatched, RevokeDone, Acting, JobPcs
<1>10. Remembered' /\ UpsertWanted'
  BY <1>1, <1>8 DEF Remembered, UpsertWanted, Unwanted, MgrAt
<1>11. Rowless'
  BY <1>1, <1>5 DEF Rowless, MgrAt
<1> QED
  BY <1>1, <1>7, <1>9, <1>10, <1>11

\* What the steps of a job have in common, when polls take turns.
LEMMA JobMoves ==
  ASSUME Ready, Memory, "database" \notin Faults, NEW p \in Pollers,
         JobStep(p) \/ ChangeUnanswered(p) \/ GithubFault(p) \/ DatabaseFault(p)
  PROVE  /\ poll[p].pc \in JobPcs \ {"ack", "nack"} /\ poll'[p].pc \in JobPcs \ {"read", "nack"}
         /\ poll'[p].job = poll[p].job /\ Job(p)' = Job(p)
         /\ \A q \in Pollers \ {p} : poll[q].pc = "idle" /\ poll'[q].pc = "idle"
         /\ UNCHANGED <<mgr, cron>> /\ Appends
         /\ \A a \in Assignments : asg'[a].desired = asg[a].desired
<1> USE DEF Ready
<1>0. /\ poll[p].pc \in JobPcs /\ poll'[p].job = poll[p].job
      /\ UNCHANGED <<mgr, cron>> /\ Appends
      /\ \A q \in Pollers \ {p} : poll'[q] = poll[q]
  BY JobFrame DEF Appends
<1>1. \A q \in Pollers \ {p} : poll[q].pc = "idle"
  BY <1>0 DEF JobInFlight, At, JobPcs
<1>2. Job(p)' = Job(p)
  <2>1. outbox'[poll[p].job] = outbox[poll[p].job]
    BY <1>0, JobFrame, PublishKeeps, JobInserted
  <2> QED
    BY <1>0, <2>1 DEF Job
<1>3. Target(p) \in Assignments /\ poll[p] \in Poll /\ asg \in [Assignments -> Assignment]
  BY JobType DEF TypeOK
<1>4. \A pc : Goto(p, pc) => poll'[p].pc = pc
  BY <1>3 DEF Goto, TypeOK, Poll
<1>5. ~DatabaseFault(p)
  BY DEF DatabaseFault, Suffer
<1>6. poll[p].pc \notin {"ack", "nack"} /\ poll'[p].pc \in JobPcs \ {"read", "nack"}
  <2>1. CASE ReadAssignment(p)
    BY <1>3, <1>4, <2>1 DEF ReadAssignment, At, TypeOK, Poll, JobPcs
  <2>2. CASE MarkSyncing(p) \/ EnsureTeam(p) \/ ChangeMembership(p)
    BY <1>4, <2>2 DEF MarkSyncing, EnsureTeam, ChangeMembership, AddMember, RemoveMember, At, JobPcs
  <2>3. CASE VerifyPermission(p)
    BY <1>3, <1>4, <2>3 DEF VerifyPermission, At, TypeOK, Poll, JobPcs
  <2>4. CASE MarkVerifiedAssignment(p) \/ MarkVerifiedSync(p) \/ FailAssignment(p) \/ FailSync(p)
             \/ Requeue(p)
    BY <1>4, <2>4
    DEF MarkVerifiedAssignment, MarkVerifiedSync, FailAssignment, FailSync, Requeue, At, JobPcs
  <2>5. CASE ChangeUnanswered(p) \/ GithubFault(p)
    BY <1>4, <2>5 DEF ChangeUnanswered, GithubFault, AddMember, RemoveMember, At, JobPcs
  <2> QED
    BY <1>5, <2>1, <2>2, <2>3, <2>4, <2>5 DEF JobStep
<1>7. \A a \in Assignments : asg'[a].desired = asg[a].desired
  <2>1. CASE MarkVerifiedAssignment(p) \/ FailAssignment(p)
    <3>1. \/ UNCHANGED asg
          \/ \E claim : asg' = [asg EXCEPT ![Target(p)].effective = claim, ![Target(p)].status = claim]
      BY <2>1 DEF MarkVerifiedAssignment, FailAssignment
    <3>2. ASSUME NEW claim, NEW a \in Assignments,
                 asg' = [asg EXCEPT ![Target(p)].effective = claim, ![Target(p)].status = claim]
          PROVE  asg'[a].desired = asg[a].desired
      <4>1. asg[a] \in Assignment
        BY <1>3
      <4>2. CASE a = Target(p)
        <5>1. asg'[a] = [asg[a] EXCEPT !.effective = claim, !.status = claim]
          BY <1>3, <3>2, <4>2
        <5> QED
          BY <4>1, <5>1 DEF Assignment
      <4>3. CASE a # Target(p)
        BY <1>3, <3>2, <4>3
      <4> QED
        BY <4>2, <4>3
    <3> QED
      BY <3>1, <3>2
  <2>2. CASE UNCHANGED asg
    BY <2>2
  <2> QED
    BY <1>5, <2>1, <2>2
    DEF JobStep, ReadAssignment, MarkSyncing, EnsureTeam, ChangeMembership, VerifyPermission,
        MarkVerifiedSync, FailSync, Requeue, ChangeUnanswered, GithubFault, tables
<1> QED
  BY <1>0, <1>1, <1>2, <1>6, <1>7

\* What a job's step does to the team and to the sync row of its assignment.
LEMMA JobEffects ==
  ASSUME Ready, Memory, "database" \notin Faults, NEW p \in Pollers,
         JobStep(p) \/ ChangeUnanswered(p) \/ GithubFault(p) \/ DatabaseFault(p)
  PROVE  /\ \A a \in Assignments \ {Target(p)} : team'[a] = team[a] /\ sync'[a] = sync[a]
         /\ sync'[Target(p)].state = "none" => sync[Target(p)].state = "none"
         /\ team'[Target(p)] # team[Target(p)] => Granting(p) \/ team'[Target(p)] = "out"
         /\ poll[p].pc = "read" => UNCHANGED <<team, sync>>
         /\ poll'[p].pc \in {"verify", "mark", "marksync"} /\ ~Granting(p) =>
              \/ team'[Target(p)] = "out"
              \/ poll[p].pc \in {"verify", "mark", "marksync"} /\ UNCHANGED team
<1> USE DEF Ready
<1>1. Target(p) \in Assignments /\ poll[p] \in Poll /\ sync[Target(p)] \in SyncRow
  BY JobType DEF TypeOK
<1>2. \A pc : Goto(p, pc) => poll'[p].pc = pc
  BY <1>1 DEF Goto, TypeOK, Poll
<1>3. ~DatabaseFault(p)
  BY DEF DatabaseFault, Suffer
<1>4. CASE ReadAssignment(p)
  <2>1. UNCHANGED <<team, sync>> /\ poll'[p].pc \in {"ack", "fail", "syncing"}
    BY <1>1, <1>2, <1>4 DEF ReadAssignment, TypeOK, Poll, tables, github
  <2> QED
    BY <2>1
<1>5. CASE MarkSyncing(p)
  <2>1. sync' = [sync EXCEPT ![Target(p)].state = IF @ = "none" THEN "none" ELSE "syncing"]
    BY <1>5 DEF MarkSyncing, SetSync
  <2>2. /\ \A a \in Assignments \ {Target(p)} : sync'[a] = sync[a]
        /\ sync'[Target(p)].state = "none" => sync[Target(p)].state = "none"
    BY <1>1, <2>1 DEF TypeOK, SyncRow
  <2>3. UNCHANGED team /\ poll'[p].pc \in {"change", "team"} /\ poll[p].pc = "syncing"
    BY <1>2, <1>5 DEF MarkSyncing, github, At
  <2> QED
    BY <2>2, <2>3
<1>6. CASE EnsureTeam(p) \/ GithubFault(p) \/ Requeue(p)
  BY <1>2, <1>6 DEF EnsureTeam, GithubFault, Requeue, tables, github, At
<1>7. CASE ChangeMembership(p) \/ ChangeUnanswered(p)
  <2>1. \/ AddMember(p) \/ RemoveMember(p)
        \/ ~Granting(p) /\ team' = [team EXCEPT ![Target(p)] = "out"]
    BY <1>7 DEF ChangeMembership, ChangeUnanswered
  <2>2. /\ \A a \in Assignments \ {Target(p)} : team'[a] = team[a]
        /\ Granting(p) \/ team'[Target(p)] = "out"
    BY <1>1, <2>1 DEF AddMember, RemoveMember, TypeOK
  <2>3. UNCHANGED sync /\ poll[p].pc = "change"
    BY <1>7 DEF ChangeMembership, ChangeUnanswered, AddMember, RemoveMember, tables, At
  <2> QED
    BY <2>2, <2>3
<1>8. CASE VerifyPermission(p)
  BY <1>8 DEF VerifyPermission, tables, github, At
<1>9. CASE MarkVerifiedAssignment(p) \/ FailAssignment(p)
  BY <1>2, <1>9 DEF MarkVerifiedAssignment, FailAssignment, github, At
<1>10. CASE MarkVerifiedSync(p)
  <2>1. /\ \A a \in Assignments \ {Target(p)} : sync'[a] = sync[a]
        /\ sync'[Target(p)].state = "none" => sync[Target(p)].state = "none"
    BY <1>1, <1>10 DEF MarkVerifiedSync, TypeOK, SyncRow
  <2> QED
    BY <1>2, <1>10, <2>1 DEF MarkVerifiedSync, github, At
<1>11. CASE FailSync(p)
  <2>1. /\ \A a \in Assignments \ {Target(p)} : sync'[a] = sync[a]
        /\ sync'[Target(p)].state = "none" => sync[Target(p)].state = "none"
    BY <1>1, <1>11 DEF FailSync, TypeOK, SyncRow
  <2> QED
    BY <1>2, <1>11, <2>1 DEF FailSync, github, At
<1> QED
  BY <1>3, <1>4, <1>5, <1>6, <1>7, <1>8, <1>9, <1>10, <1>11 DEF JobStep

\* A grant goes on only if the assignment was wanted when it was read.
LEMMA GrantGoesOn ==
  ASSUME Ready, "database" \notin Faults, NEW p \in Pollers,
         JobStep(p) \/ ChangeUnanswered(p) \/ GithubFault(p) \/ DatabaseFault(p),
         poll'[p].pc \in Acting, Granting(p), Unwanted(Target(p))
  PROVE  poll[p].pc # "read"
<1> SUFFICES ASSUME At(p, "read") PROVE FALSE
  BY DEF At
<1>1. poll[p] \in Poll
  BY DEF Ready, TypeOK
<1>2. ReadAssignment(p)
  BY DEF JobStep, MarkSyncing, EnsureTeam, ChangeMembership, VerifyPermission, MarkVerifiedAssignment,
         MarkVerifiedSync, FailAssignment, FailSync, Requeue, ChangeUnanswered, AddMember, RemoveMember,
         GithubFault, DatabaseFault, Suffer, At
<1>3. Goto(p, "ack")
  BY <1>2 DEF ReadAssignment, Wanted, Unwanted
<1> QED
  BY <1>1, <1>3 DEF Goto, Ready, TypeOK, Poll, Acting

\* A revoke's job ends with the developer off the team, or with the row failed, or
\* with another row that waits; or it was superseded.
LEMMA RevokeEnds ==
  ASSUME Ready, Memory, "database" \notin Faults, NEW p \in Pollers,
         JobStep(p) \/ ChangeUnanswered(p) \/ GithubFault(p) \/ DatabaseFault(p),
         NEW t \in Assignments, t = Target(p),
         poll'[p].pc = "ack", ~Granting(p), Unwanted(t), team'[t] # "out"
  PROVE  Due(t)' \/ sync'[t].state = "failed"
<1> USE DEF Ready, Memory
<1>1. Target(p) \in Assignments /\ poll[p] \in Poll /\ sync[Target(p)] \in SyncRow
  BY JobType DEF TypeOK
<1>2. \A pc : Goto(p, pc) => poll'[p].pc = pc
  BY <1>1 DEF Goto, TypeOK, Poll
<1>3. ~ReadAssignment(p)
  BY <1>1 DEF ReadAssignment, TypeOK, Poll, Wanted, Unwanted
<1>4. ~MarkVerifiedSync(p)
  BY DEF MarkVerifiedSync, RevokeDone, At, github
<1>5. CASE FailSync(p)
  <2>1. sync[Target(p)].state # "none"
    BY <1>1, <1>5 DEF FailSync, Rowless, github
  <2>2. sync'[Target(p)] = [sync[Target(p)] EXCEPT !.state = "failed", !.retry = @ + 1]
    BY <1>1, <1>5, <2>1 DEF FailSync, TypeOK
  <2> QED
    BY <1>1, <2>2 DEF SyncRow
<1>6. CASE Requeue(p)
  <2>1. PublishLater("revoke", Target(p))
    BY <1>6, JobType DEF Requeue, Granting, Kinds
  <2>2. PICK k \in JobIds :
          /\ k = rows + 1
          /\ outbox'[k] = [kind |-> "revoke", asg |-> Target(p), status |-> "pending",
                           owner |-> NoOne, mark |-> "none"]
    BY <2>1, NewRow
  <2>3. \A q \in Pollers : poll'[q].pc = "ack" => poll'[q].job # k
    <3>1. poll[p].job \in JobIds /\ poll[p].job <= rows
      BY JobMoves, JobInserted
    <3>2. poll[p].job # k
      BY <2>2, <3>1 DEF JobIds, TypeOK
    <3> QED
      BY <3>2, JobMoves
  <2> QED
    BY <2>2, <2>3 DEF Due, Waits, At
<1>7. ~(\/ MarkSyncing(p) \/ EnsureTeam(p) \/ ChangeMembership(p) \/ VerifyPermission(p)
        \/ MarkVerifiedAssignment(p) \/ FailAssignment(p))
  BY <1>1, <1>2
  DEF MarkSyncing, EnsureTeam, ChangeMembership, VerifyPermission, MarkVerifiedAssignment,
      FailAssignment, TypeOK, Poll
<1>8. ~(ChangeUnanswered(p) \/ GithubFault(p) \/ DatabaseFault(p))
  BY <1>2 DEF ChangeUnanswered, GithubFault, DatabaseFault, Suffer
<1> QED
  BY <1>3, <1>4, <1>5, <1>6, <1>7, <1>8 DEF JobStep

LEMMA JobRemembers ==
  ASSUME Ready, Memory, "database" \notin Faults, NEW p \in Pollers,
         JobStep(p) \/ ChangeUnanswered(p) \/ GithubFault(p) \/ DatabaseFault(p)
  PROVE  Memory'
<1> USE DEF Ready, Memory
<1>1. /\ poll[p].pc \in JobPcs \ {"ack", "nack"} /\ poll'[p].pc \in JobPcs \ {"read", "nack"}
      /\ poll'[p].job = poll[p].job /\ Job(p)' = Job(p)
      /\ \A q \in Pollers \ {p} : poll[q].pc = "idle" /\ poll'[q].pc = "idle"
      /\ UNCHANGED <<mgr, cron>> /\ Appends
      /\ \A a \in Assignments : asg'[a].desired = asg[a].desired
  BY JobMoves
<1>2. Target(p)' = Target(p) /\ Granting(p)' = Granting(p)
  BY <1>1 DEF Target, Granting
<1>3. PICK t \in Assignments : t = Target(p)
  BY JobType
<1>4. "idle" \notin JobPcs
  BY DEF JobPcs
<1>5. RowsInUse'
  BY <1>1, <1>4, AppendKeepsUse DEF RowsInUse
\* The job's own row is among those that wait, until the job is at its end.
<1>6. ~Granting(p) => Waits(poll[p].job, t)
  <2>1. Job(p).kind \in Kinds /\ Job(p).owner = p /\ p # NoOne /\ poll[p].job \in JobIds
    BY <1>1, JobType, AccessAssumption DEF HeldRows
  <2>2. Job(p).status = "pending" /\ Job(p).mark = "none"
    BY <1>1, <2>1 DEF RowsInUse, Job
  <2> QED
    BY <1>1, <1>3, <2>1, <2>2 DEF Waits, Granting, Target, Job, Kinds, At
<1>7. \A a \in Assignments : Due(a) => Due(a)' \/ (poll'[p].pc = "ack" /\ ~Granting(p) /\ a = t)
  <2> SUFFICES ASSUME NEW a \in Assignments, Due(a),
                      ~(poll'[p].pc = "ack" /\ ~Granting(p) /\ a = t)
               PROVE  Due(a)'
    OBVIOUS
  <2>1. CASE RevokeRequestUnderWay(a)
    BY <1>1, <2>1 DEF Due, RevokeRequestUnderWay
  <2>2. ASSUME NEW i \in JobIds, Waits(i, a) PROVE Due(a)'
    <3>1. poll'[p].pc = "ack" => poll'[p].job # i
      BY <1>1, <1>3, <2>2 DEF Waits, Granting, Target, Job
    <3>2. Waits(i, a)'
      BY <1>1, <2>2, <3>1, AppendKeepsWaiting
    <3> QED
      BY <3>2 DEF Due
  <2> QED
    BY <2>1, <2>2 DEF Due
<1>8. /\ \A a \in Assignments \ {t} : team'[a] = team[a] /\ sync'[a] = sync[a]
      /\ sync'[t].state = "none" => sync[t].state = "none"
      /\ team'[t] # team[t] => Granting(p) \/ team'[t] = "out"
      /\ poll[p].pc = "read" => UNCHANGED <<team, sync>>
      /\ poll'[p].pc \in {"verify", "mark", "marksync"} /\ ~Granting(p) =>
           \/ team'[t] = "out"
           \/ poll[p].pc \in {"verify", "mark", "marksync"} /\ UNCHANGED team
  BY <1>3, JobEffects
<1>9. GrantWatched'
  <2>1. ASSUME poll'[p].pc \in Acting, Granting(p), Unwanted(t) PROVE Due(t)'
    <3>1. poll[p].pc # "read"
      BY <1>3, <2>1, GrantGoesOn
    <3>2. Due(t)
      BY <1>1, <1>3, <2>1, <3>1 DEF GrantWatched, Acting
    <3> QED
      BY <1>7, <2>1, <3>2
  <2>2. \A q \in Pollers : poll'[q].pc \in Acting => q = p
    BY <1>1, <1>4 DEF Acting
  <2>3. Unwanted(t)' <=> Unwanted(t)
    BY <1>1 DEF Unwanted
  <2>4. ASSUME poll'[p].pc \in Acting, Granting(p)', NEW a, a = Target(p)', Unwanted(a)' PROVE Due(a)'
    BY <1>2, <1>3, <2>1, <2>3, <2>4
  <2> QED
    BY <2>2, <2>4 DEF GrantWatched, Unwanted, Due, Waits, RevokeRequestUnderWay, At
<1>10. RevokeDone'
  <2>1. \A q \in Pollers : poll'[q].pc \in {"verify", "mark", "marksync"} => q = p
    BY <1>1
  <2>2. poll'[p].pc \in {"verify", "mark", "marksync"} /\ ~Granting(p) => team'[t] = "out"
    BY <1>3, <1>8 DEF RevokeDone
  <2> QED
    BY <1>2, <1>3, <2>1, <2>2 DEF RevokeDone
<1>11. Remembered'
  <2> SUFFICES ASSUME NEW a \in Assignments, Unwanted(a), team'[a] # "out"
               PROVE  Due(a)' \/ sync'[a].state = "failed"
    BY <1>1 DEF Remembered, Unwanted
  <2>1. CASE a # t
    BY <1>7, <1>8, <2>1 DEF Remembered
  <2>2. CASE a = t /\ Granting(p)
    <3>1. CASE poll[p].pc = "read"
      BY <1>7, <1>8, <2>2, <3>1 DEF Remembered
    <3>2. CASE poll[p].pc # "read"
      BY <1>1, <1>3, <1>7, <2>2, <3>2 DEF GrantWatched, Acting
    <3> QED
      BY <3>1, <3>2
  <2>3. CASE a = t /\ ~Granting(p) /\ poll'[p].pc # "ack"
    <3>1. Due(t)
      BY <1>6, <2>3, JobType DEF Due
    <3> QED
      BY <1>7, <2>3, <3>1
  <2>4. CASE a = t /\ ~Granting(p) /\ poll'[p].pc = "ack"
    BY <1>3, <2>4, RevokeEnds
  <2> QED
    BY <2>1, <2>2, <2>3, <2>4
<1>12. Rowless'
  <2> SUFFICES ASSUME NEW a \in Assignments, sync'[a].state = "none"
               PROVE  /\ team'[a] = "out"
                      /\ \A i \in JobIds : i <= rows' /\ outbox'[i].asg = a => outbox'[i].kind = "revoke"
    <3>1. \A a \in Assignments : sync'[a].state = "none" => sync[a].state = "none"
      BY <1>8
    <3> QED
      BY <1>1, <3>1 DEF Rowless, MgrAt
  <2>1. /\ sync[a].state = "none" /\ team[a] = "out"
        /\ \A i \in JobIds : i <= rows /\ outbox[i].asg = a => outbox[i].kind = "revoke"
    BY <1>8 DEF Rowless
  <2>2. a = t => ~Granting(p)
    BY <1>1, <1>3, <2>1, JobInserted DEF Granting, Target, Job
  <2>3. team'[a] = "out"
    BY <1>8, <2>1, <2>2
  <2>4. CASE UNCHANGED <<outbox, rows>>
    BY <2>1, <2>3, <2>4
  <2>5. CASE PublishLater(Job(p).kind, Target(p))
    <3> SUFFICES ASSUME NEW i \in JobIds, i <= rows', outbox'[i].asg = a PROVE outbox'[i].kind = "revoke"
      BY <2>3
    <3>1. CASE i = rows + 1
      <4>1. outbox'[i] = [kind |-> Job(p).kind, asg |-> Target(p), status |-> "pending",
                          owner |-> NoOne, mark |-> "none"]
        BY <2>5, <3>1, NewRow
      <4> QED
        BY <1>3, <2>2, <4>1, JobType DEF Granting, Kinds
    <3>2. CASE i # rows + 1
      <4>1. outbox'[i] = outbox[i] /\ i <= rows
        BY <2>5, <3>2, NewRow
      <4> QED
        BY <2>1, <4>1
    <3> QED
      BY <3>1, <3>2
  <2> QED
    BY <2>4, <2>5, JobFrame
<1>13. UpsertWanted'
  <2>1. \A m \in Managers : mgr[m].asg \in Assignments
    BY DEF TypeOK, Request
  <2> QED
    BY <1>1, <2>1 DEF UpsertWanted, MgrAt
<1> QED
  BY <1>1, <1>5, <1>9, <1>10, <1>11, <1>12, <1>13

\* The world outside changes other routes, and answers standing invitations.
LEMMA OutsideRemembers ==
  ASSUME Ready, Memory,
         \/ \E a \in Assignments, route \in Routes : OutsideChange(a, route)
         \/ \E a \in Assignments : AnswerInvitation(a)
         \/ UNCHANGED vars
  PROVE  Memory'
<1> USE DEF Ready, Memory
<1>1. UNCHANGED <<asg, sync, outbox, rows, mgr, poll, cron>>
  BY DEF OutsideChange, AnswerInvitation, vars, tables, queue
<1>2. \A a \in Assignments : team[a] = "out" => team'[a] = "out"
  BY DEF OutsideChange, AnswerInvitation, vars, tables, queue, TypeOK
<1>3. RowsInUse'
  BY <1>1 DEF RowsInUse, Job, At
<1>4. \A a \in Assignments : (Due(a)' <=> Due(a)) /\ (Unwanted(a)' <=> Unwanted(a))
  BY <1>1 DEF Due, RevokeRequestUnderWay, Waits, At, Unwanted
<1>5. \A p \in Pollers : Target(p)' = Target(p) /\ (Granting(p)' <=> Granting(p)) /\ Target(p) \in Assignments
  BY <1>1, JobType DEF Target, Granting, Job
<1>6. GrantWatched'
  BY <1>1, <1>5 DEF GrantWatched, Due, RevokeRequestUnderWay, Waits, At, Unwanted
<1>7. RevokeDone'
  BY <1>1, <1>2, <1>5 DEF RevokeDone
<1>8. Remembered'
  BY <1>1, <1>2, <1>4 DEF Remembered
<1>9. Rowless' /\ UpsertWanted'
  BY <1>1, <1>2 DEF Rowless, UpsertWanted, MgrAt
<1> QED
  BY <1>1, <1>3, <1>6, <1>7, <1>8, <1>9

LEMMA MemoryStep ==
  ASSUME ~OverlappingPolls, ~CronRuns, "database" \notin Faults,
         Ready, Memory, RequestsTakeTurns', [Next]_vars
  PROVE  Memory'
<1>1. ~CronStep
  BY DEF CronStep, CronSelect, CronStops, CronForward, Memory
<1> QED
  BY <1>1, ManagerRemembers, PollRemembers, JobRemembers, OutsideRemembers DEF Next, FaultStep

\* When polls take turns, the cron that forwards jobs unread does not run, and no write
\* of the request is lost, access that nobody wants is never forgotten as long as
\* requests about the same assignment follow each other: whatever GitHub refuses, and
\* wherever a poll dies (failRevoke: "remain visible to administrators").
THEOREM NobodyForgotten ==
  ~OverlappingPolls /\ ~CronRuns /\ "database" \notin Faults =>
    (Spec /\ []RequestsTakeTurns => []NoForgottenAccess)
<1> SUFFICES ASSUME ~OverlappingPolls, ~CronRuns, "database" \notin Faults
             PROVE  Spec /\ []RequestsTakeTurns => []NoForgottenAccess
  OBVIOUS
<1>1. Init => Ready /\ Memory
  BY ReadyInit, MemoryStarts
<1>2. Ready /\ Memory /\ RequestsTakeTurns' /\ [Next]_vars => (Ready /\ Memory)'
  BY ReadyStep, MemoryStep
<1>3. Memory => NoForgottenAccess
  <2>1. \A a \in Assignments : Due(a) => RevokeRequestUnderWay(a) \/ RevokeJobPending(a)
    BY DEF Due, Waits, RevokeJobPending
  <2> QED
    BY <2>1 DEF Memory, Remembered, NoForgottenAccess, Unwanted
<1> QED
  BY <1>1, <1>2, <1>3, PTL DEF Spec


-----------------------------------------------------------------------------
(* Hierarchy: the tree below one group.                                    *)

\* What a request has left to do, named by where it is.
AtRow == <<"row">>
AtProject == <<"project", "row">>
AtRepo == <<"repo", "project", "row">>
AskRepo == <<"right", "repo", "project", "row">>
AtDelivery == <<"deliveryProject", "right", "repo", "project", "row">>
AskDelivery == <<"right", "deliveryProject", "right", "repo", "project", "row">>
AtSystem == <<"system", "right", "deliveryProject", "right", "repo", "project", "row">>
AskSystem == <<"right", "system", "right", "deliveryProject", "right", "repo", "project", "row">>
AtBranch == <<"deliveryProject">>
AskBranch == <<"right", "deliveryProject">>
AtLink == <<"link">>
AtFind == <<"find", "link">>
AtForm == <<"form", "find", "link">>
AtRecord == <<"record">>
AtSend == <<"send", "record">>
AskSend == <<"right", "send", "record">>
AtArchive == <<"archive">>
AskArchive == <<"right", "archive">>
AtRename == <<"rename">>
AskRename == <<"right", "rename">>
AtStatus == <<"status">>
AskStatus == <<"right", "status">>
AtDrop == <<"drop">>
AskDrop == <<"right", "drop">>
Todos(ask) ==
  CASE ask = "system" -> {AskSystem, AtSystem, AskDelivery, AtDelivery, AskRepo, AtRepo, AtProject, AtRow, <<>>}
    [] ask = "repository" -> {AskRepo, AtRepo, AtProject, AtRow, <<>>}
    [] ask = "deliveryProject" -> {AskBranch, AtBranch, <<>>}
    [] ask = "form" -> {AtForm, AtFind, AtLink, <<>>}
    [] ask \in {"write", "delete"} -> {AskSend, AtSend, AtRecord, <<>>}
    [] ask = "archive" -> {AskArchive, AtArchive, <<>>}
    [] ask = "rename" -> {AskRename, AtRename, <<>>}
    [] ask \in {"close", "reopen"} -> {AskStatus, AtStatus, <<>>}
    [] ask = "group" -> {AskDrop, AtDrop, <<>>}
    [] OTHER -> {<<>>}
BelowDelivery == {AskRepo, AtRepo, AtProject, AtRow}
BelowSystem == {AskDelivery, AtDelivery}
Owning == {AtProject, AtRow, AtFind, AtLink}

Level(n, of) == n \in Nodes /\ node[n].level \in of \cup {"gone"}

\* Where a request is in the tree.
Placed(v) ==
  /\ v.todo \in {AskSystem, AtSystem} => v.at = 0
  /\ v.todo \in BelowSystem \cup {AskBranch, AtBranch} => Level(v.at, {"system"})
  /\ v.todo \in BelowDelivery => Level(v.at, {"deliveryProject"})
  /\ v.todo \in {AskRename, AtRename} => Level(v.at, {"system", "deliveryProject"})
  /\ v.todo \in {AskArchive, AtArchive} => Level(v.at, Levels)
  /\ v.todo \in {AskStatus, AtStatus, AskDrop, AtDrop} => v.at = 0
  /\ v.ask \in {"write", "delete"} =>
       Level(v.at, {"repository"}) /\ v.key \in Keys /\ (v.todo # <<>> => v.name = node[v.at].name)

RequestTyped(v) ==
  /\ v.todo \in Todos(v.ask) /\ v.ask \in RequestKinds \cup {"none"} /\ v.by \in Users
  /\ v.at \in Nodes \cup {0} /\ v.name \in Repos /\ v.key \in Keys \cup {Nobody}
  /\ v.failed \in BOOLEAN /\ v.clash \in BOOLEAN /\ v.seen \in 0..events
  /\ v.failed => v.todo = <<>>
  /\ v = [todo |-> v.todo, ask |-> v.ask, by |-> v.by, at |-> v.at, name |-> v.name, key |-> v.key,
          failed |-> v.failed, clash |-> v.clash, seen |-> v.seen]

\* The rows are numbered as they are made, and hang below one another.
Numbered == Rows \in 0..MaxNodes /\ \A n \in Nodes : node[n].level # "none" <=> n <= Rows
Tree ==
  \A n \in Nodes :
    /\ Is(n, "repository") => Is(node[n].parent, "deliveryProject")
    /\ Is(n, "deliveryProject") => Is(node[n].parent, "system")
\* Once the group is deleted nothing is left, and nothing is gone before.
Deleted ==
  /\ \A n \in Nodes : node[n].level = "gone" => group = "deleted"
  /\ group = "deleted" => /\ \A n \in Nodes : node[n].level \in {"none", "gone"}
                          /\ \A r \in Repos : repo[r].project # "group"
OneRow == \A m, n \in Nodes :
  Is(m, "repository") /\ Is(n, "repository") /\ node[m].name = node[n].name => m = n

Shape ==
  /\ TreeTypeOK /\ Numbered /\ Tree /\ Deleted
  /\ \A s \in Sessions : RequestTyped(session[s]) /\ Placed(session[s])

\* What a request has made at GitHub and in the tree is its own while it runs.
Owns(s, v) ==
  /\ v.todo \in Owning => repo[v.name].there /\ repo[v.name].by = s
  /\ v.todo \in Owning \ {AtProject} => repo[v.name].project # "none"
  /\ \A r \in Repos : repo[r].by = s =>
       (v.todo = <<>> /\ v.ask # "none") \/ (v.todo \in Owning /\ r = v.name)
Planted(s, v) ==
  \A n \in Nodes : Is(n, "system") /\ node[n].by = s =>
    \/ v.todo = <<>> /\ v.ask # "none"
    \/ v.ask = "system" /\ v.todo \in BelowSystem /\ n = v.at
    \/ v.ask = "system" /\ v.todo \in BelowDelivery /\ n = node[v.at].parent
Projects == \A r \in Repos : repo[r].project # "none" => repo[r].there
Migrated == ~backfilled => \A n \in Nodes : node[n].level # "none" => node[n].by # "migration"

Leftovers ==
  /\ OneRow /\ Projects /\ Migrated
  /\ EmptySystemOnlyByMishap /\ UnlinkedOnlyByMishap /\ StrandedOnlyByFailure
  /\ \A s \in Sessions : Owns(s, session[s]) /\ Planted(s, session[s])

\* Variables: who is about one, and whoever has sent it and not noted it yet.
About(s, n, k) == session[s].ask \in {"write", "delete"} /\ session[s].at = n /\ session[s].key = k
Open(s, n, k) == About(s, n, k) /\ session[s].todo = AtRecord
Clear(n, k) == \A s \in Sessions : About(s, n, k) => ~session[s].failed /\ ~session[s].clash
Variables ==
  \A n \in Nodes, k \in Keys :
    /\ \A s, t \in Sessions : s # t /\ Open(s, n, k) /\ Open(t, n, k) => session[s].clash
    /\ Is(n, "repository") /\ Clear(n, k) =>
         /\ \A s \in Sessions : Open(s, n, k) => (k \in repo[node[n].name].set <=> session[s].ask = "write")
         /\ (\A s \in Sessions : ~Open(s, n, k)) => (k \in CurrentNames(n) <=> k \in repo[node[n].name].set)
Bare ==
  /\ \A r \in Repos : repo[r].set # {} => RowsOf(r) # {} \/ group = "deleted"
  /\ \A n \in Nodes, k \in Keys : node[n].level = "none" => change[n][k] = "none"
Grants ==
  /\ \A a \in access \cup assigned : node[a[2]].level \in {"repository", "gone"}
  /\ StrayOnlyByDeletedGroup

\* A request that has asked for its right, and nothing has changed since, has it.
Righted(s) ==
  session[s].todo # <<>> /\ Head(session[s].todo) # "right" /\ session[s].ask # "form"
    /\ session[s].seen = events /\ group # "deleted" => Entitled(s)
RightStands == \A s \in Sessions : Righted(s)

-----------------------------------------------------------------------------
(* What is left to do.                                                     *)

LEMMA TodoHeads ==
  /\ Head(AtRow) = "row" /\ Head(AtProject) = "project" /\ Head(AtRepo) = "repo"
  /\ Head(AskRepo) = "right" /\ Head(AtDelivery) = "deliveryProject" /\ Head(AskDelivery) = "right"
  /\ Head(AtSystem) = "system" /\ Head(AskSystem) = "right"
  /\ Head(AtBranch) = "deliveryProject" /\ Head(AskBranch) = "right"
  /\ Head(AtLink) = "link" /\ Head(AtFind) = "find" /\ Head(AtForm) = "form"
  /\ Head(AtRecord) = "record" /\ Head(AtSend) = "send" /\ Head(AskSend) = "right"
  /\ Head(AtArchive) = "archive" /\ Head(AskArchive) = "right"
  /\ Head(AtRename) = "rename" /\ Head(AskRename) = "right"
  /\ Head(AtStatus) = "status" /\ Head(AskStatus) = "right"
  /\ Head(AtDrop) = "drop" /\ Head(AskDrop) = "right"
  BY DEF AtRow, AtProject, AtRepo, AskRepo, AtDelivery, AskDelivery, AtSystem, AskSystem, AtBranch,
     AskBranch, AtLink, AtFind, AtForm, AtRecord, AtSend, AskSend, AtArchive, AskArchive, AtRename,
     AskRename, AtStatus, AskStatus, AtDrop, AskDrop

LEMMA TodoTails ==
  /\ Tail(AtRow) = <<>> /\ Tail(AtProject) = AtRow /\ Tail(AtRepo) = AtProject
  /\ Tail(AskRepo) = AtRepo /\ Tail(AtDelivery) = AskRepo /\ Tail(AskDelivery) = AtDelivery
  /\ Tail(AtSystem) = AskDelivery /\ Tail(AskSystem) = AtSystem
  /\ Tail(AtBranch) = <<>> /\ Tail(AskBranch) = AtBranch
  /\ Tail(AtLink) = <<>> /\ Tail(AtFind) = AtLink /\ Tail(AtForm) = AtFind
  /\ Tail(AtRecord) = <<>> /\ Tail(AtSend) = AtRecord /\ Tail(AskSend) = AtSend
  /\ Tail(AtArchive) = <<>> /\ Tail(AskArchive) = AtArchive
  /\ Tail(AtRename) = <<>> /\ Tail(AskRename) = AtRename
  /\ Tail(AtStatus) = <<>> /\ Tail(AskStatus) = AtStatus
  /\ Tail(AtDrop) = <<>> /\ Tail(AskDrop) = AtDrop
  BY DEF AtRow, AtProject, AtRepo, AskRepo, AtDelivery, AskDelivery, AtSystem, AskSystem, AtBranch,
     AskBranch, AtLink, AtFind, AtForm, AtRecord, AtSend, AskSend, AtArchive, AskArchive, AtRename,
     AskRename, AtStatus, AskStatus, AtDrop, AskDrop

Lasts == {AtRow, AtBranch, AtLink, AtRecord, AtArchive, AtRename, AtStatus, AtDrop}
Befores == {AtProject, AtRepo, AskRepo, AtDelivery, AskDelivery, AtSystem, AskSystem, AskBranch, AtFind,
            AtForm, AtSend, AskSend, AskArchive, AskRename, AskStatus, AskDrop}

LEMMA TodoLens ==
  /\ \A todo \in Lasts : Len(todo) = 1
  /\ \A todo \in Befores : Len(todo) # 1
  /\ <<>> \notin Lasts \cup Befores /\ Lasts \cap Befores = {}
<1>1. \A todo \in Lasts : Len(todo) = 1
  BY DEF Lasts, AtRow, AtBranch, AtLink, AtRecord, AtArchive, AtRename, AtStatus, AtDrop
<1>2. \A todo \in Befores : Len(todo) # 1
  BY DEF Befores, AtProject, AtRepo, AskRepo, AtDelivery, AskDelivery, AtSystem, AskSystem,
     AskBranch, AtFind, AtForm, AtSend, AskSend, AskArchive, AskRename, AskStatus, AskDrop
<1>3. <<>> \notin Lasts \cup Befores
  BY DEF Lasts, Befores, AtRow, AtProject, AtRepo, AskRepo, AtDelivery, AskDelivery, AtSystem, AskSystem,
     AtBranch, AskBranch, AtLink, AtFind, AtForm, AtRecord, AtSend, AskSend, AtArchive, AskArchive, AtRename,
     AskRename, AtStatus, AskStatus, AtDrop, AskDrop
<1> QED
  BY <1>1, <1>2, <1>3

\* What one asks and where one is tell what is left.
LEMMA TodoIs ==
  ASSUME NEW ask, NEW todo \in Todos(ask), todo # <<>>
  PROVE  /\ ask # "none" /\ todo \in Lasts \cup Befores
         /\ todo \in Lasts => Tail(todo) = <<>>
         /\ todo \in Befores => Tail(todo) \in Todos(ask) /\ Tail(todo) # <<>>
         /\ Head(todo) = "system" => todo = AtSystem
         /\ Head(todo) = "deliveryProject" => todo \in {AtDelivery, AtBranch}
         /\ Head(todo) = "repo" => todo = AtRepo
         /\ Head(todo) = "project" => todo = AtProject
         /\ Head(todo) = "row" => todo = AtRow
         /\ Head(todo) = "form" => todo = AtForm
         /\ Head(todo) = "find" => todo = AtFind
         /\ Head(todo) = "link" => todo = AtLink
         /\ Head(todo) = "send" => todo = AtSend
         /\ Head(todo) = "record" => todo = AtRecord
         /\ Head(todo) = "archive" => todo = AtArchive
         /\ Head(todo) = "rename" => todo = AtRename
         /\ Head(todo) = "status" => todo = AtStatus
         /\ Head(todo) = "drop" => todo = AtDrop
<1>1. \/ ask = "system" /\ todo \in {AskSystem, AtSystem, AskDelivery, AtDelivery, AskRepo, AtRepo, AtProject, AtRow}
      \/ ask = "repository" /\ todo \in {AskRepo, AtRepo, AtProject, AtRow}
      \/ ask = "deliveryProject" /\ todo \in {AskBranch, AtBranch}
      \/ ask = "form" /\ todo \in {AtForm, AtFind, AtLink}
      \/ ask \in {"write", "delete"} /\ todo \in {AskSend, AtSend, AtRecord}
      \/ ask = "archive" /\ todo \in {AskArchive, AtArchive}
      \/ ask = "rename" /\ todo \in {AskRename, AtRename}
      \/ ask \in {"close", "reopen"} /\ todo \in {AskStatus, AtStatus}
      \/ ask = "group" /\ todo \in {AskDrop, AtDrop}
  BY DEF Todos
<1>2. ask # "none" /\ todo \in Lasts \cup Befores
  BY <1>1 DEF Lasts, Befores
<1>3. todo \in Lasts => Tail(todo) = <<>>
  BY TodoTails DEF Lasts
<1>4. todo \in Befores => Tail(todo) \in Lasts \cup Befores
  BY TodoTails DEF Befores, Lasts
<1>5. todo \in Befores => Tail(todo) \in Todos(ask)
  <2>1. CASE ask = "system"
    BY <1>1, <2>1, TodoTails, TodoLens DEF Todos, Befores, Lasts
  <2>2. CASE ask = "repository"
    BY <1>1, <2>2, TodoTails, TodoLens DEF Todos, Befores, Lasts
  <2>3. CASE ask = "deliveryProject"
    BY <1>1, <2>3, TodoTails, TodoLens DEF Todos, Befores, Lasts
  <2>4. CASE ask = "form"
    BY <1>1, <2>4, TodoTails, TodoLens DEF Todos, Befores, Lasts
  <2>5. CASE ask \in {"write", "delete"}
    BY <1>1, <2>5, TodoTails, TodoLens DEF Todos, Befores, Lasts
  <2>6. CASE ask \in {"archive", "rename"}
    BY <1>1, <2>6, TodoTails, TodoLens DEF Todos, Befores, Lasts
  <2>7. CASE ask \in {"close", "reopen", "group"}
    BY <1>1, <2>7, TodoTails, TodoLens DEF Todos, Befores, Lasts
  <2> QED
    BY <1>1, <2>1, <2>2, <2>3, <2>4, <2>5, <2>6, <2>7
<1>6. /\ Head(todo) = "system" => todo = AtSystem
      /\ Head(todo) = "deliveryProject" => todo \in {AtDelivery, AtBranch}
      /\ Head(todo) = "repo" => todo = AtRepo
      /\ Head(todo) = "project" => todo = AtProject
      /\ Head(todo) = "row" => todo = AtRow
      /\ Head(todo) = "form" => todo = AtForm
      /\ Head(todo) = "find" => todo = AtFind
      /\ Head(todo) = "link" => todo = AtLink
      /\ Head(todo) = "send" => todo = AtSend
      /\ Head(todo) = "record" => todo = AtRecord
      /\ Head(todo) = "archive" => todo = AtArchive
      /\ Head(todo) = "rename" => todo = AtRename
      /\ Head(todo) = "status" => todo = AtStatus
      /\ Head(todo) = "drop" => todo = AtDrop
  BY <1>2, TodoHeads DEF Lasts, Befores
<1> QED
  BY <1>2, <1>3, <1>4, <1>5, <1>6, TodoLens

-----------------------------------------------------------------------------
(* What a step does to the requests: the one it is a step of goes on, or   *)
(* is over.                                                                *)

Requests == session' = [t \in Sessions |-> session'[t]]
Others(s) == \A t \in Sessions : t # s => session'[t] = session[t]
Ends(s, failed) ==
  /\ Requests /\ Others(s)
  /\ session'[s].todo = <<>> /\ session'[s].failed = failed
  /\ session'[s].ask = session[s].ask /\ session'[s].key = session[s].key /\ session'[s].clash = session[s].clash
  /\ session[s].ask \in {"write", "delete"} => session'[s].at = session[s].at
  /\ RequestTyped(session[s])'
Goes(s, at, seen) ==
  /\ Requests /\ Others(s)
  /\ session'[s].todo = Tail(session[s].todo) /\ session'[s].todo # <<>> /\ ~session'[s].failed
  /\ session'[s].ask = session[s].ask /\ session'[s].key = session[s].key /\ session'[s].clash = session[s].clash
  /\ session'[s].by = session[s].by /\ session'[s].name = session[s].name
  /\ session'[s].at = at /\ session'[s].seen = seen
  /\ RequestTyped(session[s])'
Time == events' = events \/ (events < MaxEvents /\ events' = events + 1)

LEMMA EndIsLeft ==
  ASSUME NEW ask
  PROVE  <<>> \in Todos(ask)
<1>1. CASE ask \in {"system", "repository", "deliveryProject", "form"}
  BY <1>1 DEF Todos
<1>2. CASE ask \in {"write", "delete", "archive", "rename"}
  BY <1>2 DEF Todos
<1>3. CASE ask \in {"close", "reopen", "group"}
  BY <1>3 DEF Todos
<1>4. CASE ask \notin {"system", "repository", "deliveryProject", "form", "write", "delete", "archive", "rename",
                       "close", "reopen", "group"}
  BY <1>4 DEF Todos
<1> QED
  BY <1>1, <1>2, <1>3, <1>4

\* A request, field by field.
LEMMA EndedIs ==
  ASSUME NEW v, NEW failed
  PROVE  Ended(v, failed) =
           [todo |-> <<>>, ask |-> v.ask, by |-> Lead, at |-> IF v.ask \in {"write", "delete"} THEN v.at ELSE 0,
            name |-> Linked, key |-> v.key, failed |-> failed, clash |-> v.clash, seen |-> 0]
<1> DEFINE ask == v.ask
           at == IF v.ask \in {"write", "delete"} THEN v.at ELSE 0
           key == v.key
           clash == v.clash
           none == <<>>
           nothing == "none"
           no == FALSE
           zero == 0
           w0 == Idle
           w1 == [w0 EXCEPT !.ask = ask]
           w2 == [w1 EXCEPT !.failed = failed]
           w3 == [w2 EXCEPT !.clash = clash]
           w4 == [w3 EXCEPT !.key = key]
           w5 == [w4 EXCEPT !.at = at]
<1>1. Ended(v, failed) = w5
  BY DEF Ended
<1>2. w0 = [todo |-> none, ask |-> nothing, by |-> Lead, at |-> zero, name |-> Linked, key |-> Nobody,
              failed |-> no, clash |-> no, seen |-> zero]
  BY DEF Idle
<1> HIDE DEF ask, at, key, clash, none, nothing, no, zero, w0
<1>3. w1 = [todo |-> none, ask |-> ask, by |-> Lead, at |-> zero, name |-> Linked, key |-> Nobody,
              failed |-> no, clash |-> no, seen |-> zero]
  BY <1>2
<1> HIDE DEF w1
<1>4. w2 = [todo |-> none, ask |-> ask, by |-> Lead, at |-> zero, name |-> Linked, key |-> Nobody,
              failed |-> failed, clash |-> no, seen |-> zero]
  BY <1>3
<1> HIDE DEF w2
<1>5. w3 = [todo |-> none, ask |-> ask, by |-> Lead, at |-> zero, name |-> Linked, key |-> Nobody,
              failed |-> failed, clash |-> clash, seen |-> zero]
  BY <1>4
<1> HIDE DEF w3
<1>6. w4 = [todo |-> none, ask |-> ask, by |-> Lead, at |-> zero, name |-> Linked, key |-> key,
              failed |-> failed, clash |-> clash, seen |-> zero]
  BY <1>5
<1> HIDE DEF w4
<1>7. w5 = [todo |-> none, ask |-> ask, by |-> Lead, at |-> at, name |-> Linked, key |-> key,
              failed |-> failed, clash |-> clash, seen |-> zero]
  BY <1>6
<1> HIDE DEF w5
<1> QED
  BY <1>1, <1>7 DEF ask, at, key, clash, none, zero

AtSeen(a, at, seen) == [[a EXCEPT !.at = at] EXCEPT !.seen = seen]

LEMMA PlacedAt ==
  ASSUME NEW a, RequestTyped(a), NEW at, NEW seen, NEW v, v = AtSeen(a, at, seen)
  PROVE  /\ v = [todo |-> a.todo, ask |-> a.ask, by |-> a.by, at |-> at, name |-> a.name, key |-> a.key,
                 failed |-> a.failed, clash |-> a.clash, seen |-> seen]
         /\ v.todo = a.todo /\ v.ask = a.ask /\ v.by = a.by /\ v.at = at /\ v.name = a.name /\ v.key = a.key
         /\ v.failed = a.failed /\ v.clash = a.clash /\ v.seen = seen
<1> DEFINE todo == a.todo
           ask == a.ask
           by == a.by
           name == a.name
           key == a.key
           failed == a.failed
           clash == a.clash
           then == a.seen
           before == a.at
           w == [a EXCEPT !.at = at]
<1>1. a = [todo |-> todo, ask |-> ask, by |-> by, at |-> before, name |-> name, key |-> key,
           failed |-> failed, clash |-> clash, seen |-> then]
  BY DEF RequestTyped
<1> HIDE DEF todo, ask, by, name, key, failed, clash, then, before
<1>2. w = [todo |-> todo, ask |-> ask, by |-> by, at |-> at, name |-> name, key |-> key,
           failed |-> failed, clash |-> clash, seen |-> then]
  BY <1>1
<1> HIDE DEF w
<1>3. [w EXCEPT !.seen = seen] =
          [todo |-> todo, ask |-> ask, by |-> by, at |-> at, name |-> name, key |-> key,
           failed |-> failed, clash |-> clash, seen |-> seen]
  BY <1>2
<1>4. v = [todo |-> todo, ask |-> ask, by |-> by, at |-> at, name |-> name, key |-> key,
           failed |-> failed, clash |-> clash, seen |-> seen]
  BY <1>3 DEF w, AtSeen
<1>5. /\ v.todo = todo /\ v.ask = ask /\ v.by = by /\ v.at = at /\ v.name = name /\ v.key = key
      /\ v.failed = failed /\ v.clash = clash /\ v.seen = seen
  BY ONLY <1>4
<1> QED
  BY <1>4, <1>5 DEF todo, ask, by, name, key, failed, clash

LEMMA LeftIs ==
  ASSUME NEW a, RequestTyped(a), NEW at, NEW seen,
         NEW v, v = [todo |-> a.todo, ask |-> a.ask, by |-> a.by, at |-> at, name |-> a.name, key |-> a.key,
                     failed |-> a.failed, clash |-> a.clash, seen |-> seen],
         NEW w, w = [v EXCEPT !.todo = Tail(@)]
  PROVE  /\ w = [todo |-> Tail(a.todo), ask |-> a.ask, by |-> a.by, at |-> at, name |-> a.name, key |-> a.key,
                 failed |-> a.failed, clash |-> a.clash, seen |-> seen]
         /\ w.todo = Tail(a.todo) /\ w.ask = a.ask /\ w.by = a.by /\ w.at = at /\ w.name = a.name /\ w.key = a.key
         /\ w.failed = a.failed /\ w.clash = a.clash /\ w.seen = seen
<1> DEFINE todo == a.todo
           remaining == Tail(todo)
           ask == a.ask
           by == a.by
           name == a.name
           key == a.key
           failed == a.failed
           clash == a.clash
<1>1. v = [todo |-> todo, ask |-> ask, by |-> by, at |-> at, name |-> name, key |-> key,
           failed |-> failed, clash |-> clash, seen |-> seen]
  OBVIOUS
<1> HIDE DEF todo, ask, by, name, key, failed, clash, remaining
<1>2. v.todo = todo
  BY <1>1
<1>3. w = [v EXCEPT !.todo = remaining]
  BY <1>2 DEF remaining
<1>4. w = [todo |-> remaining, ask |-> ask, by |-> by, at |-> at, name |-> name, key |-> key,
           failed |-> failed, clash |-> clash, seen |-> seen]
  BY ONLY <1>1, <1>3
<1>5. /\ w.todo = remaining /\ w.ask = ask /\ w.by = by /\ w.at = at /\ w.name = name /\ w.key = key
      /\ w.failed = failed /\ w.clash = clash /\ w.seen = seen
  BY <1>4
<1> QED
  BY <1>4, <1>5 DEF todo, ask, by, name, key, failed, clash, remaining

LEMMA EndedTyped ==
  ASSUME NEW v, RequestTyped(v), NEW failed \in BOOLEAN, events \in 0..MaxEvents
  PROVE  RequestTyped(Ended(v, failed))
<1>1. <<>> \in Todos(v.ask)
  BY EndIsLeft
<1>2. Lead \in Users /\ Linked \in Repos /\ MaxEvents \in Nat /\ 0 \in 0..events
  BY HierarchyAssumption
<1>3. v.ask \in RequestKinds \cup {"none"} /\ v.at \in Nodes \cup {0} /\ v.key \in Keys \cup {Nobody} /\ v.clash \in BOOLEAN
  BY DEF RequestTyped
<1> DEFINE w == Ended(v, failed)
<1>4. w = [todo |-> <<>>, ask |-> v.ask, by |-> Lead, at |-> IF v.ask \in {"write", "delete"} THEN v.at ELSE 0,
           name |-> Linked, key |-> v.key, failed |-> failed, clash |-> v.clash, seen |-> 0]
  BY EndedIs
<1> HIDE DEF w
<1>5. w.todo = <<>> /\ w.ask = v.ask /\ w.by = Lead /\ w.at = (IF v.ask \in {"write", "delete"} THEN v.at ELSE 0)
      /\ w.name = Linked /\ w.key = v.key /\ w.failed = failed /\ w.clash = v.clash /\ w.seen = 0
  BY <1>4
<1>6. w.at \in Nodes \cup {0}
  BY <1>3, <1>5
<1>7. w = [todo |-> w.todo, ask |-> w.ask, by |-> w.by, at |-> w.at, name |-> w.name, key |-> w.key,
           failed |-> w.failed, clash |-> w.clash, seen |-> w.seen]
  BY <1>4, <1>5
<1>8. RequestTyped(w)
  BY <1>1, <1>2, <1>3, <1>5, <1>6, <1>7 DEF RequestTyped
<1> QED
  BY <1>8 DEF w

\* What the time is does not matter to a request, as long as it does not go back.
LEMMA TypedLater ==
  ASSUME NEW v, RequestTyped(v), Time, events \in Nat
  PROVE  v.seen \in 0..events'
  BY DEF RequestTyped, Time

LEMMA StopIs ==
  ASSUME Shape, Time, NEW s \in Sessions, NEW failed \in BOOLEAN, Stop(s, failed)
  PROVE  Ends(s, failed)
<1>1. session \in [Sessions -> Session] /\ events \in 0..MaxEvents /\ MaxEvents \in Nat /\ RequestTyped(session[s])
  BY HierarchyAssumption DEF Shape, TreeTypeOK
<1> DEFINE w == Ended(session[s], failed)
<1>2. session' = [session EXCEPT ![s] = w]
  BY DEF Stop
<1>3. RequestTyped(w)
  BY <1>1, EndedTyped
<1>4. w.todo = <<>> /\ w.ask = session[s].ask /\ w.failed = failed /\ w.clash = session[s].clash
      /\ w.key = session[s].key
      /\ (session[s].ask \in {"write", "delete"} => w.at = session[s].at) /\ w.seen = 0
  BY EndedIs
<1> HIDE DEF w
<1>5. session'[s] = w /\ Requests /\ Others(s)
  BY <1>1, <1>2 DEF Requests, Others
<1>6. w.seen \in 0..events'
  BY <1>1, <1>4 DEF Time
<1>7. RequestTyped(session[s])'
  BY <1>3, <1>5, <1>6 DEF RequestTyped
<1> QED
  BY <1>4, <1>5, <1>7 DEF Ends

LEMMA OnwardIs ==
  ASSUME Shape, Time, NEW s \in Sessions, NEW v, Onward(s, v), session[s].todo # <<>>,
         NEW at \in Nodes \cup {0}, NEW seen \in 0..events,
         session[s].ask \in {"write", "delete"} => at = session[s].at,
         v = AtSeen(session[s], at, seen)
  PROVE  /\ session[s].todo \in Lasts => Ends(s, FALSE)
         /\ session[s].todo \notin Lasts => Goes(s, at, seen)
<1>1. session \in [Sessions -> Session] /\ events \in 0..MaxEvents /\ MaxEvents \in Nat /\ RequestTyped(session[s])
  BY HierarchyAssumption DEF Shape, TreeTypeOK
<1> DEFINE a == session[s]
<1>2. RequestTyped(a) /\ a.todo # <<>>
  BY <1>1
<1>3. a = [todo |-> a.todo, ask |-> a.ask, by |-> a.by, at |-> a.at, name |-> a.name, key |-> a.key,
           failed |-> a.failed, clash |-> a.clash, seen |-> a.seen]
  BY <1>2 DEF RequestTyped
<1>4. v = AtSeen(a, at, seen)
  OBVIOUS
<1>5. session' = [session EXCEPT ![s] = IF Len(v.todo) = 1 THEN Ended(v, FALSE) ELSE [v EXCEPT !.todo = Tail(@)]]
  BY DEF Onward
<1>6. a.ask \in {"write", "delete"} => at = a.at
  OBVIOUS
<1>7. a = session[s]
  OBVIOUS
<1> HIDE DEF a
<1>8. /\ v = [todo |-> a.todo, ask |-> a.ask, by |-> a.by, at |-> at, name |-> a.name, key |-> a.key,
              failed |-> a.failed, clash |-> a.clash, seen |-> seen]
      /\ v.todo = a.todo /\ v.ask = a.ask /\ v.by = a.by /\ v.at = at /\ v.name = a.name /\ v.key = a.key
      /\ v.failed = a.failed /\ v.clash = a.clash /\ v.seen = seen
  BY <1>2, <1>4, PlacedAt
<1>9. v.todo = a.todo /\ v.ask = a.ask /\ v.at = at /\ v.key = a.key /\ v.clash = a.clash
  BY <1>8
<1>10. RequestTyped(v)
  BY <1>2, <1>8 DEF RequestTyped
<1>11. a.todo \in Lasts \cup Befores /\ (a.todo \in Befores => Tail(a.todo) \in Todos(a.ask) /\ Tail(a.todo) # <<>>)
  BY <1>2, TodoIs DEF RequestTyped
<1>12. ~a.failed
  BY <1>2 DEF RequestTyped
<1>13. ASSUME a.todo \in Lasts PROVE Ends(s, FALSE)
  <2> DEFINE w == Ended(v, FALSE)
  <2>1. Len(v.todo) = 1
    BY <1>9, <1>13, TodoLens
  <2>2. session' = [session EXCEPT ![s] = w]
    BY <1>5, <2>1
  <2>3. RequestTyped(w)
    BY <1>1, <1>10, EndedTyped
  <2>4. w.todo = <<>> /\ w.ask = v.ask /\ w.failed = FALSE /\ w.clash = v.clash /\ w.key = v.key
        /\ (v.ask \in {"write", "delete"} => w.at = v.at) /\ w.seen = 0
    BY EndedIs
  <2> HIDE DEF w
  <2>5. session'[s] = w /\ Requests /\ Others(s)
    BY <1>1, <2>2 DEF Requests, Others
  <2>6. w.seen \in 0..events'
    BY <1>1, <2>4 DEF Time
  <2>7. RequestTyped(session[s])'
    BY <2>3, <2>5, <2>6 DEF RequestTyped
  <2> QED
    BY <2>4, <2>5, <2>7, <1>9, <1>6, <1>7 DEF Ends
<1>14. ASSUME a.todo \notin Lasts PROVE Goes(s, at, seen)
  <2> DEFINE w == [v EXCEPT !.todo = Tail(@)]
  <2>1. Len(v.todo) # 1
    BY <1>9, <1>11, <1>14, TodoLens
  <2>2. session' = [session EXCEPT ![s] = w]
    BY <1>5, <2>1
  <2>3. w = [v EXCEPT !.todo = Tail(@)]
    OBVIOUS
  <2> HIDE DEF w
  <2>4. /\ w = [todo |-> Tail(a.todo), ask |-> a.ask, by |-> a.by, at |-> at, name |-> a.name, key |-> a.key,
                failed |-> a.failed, clash |-> a.clash, seen |-> seen]
        /\ w.todo = Tail(a.todo) /\ w.ask = a.ask /\ w.by = a.by /\ w.at = at /\ w.name = a.name /\ w.key = a.key
        /\ w.failed = a.failed /\ w.clash = a.clash /\ w.seen = seen
    BY <1>2, <1>8, <2>3, LeftIs
  <2>5. session'[s] = w /\ Requests /\ Others(s)
    BY <1>1, <2>2 DEF Requests, Others
  <2>6. seen \in 0..events'
    BY <1>1 DEF Time
  <2>7. Tail(a.todo) \in Todos(a.ask) /\ Tail(a.todo) # <<>>
    BY <1>11, <1>14
  <2>8. w = [todo |-> w.todo, ask |-> w.ask, by |-> w.by, at |-> w.at, name |-> w.name, key |-> w.key,
             failed |-> w.failed, clash |-> w.clash, seen |-> w.seen]
    BY <2>4
  <2>9. RequestTyped(session[s])'
    BY <1>2, <1>12, <2>4, <2>5, <2>6, <2>7, <2>8 DEF RequestTyped
  <2> QED
    BY <2>4, <2>5, <2>7, <2>9, <1>7, <1>12 DEF Goes
<1> QED
  BY <1>7, <1>13, <1>14

LEMMA TodoTyped ==
  ASSUME NEW ask, NEW todo \in Todos(ask)
  PROVE  todo \in Seq({"right", "form", "find", "link", "repo", "project", "row", "send", "record", "archive", "rename",
                       "status", "drop"} \cup Levels)
<1> DEFINE what == {"right", "form", "find", "link", "repo", "project", "row", "send", "record", "archive", "rename",
                    "status", "drop"} \cup Levels
<1>1. {"right", "form", "find", "link", "repo", "project", "row", "send", "record", "archive", "rename", "status",
       "drop", "system", "deliveryProject"} \subseteq what
  BY DEF Levels
<1> HIDE DEF what
<1>2. {<<>>, AtRow, AtProject, AtRepo, AskRepo} \subseteq Seq(what)
  BY <1>1 DEF AtRow, AtProject, AtRepo, AskRepo
<1>3. {AtDelivery, AskDelivery} \subseteq Seq(what)
  BY <1>1 DEF AtDelivery, AskDelivery
<1>4. {AtSystem, AskSystem} \subseteq Seq(what)
  BY <1>1 DEF AtSystem, AskSystem
<1>5. {AtBranch, AskBranch, AtLink, AtFind, AtForm} \subseteq Seq(what)
  BY <1>1 DEF AtBranch, AskBranch, AtLink, AtFind, AtForm
<1>6. {AtRecord, AtSend, AskSend, AtArchive, AskArchive} \subseteq Seq(what)
  BY <1>1 DEF AtRecord, AtSend, AskSend, AtArchive, AskArchive
<1>7. {AtRename, AskRename, AtStatus, AskStatus, AtDrop, AskDrop} \subseteq Seq(what)
  BY <1>1 DEF AtRename, AskRename, AtStatus, AskStatus, AtDrop, AskDrop
<1>8. CASE todo = <<>>
  BY <1>2, <1>8 DEF what
<1>9. CASE todo # <<>>
  <2>1. todo \in Lasts \cup Befores
    BY <1>9, TodoIs
  <2> QED
    BY <2>1, <1>2, <1>3, <1>4, <1>5, <1>6, <1>7 DEF Lasts, Befores, what
<1> QED
  BY <1>8, <1>9

LEMMA RequestIsSession ==
  ASSUME NEW v, RequestTyped(v), events \in 0..MaxEvents, MaxEvents \in Nat
  PROVE  v \in Session
<1> DEFINE what == {"right", "form", "find", "link", "repo", "project", "row", "send", "record", "archive", "rename",
                    "status", "drop"} \cup Levels
<1>1. v.todo \in Seq(what)
  BY TodoTyped DEF RequestTyped
<1>2. v.seen \in 0..MaxEvents
  BY DEF RequestTyped
<1> HIDE DEF what
<1>3. v \in [todo : Seq(what), ask : RequestKinds \cup {"none"}, by : Users, at : Nodes \cup {0}, name : Repos,
             key : Keys \cup {Nobody}, failed : BOOLEAN, clash : BOOLEAN, seen : 0..MaxEvents]
  BY <1>1, <1>2 DEF RequestTyped
<1> QED
  BY <1>3 DEF Session, what

\* A request is as it was with its own place and its own time.
LEMMA PlaceKept ==
  ASSUME NEW a, RequestTyped(a)
  PROVE  /\ a = AtSeen(a, a.at, a.seen)
         /\ \A seen : [a EXCEPT !.seen = seen] = AtSeen(a, a.at, seen)
         /\ \A at : [a EXCEPT !.at = at] = AtSeen(a, at, a.seen)
<1> DEFINE todo == a.todo
           ask == a.ask
           by == a.by
           name == a.name
           key == a.key
           failed == a.failed
           clash == a.clash
           then == a.seen
           before == a.at
<1>1. a = [todo |-> todo, ask |-> ask, by |-> by, at |-> before, name |-> name, key |-> key,
           failed |-> failed, clash |-> clash, seen |-> then]
  BY DEF RequestTyped
<1> HIDE DEF todo, ask, by, name, key, failed, clash, then, before
<1>2. [a EXCEPT !.at = before] = a
  BY ONLY <1>1
<1>3. [a EXCEPT !.seen = then] = a
  BY ONLY <1>1
<1>4. ASSUME NEW at PROVE [a EXCEPT !.at = at] = AtSeen(a, at, then)
  <2> DEFINE w == [a EXCEPT !.at = at]
  <2>1. w = [todo |-> todo, ask |-> ask, by |-> by, at |-> at, name |-> name, key |-> key,
             failed |-> failed, clash |-> clash, seen |-> then]
    BY ONLY <1>1
  <2> HIDE DEF w
  <2>2. [w EXCEPT !.seen = then] = w
    BY ONLY <2>1
  <2> QED
    BY <2>2 DEF w, AtSeen
<1>5. a = AtSeen(a, before, then)
  BY <1>2, <1>3 DEF AtSeen
<1>6. ASSUME NEW seen PROVE [a EXCEPT !.seen = seen] = AtSeen(a, before, seen)
  BY <1>2 DEF AtSeen
<1> QED
  BY <1>4, <1>5, <1>6 DEF before, then

LEMMA RunningIs ==
  ASSUME Shape, NEW s \in Sessions
  PROVE  /\ RequestTyped(session[s]) /\ Placed(session[s]) /\ session[s].todo \in Todos(session[s].ask)
         /\ session[s].at \in Nodes \cup {0} /\ session[s].seen \in 0..events
         /\ session[s].name \in Repos
  BY DEF Shape, RequestTyped

LEMMA AdvanceIs ==
  ASSUME Shape, Time, NEW s \in Sessions, Advance(s), session[s].todo # <<>>
  PROVE  /\ session[s].todo \in Lasts => Ends(s, FALSE)
         /\ session[s].todo \notin Lasts => Goes(s, session[s].at, session[s].seen)
<1>1. session[s] = AtSeen(session[s], session[s].at, session[s].seen)
  BY RunningIs, PlaceKept
<1>2. Onward(s, session[s])
  BY DEF Advance
<1> QED
  BY <1>1, <1>2, RunningIs, OnwardIs

\* Rows are added behind those there are.
Grown(added, count) ==
  /\ node' \in [Nodes -> Node] /\ Rows + count <= MaxNodes
  /\ \A n \in Nodes :
       /\ n <= Rows \/ n > Rows + count => node'[n] = node[n]
       /\ n > Rows /\ n <= Rows + count => node'[n] = added[n - Rows]
  /\ Numbered' /\ (Rows)' = Rows + count

LEMMA InsertedIs ==
  ASSUME Shape, NEW added, NEW count \in Nat, DOMAIN added = 1..count,
         \A i \in 1..count : added[i] \in Node /\ added[i].level # "none",
         Rows + count <= MaxNodes, node' = Inserted(added)
  PROVE  Grown(added, count)
<1>1. node \in [Nodes -> Node] /\ Rows \in 0..MaxNodes /\ MaxNodes \in Nat /\ Nodes = 1..MaxNodes
      /\ \A n \in Nodes : node[n].level # "none" <=> n <= Rows
  BY HierarchyAssumption DEF Shape, TreeTypeOK, Numbered, Nodes
<1> DEFINE base == Rows
<1>2. node' = [n \in Nodes |-> IF n - base \in 1..count THEN added[n - base] ELSE node[n]]
  BY DEF Inserted
<1> HIDE DEF base
<1>3. base \in 0..MaxNodes /\ base + count <= MaxNodes /\ base \in Nat
  BY <1>1 DEF base
<1>4. \A n \in Nodes : node'[n] = (IF n - base \in 1..count THEN added[n - base] ELSE node[n])
  BY <1>2
<1>5. \A n \in Nodes :
        /\ n <= base \/ n > base + count => node'[n] = node[n]
        /\ n > base /\ n <= base + count => n - base \in 1..count /\ node'[n] = added[n - base]
  BY <1>1, <1>3, <1>4
<1>6. node' \in [Nodes -> Node]
  BY <1>1, <1>2
<1>7. \A n \in Nodes : node'[n].level # "none" <=> n <= base + count
  <2> TAKE n \in Nodes
  <2>0. n \in Nat
    BY <1>1
  <2>1. CASE n <= base
    <3>1. node'[n] = node[n] /\ node[n].level # "none"
      BY <2>1, <1>5, <1>1 DEF base
    <3> QED
      BY <3>1, <2>1, <2>0, <1>3
  <2>2. CASE n > base /\ n <= base + count
    BY <2>2, <1>5
  <2>3. CASE n > base + count
    <3>1. node'[n] = node[n] /\ ~(n <= base)
      BY <2>3, <2>0, <1>5, <1>3
    <3>2. node[n].level = "none"
      BY <3>1, <1>1 DEF base
    <3> QED
      BY <3>1, <3>2, <2>3, <2>0, <1>3
  <2> QED
    BY <2>0, <2>1, <2>2, <2>3, <1>3
<1>8. {n \in Nodes : node'[n].level # "none"} = 1..(base + count)
  BY <1>1, <1>3, <1>7
<1>9. Cardinality(1..(base + count)) = base + count
  BY <1>3, FS_Interval
<1>10. (Rows)' = base + count
  BY <1>8, <1>9 DEF Rows
<1>11. Numbered'
  BY <1>3, <1>7, <1>10, <1>1 DEF Numbered, Nodes
<1> QED
  BY <1>5, <1>6, <1>10, <1>11, <1>3 DEF Grown, base

\* They are told apart by how many they are and by what is last.

LEMMA TodoLasts ==
  /\ Len(AtRow) = 1 /\ Len(AtProject) = 2 /\ Len(AtRepo) = 3 /\ Len(AskRepo) = 4
  /\ Len(AtDelivery) = 5 /\ Len(AskDelivery) = 6 /\ Len(AtSystem) = 7 /\ Len(AskSystem) = 8
  /\ Last(AtRow) = "row" /\ Last(AtProject) = "row" /\ Last(AtRepo) = "row" /\ Last(AskRepo) = "row"
  /\ Last(AtDelivery) = "row" /\ Last(AskDelivery) = "row" /\ Last(AtSystem) = "row" /\ Last(AskSystem) = "row"
  /\ Len(AtBranch) = 1 /\ Len(AskBranch) = 2 /\ Last(AtBranch) = "deliveryProject" /\ Last(AskBranch) = "deliveryProject"
  /\ Len(AtLink) = 1 /\ Len(AtFind) = 2 /\ Len(AtForm) = 3 /\ Last(AtLink) = "link"
  /\ Last(AtFind) = "link" /\ Last(AtForm) = "link"
  /\ Len(AtRecord) = 1 /\ Len(AtSend) = 2 /\ Len(AskSend) = 3 /\ Last(AtRecord) = "record"
  /\ Last(AtSend) = "record" /\ Last(AskSend) = "record"
  /\ Len(AtArchive) = 1 /\ Len(AskArchive) = 2 /\ Last(AtArchive) = "archive" /\ Last(AskArchive) = "archive"
  /\ Len(AtRename) = 1 /\ Len(AskRename) = 2 /\ Last(AtRename) = "rename" /\ Last(AskRename) = "rename"
  /\ Len(AtStatus) = 1 /\ Len(AskStatus) = 2 /\ Last(AtStatus) = "status" /\ Last(AskStatus) = "status"
  /\ Len(AtDrop) = 1 /\ Len(AskDrop) = 2 /\ Last(AtDrop) = "drop" /\ Last(AskDrop) = "drop"
<1>1. /\ Len(AtRow) = 1 /\ Len(AtProject) = 2 /\ Len(AtRepo) = 3 /\ Len(AskRepo) = 4
      /\ Len(AtDelivery) = 5 /\ Len(AskDelivery) = 6 /\ Len(AtSystem) = 7 /\ Len(AskSystem) = 8
      /\ Last(AtRow) = "row" /\ Last(AtProject) = "row" /\ Last(AtRepo) = "row" /\ Last(AskRepo) = "row"
      /\ Last(AtDelivery) = "row" /\ Last(AskDelivery) = "row" /\ Last(AtSystem) = "row" /\ Last(AskSystem) = "row"
  BY DEF Last, AtRow, AtProject, AtRepo, AskRepo, AtDelivery, AskDelivery, AtSystem, AskSystem
<1>2. /\ Len(AtBranch) = 1 /\ Len(AskBranch) = 2 /\ Last(AtBranch) = "deliveryProject" /\ Last(AskBranch) = "deliveryProject"
  BY DEF Last, AtBranch, AskBranch
<1>3. /\ Len(AtLink) = 1 /\ Len(AtFind) = 2 /\ Len(AtForm) = 3 /\ Last(AtLink) = "link"
      /\ Last(AtFind) = "link" /\ Last(AtForm) = "link"
  BY DEF Last, AtLink, AtFind, AtForm
<1>4. /\ Len(AtRecord) = 1 /\ Len(AtSend) = 2 /\ Len(AskSend) = 3 /\ Last(AtRecord) = "record"
      /\ Last(AtSend) = "record" /\ Last(AskSend) = "record"
  BY DEF Last, AtRecord, AtSend, AskSend
<1>5. /\ Len(AtArchive) = 1 /\ Len(AskArchive) = 2 /\ Last(AtArchive) = "archive" /\ Last(AskArchive) = "archive"
  BY DEF Last, AtArchive, AskArchive
<1>6. /\ Len(AtRename) = 1 /\ Len(AskRename) = 2 /\ Last(AtRename) = "rename" /\ Last(AskRename) = "rename"
  BY DEF Last, AtRename, AskRename
<1>7. /\ Len(AtStatus) = 1 /\ Len(AskStatus) = 2 /\ Last(AtStatus) = "status" /\ Last(AskStatus) = "status"
  BY DEF Last, AtStatus, AskStatus
<1>8. /\ Len(AtDrop) = 1 /\ Len(AskDrop) = 2 /\ Last(AtDrop) = "drop" /\ Last(AskDrop) = "drop"
  BY DEF Last, AtDrop, AskDrop
<1> QED
  BY <1>1, <1>2, <1>3, <1>4, <1>5, <1>6, <1>7, <1>8

LEMMA NotInserting ==
  {AskSystem, AskDelivery, AskRepo, AtRepo, AtProject, AtRow, AskBranch} \cap {AtSystem, AtDelivery} = {}
<1>1. Len(AskSystem) = 8 /\ Len(AskDelivery) = 6 /\ Len(AskRepo) = 4 /\ Len(AtRepo) = 3 /\ Len(AtProject) = 2
      /\ Len(AtRow) = 1 /\ Len(AskBranch) = 2
  BY TodoLasts
<1>2. Len(AtSystem) = 7 /\ Len(AtDelivery) = 5
  BY TodoLasts
<1>3. \A todo \in {AskSystem, AskDelivery, AskRepo, AtRepo, AtProject, AtRow, AskBranch} : Len(todo) \notin {5, 7}
  BY <1>1
<1>4. \A todo \in {AtSystem, AtDelivery} : Len(todo) \in {5, 7}
  BY <1>2
<1> QED
  BY <1>3, <1>4

-----------------------------------------------------------------------------
(* What each action does.                                                  *)

\* What one is about when one is somewhere.
LEMMA TodoAsk ==
  ASSUME NEW ask, NEW todo \in Todos(ask)
  PROVE  /\ todo \in {AskSystem, AtSystem} \cup BelowSystem => ask = "system"
         /\ todo \in BelowDelivery => ask \in {"system", "repository"}
         /\ todo \in {AskBranch, AtBranch} => ask = "deliveryProject"
         /\ todo \in {AtForm, AtFind, AtLink} => ask = "form"
         /\ todo \in {AskSend, AtSend, AtRecord} => ask \in {"write", "delete"}
         /\ todo \in {AskArchive, AtArchive} => ask = "archive"
         /\ todo \in {AskRename, AtRename} => ask = "rename"
         /\ todo \in {AskStatus, AtStatus} => ask \in {"close", "reopen"}
         /\ todo \in {AskDrop, AtDrop} => ask = "group"
<1>1. \/ ask = "system" /\ todo \in {AskSystem, AtSystem, AskDelivery, AtDelivery, AskRepo, AtRepo, AtProject, AtRow, <<>>}
      \/ ask = "repository" /\ todo \in {AskRepo, AtRepo, AtProject, AtRow, <<>>}
      \/ ask = "deliveryProject" /\ todo \in {AskBranch, AtBranch, <<>>}
      \/ ask = "form" /\ todo \in {AtForm, AtFind, AtLink, <<>>}
      \/ ask \in {"write", "delete"} /\ todo \in {AskSend, AtSend, AtRecord, <<>>}
      \/ ask = "archive" /\ todo \in {AskArchive, AtArchive, <<>>}
      \/ ask = "rename" /\ todo \in {AskRename, AtRename, <<>>}
      \/ ask \in {"close", "reopen"} /\ todo \in {AskStatus, AtStatus, <<>>}
      \/ ask = "group" /\ todo \in {AskDrop, AtDrop, <<>>}
      \/ todo = <<>>
  BY DEF Todos
<1>2. todo \in {AskSystem, AtSystem} \cup BelowSystem => ask = "system"
  <2>0. AskSystem # <<>> /\ AtSystem # <<>> /\ AskDelivery # <<>> /\ AtDelivery # <<>>
    BY TodoLens DEF Befores
  <2>1. ask # "system" /\ todo # <<>> => Len(todo) \in {1, 2, 3, 4}
    BY <1>1, TodoLasts
  <2>2. Len(AskSystem) = 8 /\ Len(AtSystem) = 7 /\ Len(AskDelivery) = 6 /\ Len(AtDelivery) = 5
    BY TodoLasts
  <2>3. ASSUME todo \in {AskSystem, AtSystem, AskDelivery, AtDelivery} PROVE Len(todo) \in {5, 6, 7, 8} /\ todo # <<>>
    BY <2>0, <2>2, <2>3
  <2>4. ASSUME NEW n, n \in {1, 2, 3, 4}, n \in {5, 6, 7, 8} PROVE FALSE
    BY <2>4
  <2> QED
    BY <2>1, <2>3, <2>4 DEF BelowSystem
<1>3. todo \in BelowDelivery => ask \in {"system", "repository"}
  BY <1>1, TodoLasts, TodoLens DEF BelowSystem, BelowDelivery, Lasts, Befores
<1>4. todo \in {AskBranch, AtBranch} => ask = "deliveryProject"
  BY <1>1, TodoLasts, TodoLens DEF BelowSystem, BelowDelivery, Lasts, Befores
<1>5. todo \in {AtForm, AtFind, AtLink} => ask = "form"
  BY <1>1, TodoLasts, TodoLens DEF BelowSystem, BelowDelivery, Lasts, Befores
<1>6. todo \in {AskSend, AtSend, AtRecord} => ask \in {"write", "delete"}
  BY <1>1, TodoLasts, TodoLens DEF BelowSystem, BelowDelivery, Lasts, Befores
<1>7. todo \in {AskArchive, AtArchive} => ask = "archive"
  BY <1>1, TodoLasts, TodoLens DEF BelowSystem, BelowDelivery, Lasts, Befores
<1>8. todo \in {AskRename, AtRename} => ask = "rename"
  BY <1>1, TodoLasts, TodoLens DEF BelowSystem, BelowDelivery, Lasts, Befores
<1>9. todo \in {AskStatus, AtStatus} => ask \in {"close", "reopen"}
  BY <1>1, TodoLasts, TodoLens DEF BelowSystem, BelowDelivery, Lasts, Befores
<1>10. todo \in {AskDrop, AtDrop} => ask = "group"
  BY <1>1, TodoLasts, TodoLens DEF BelowSystem, BelowDelivery, Lasts, Befores
<1> QED
  BY <1>2, <1>3, <1>4, <1>5, <1>6, <1>7, <1>8, <1>9, <1>10

Tables == UNCHANGED <<group, standing, change, assigned, asked, access, backfilled, events>>
Made1(s, level) == Made(level, session[s].at, session[s].name, s)

LEMMA AtIs ==
  ASSUME Shape, NEW s \in Sessions, NEW step, AtStep(s, step)
  PROVE  session[s].todo # <<>> /\ Head(session[s].todo) = step /\ session[s].todo \in Todos(session[s].ask)
  BY RunningIs DEF AtStep

LEMMA FailIs ==
  ASSUME Shape, Time, NEW s \in Sessions, Fail(s)
  PROVE  Ends(s, TRUE)
<1>1. Stop(s, TRUE)
  BY DEF Fail
<1> QED
  BY <1>1, StopIs

LEMMA CheckRightIs ==
  ASSUME Shape, NEW s \in Sessions, CheckRight(s)
  PROVE  /\ UNCHANGED <<group, standing, node, repo, change, assigned, asked, access, backfilled, events>>
         /\ session[s].todo # <<>> /\ Head(session[s].todo) = "right"
         /\ Ends(s, TRUE) \/ (Entitled(s) /\ Goes(s, session[s].at, events))
<1>1. UNCHANGED <<group, standing, node, repo, change, assigned, asked, access, backfilled, events>> /\ Time
      /\ events \in Nat
  BY HierarchyAssumption DEF CheckRight, Time, Shape, TreeTypeOK
<1>2. session[s].todo # <<>> /\ Head(session[s].todo) = "right" /\ session[s].todo \in Todos(session[s].ask)
  BY AtIs DEF CheckRight
<1>3. session[s].todo \notin Lasts
  BY <1>2, TodoHeads DEF Lasts
<1>4. CASE ~Entitled(s)
  BY <1>1, <1>2, <1>4, FailIs DEF CheckRight
<1>5. CASE Entitled(s)
  <2>1. Onward(s, [session[s] EXCEPT !.seen = events])
    BY <1>5 DEF CheckRight
  <2>2. [session[s] EXCEPT !.seen = events] = AtSeen(session[s], session[s].at, events)
    BY RunningIs, PlaceKept
  <2>3. events \in 0..events
    BY <1>1
  <2>4. Goes(s, session[s].at, events)
    BY <2>1, <2>2, <2>3, <1>1, <1>2, <1>3, RunningIs, OnwardIs
  <2> QED
    BY <2>4, <1>1, <1>2, <1>5
<1> QED
  BY <1>4, <1>5

LEMMA StepFailsIs ==
  ASSUME Shape, NEW s \in Sessions, StepFails(s)
  PROVE  /\ UNCHANGED <<group, standing, node, repo, change, assigned, asked, access, backfilled>>
         /\ events' = events + 1 /\ events < MaxEvents
         /\ session[s].todo # <<>> /\ Ends(s, TRUE)
<1>1. Time
  BY DEF StepFails, Time
<1>2. Fail(s)
  BY DEF StepFails
<1>3. Ends(s, TRUE)
  BY <1>1, <1>2, FailIs
<1> QED
  BY <1>3 DEF StepFails, Running

\* A row below where the request is.
LEMMA InsertIs ==
  ASSUME Shape, Time, NEW s \in Sessions, NEW level \in Levels, Insert(s, level),
         session[s].todo # <<>>, session[s].ask \notin {"write", "delete"}
  PROVE  \/ Ends(s, TRUE) /\ node' = node
         \/ /\ ParentThere(s) /\ Grown(<<Made1(s, level)>>, 1) /\ Rows + 1 \in Nodes
            /\ session[s].todo \in Lasts => Ends(s, FALSE)
            /\ session[s].todo \notin Lasts => Goes(s, Rows + 1, session[s].seen)
<1>1. CASE ~(ParentThere(s) /\ Room(1))
  BY <1>1, FailIs DEF Insert
<1>2. CASE ParentThere(s) /\ Room(1)
  <2>1. /\ node' = Inserted(<<Made1(s, level)>>)
        /\ Onward(s, [session[s] EXCEPT !.at = Rows + 1])
    BY <1>2 DEF Insert, Made1
  <2>2. Rows + 1 <= MaxNodes /\ Rows \in Nat /\ MaxNodes \in Nat
    BY <1>2, HierarchyAssumption DEF Room, Shape, Numbered
  <2>3. Rows + 1 \in Nodes
    BY <2>2 DEF Nodes
  <2> DEFINE row == Made1(s, level)
             added == <<row>>
  <2>4. row \in Node /\ row.level = level /\ level # "none"
    BY RunningIs DEF Node, Made, Makers, Levels, Made1
  <2>5. node' = Inserted(added)
    BY <2>1
  <2>6. DOMAIN added = 1..1 /\ added[1] = row
    OBVIOUS
  <2>7. \A i \in 1..1 : added[i] = row
    BY <2>6
  <2>8. (\A i \in 1..1 : added[i] \in Node /\ added[i].level # "none") /\ 1 \in Nat
    BY <2>4, <2>7
  <2>9. Grown(added, 1)
    <3> HIDE DEF added, row
    <3> QED
      BY <2>2, <2>5, <2>6, <2>8, InsertedIs
  <2>10. [session[s] EXCEPT !.at = Rows + 1] = AtSeen(session[s], Rows + 1, session[s].seen)
    BY RunningIs, PlaceKept
  <2>11. /\ session[s].todo \in Lasts => Ends(s, FALSE)
         /\ session[s].todo \notin Lasts => Goes(s, Rows + 1, session[s].seen)
    BY <2>1, <2>3, <2>10, RunningIs, OnwardIs
  <2> QED
    BY <1>2, <2>3, <2>9, <2>11
<1> QED
  BY <1>1, <1>2

LEMMA CreateSystemIs ==
  ASSUME Shape, NEW s \in Sessions, CreateSystem(s)
  PROVE  /\ Tables /\ repo' = repo /\ session[s].todo = AtSystem /\ session[s].ask = "system"
         /\ \/ Ends(s, TRUE) /\ node' = node
            \/ /\ group # "deleted" /\ session[s].at = 0 /\ Grown(<<Made1(s, "system")>>, 1) /\ Rows + 1 \in Nodes
               /\ Goes(s, Rows + 1, session[s].seen)
<1>1. Tables /\ repo' = repo /\ Time
  BY DEF CreateSystem, Tables, Time
<1>2. session[s].todo = AtSystem /\ session[s].todo # <<>> /\ session[s].todo \in Todos(session[s].ask)
  BY AtIs, TodoIs DEF CreateSystem
<1>3. session[s].ask = "system" /\ session[s].todo \notin Lasts /\ "system" \in Levels
  BY <1>2, TodoAsk, TodoLens DEF Befores, Levels
<1>4. session[s].at = 0
  BY <1>2, RunningIs DEF Placed
<1>5. ParentThere(s) => group # "deleted"
  BY <1>4 DEF ParentThere
<1>6. Insert(s, "system")
  BY DEF CreateSystem
<1> QED
  BY <1>1, <1>2, <1>3, <1>4, <1>5, <1>6, InsertIs

LEMMA ParentIs ==
  ASSUME Shape, NEW s \in Sessions, NEW level, Level(session[s].at, {level}), ParentThere(s)
  PROVE  Is(session[s].at, level) /\ group # "deleted"
<1>1. session[s].at # 0 /\ session[s].at \in Nodes
  BY DEF Level, Nodes
<1>2. node[session[s].at].level \in Levels
  BY <1>1 DEF ParentThere, Stored
<1> QED
  BY <1>1, <1>2 DEF Level, Levels, Is, Shape, Deleted

LEMMA CreateDeliveryProjectIs ==
  ASSUME Shape, NEW s \in Sessions, CreateDeliveryProject(s)
  PROVE  /\ Tables /\ repo' = repo
         /\ session[s].todo \in {AtDelivery, AtBranch} /\ session[s].ask \in {"system", "deliveryProject"}
         /\ \/ Ends(s, TRUE) /\ node' = node
            \/ /\ group # "deleted" /\ Is(session[s].at, "system")
               /\ Grown(<<Made1(s, "deliveryProject")>>, 1) /\ Rows + 1 \in Nodes
               /\ session[s].todo = AtDelivery => Goes(s, Rows + 1, session[s].seen)
               /\ session[s].todo = AtBranch => Ends(s, FALSE)
<1>1. Tables /\ repo' = repo /\ Time
  BY DEF CreateDeliveryProject, Tables, Time
<1>2. session[s].todo \in {AtDelivery, AtBranch} /\ session[s].todo # <<>> /\ session[s].todo \in Todos(session[s].ask)
  BY AtIs, TodoIs DEF CreateDeliveryProject
<1>3. session[s].ask \in {"system", "deliveryProject"} /\ "deliveryProject" \in Levels
  BY <1>2, TodoAsk DEF Levels, BelowSystem
<1>4. AtDelivery \notin Lasts /\ AtBranch \in Lasts
  BY TodoLens DEF Befores, Lasts
<1>5. Level(session[s].at, {"system"})
  BY <1>2, RunningIs DEF Placed, BelowSystem
<1>6. ParentThere(s) => group # "deleted" /\ Is(session[s].at, "system")
  BY <1>5, ParentIs
<1>7. Insert(s, "deliveryProject")
  BY DEF CreateDeliveryProject
<1> QED
  BY <1>1, <1>2, <1>3, <1>4, <1>6, <1>7, InsertIs

LEMMA InsertRowIs ==
  ASSUME Shape, NEW s \in Sessions, InsertRow(s)
  PROVE  /\ Tables /\ repo' = repo /\ session[s].todo = AtRow /\ session[s].ask \in {"system", "repository"}
         /\ \/ Ends(s, TRUE) /\ node' = node
            \/ /\ group # "deleted" /\ Is(session[s].at, "deliveryProject") /\ RowsOf(session[s].name) = {}
               /\ Grown(<<Made1(s, "repository")>>, 1) /\ Rows + 1 \in Nodes
               /\ Ends(s, FALSE)
<1>1. Tables /\ repo' = repo /\ Time
  BY DEF InsertRow, Tables, Time
<1>2. session[s].todo = AtRow /\ session[s].todo # <<>> /\ session[s].todo \in Todos(session[s].ask)
  BY AtIs, TodoIs DEF InsertRow
<1>3. session[s].ask \in {"system", "repository"} /\ "repository" \in Levels
  BY <1>2, TodoAsk DEF Levels, BelowDelivery
<1>4. AtRow \in Lasts
  BY DEF Lasts
<1>5. Level(session[s].at, {"deliveryProject"})
  BY <1>2, RunningIs DEF Placed, BelowDelivery
<1>6. ParentThere(s) => group # "deleted" /\ Is(session[s].at, "deliveryProject")
  BY <1>5, ParentIs
<1>7. CASE RowsOf(session[s].name) # {}
  BY <1>1, <1>2, <1>3, <1>7, FailIs DEF InsertRow
<1>8. CASE RowsOf(session[s].name) = {}
  <2>1. Insert(s, "repository")
    BY <1>8 DEF InsertRow
  <2> QED
    BY <2>1, <1>1, <1>2, <1>3, <1>4, <1>6, <1>8, InsertIs
<1> QED
  BY <1>7, <1>8

\* What is at GitHub and whose it is, of one repository.
RepoBecomes(r, there, by, project) ==
  /\ repo' \in [Repos -> Repo]
  /\ \A q \in Repos : q # r => repo'[q] = repo[q]
  /\ repo'[r].there = there /\ repo'[r].by = by /\ repo'[r].project = project /\ repo'[r].set = repo[r].set
RepoTables == UNCHANGED <<group, standing, node, change, assigned, asked, access, backfilled, events>>

LEMMA RepoFields ==
  ASSUME Shape, NEW r \in Repos
  PROVE  repo \in [Repos -> Repo] /\ repo[r] \in Repo /\ repo[r].there \in BOOLEAN /\ repo[r].by \in Makers
         /\ repo[r].project \in {"none", "group", "own"} /\ repo[r].set \in SUBSET Keys
  BY DEF Shape, TreeTypeOK, Repo

LEMMA CreateRepoIs ==
  ASSUME Shape, NEW s \in Sessions, CreateRepo(s)
  PROVE  /\ RepoTables /\ session[s].todo = AtRepo /\ session[s].ask \in {"system", "repository"}
         /\ \/ Ends(s, TRUE) /\ repo' = repo
            \/ /\ ~repo[session[s].name].there /\ Goes(s, session[s].at, session[s].seen)
               /\ RepoBecomes(session[s].name, TRUE, s, repo[session[s].name].project)
<1>1. RepoTables /\ Time
  BY DEF CreateRepo, RepoTables, Time
<1>2. session[s].todo = AtRepo /\ session[s].todo # <<>> /\ session[s].todo \in Todos(session[s].ask)
  BY AtIs, TodoIs DEF CreateRepo
<1>3. session[s].ask \in {"system", "repository"} /\ session[s].todo \notin Lasts
  BY <1>2, TodoAsk, TodoLens DEF Befores, BelowDelivery
<1>4. CASE repo[session[s].name].there
  BY <1>1, <1>2, <1>3, <1>4, FailIs DEF CreateRepo
<1>5. CASE ~repo[session[s].name].there
  <2>1. Goes(s, session[s].at, session[s].seen)
    BY <1>1, <1>2, <1>3, <1>5, AdvanceIs DEF CreateRepo
  <2> DEFINE r == session[s].name
  <2>2. repo' = [repo EXCEPT ![r].there = TRUE, ![r].by = s]
    BY <1>5 DEF CreateRepo
  <2>3. r \in Repos /\ s \in Makers
    BY RunningIs DEF Makers
  <2> HIDE DEF r
  <2>4. repo \in [Repos -> Repo] /\ repo[r] \in [there : BOOLEAN, set : SUBSET Keys, project : {"none", "group", "own"}, by : Makers]
    BY <2>3, RepoFields DEF Repo
  <2> DEFINE row == [[repo[r] EXCEPT !.there = TRUE] EXCEPT !.by = s]
  <2>5. repo' = [repo EXCEPT ![r] = row]
    BY <2>2, <2>3, <2>4
  <2>6. row.there = TRUE /\ row.by = s /\ row.project = repo[r].project /\ row.set = repo[r].set
    BY <2>3, <2>4
  <2>7. row \in Repo
    BY <2>3, <2>4 DEF Repo
  <2> HIDE DEF row
  <2>8. RepoBecomes(r, TRUE, s, repo[r].project)
    BY <2>3, <2>4, <2>5, <2>6, <2>7 DEF RepoBecomes
  <2> QED
    BY <2>1, <2>8, <1>1, <1>2, <1>3, <1>5 DEF r
<1> QED
  BY <1>4, <1>5

LEMMA InsertProjectIs ==
  ASSUME Shape, NEW s \in Sessions, InsertProject(s)
  PROVE  /\ RepoTables /\ session[s].todo = AtProject /\ session[s].ask \in {"system", "repository"}
         /\ \/ Ends(s, TRUE) /\ repo' = repo
            \/ /\ group # "deleted" /\ Goes(s, session[s].at, session[s].seen)
               /\ RepoBecomes(session[s].name, repo[session[s].name].there, repo[session[s].name].by, "group")
<1>1. RepoTables /\ Time
  BY DEF InsertProject, RepoTables, Time
<1>2. session[s].todo = AtProject /\ session[s].todo # <<>> /\ session[s].todo \in Todos(session[s].ask)
  BY AtIs, TodoIs DEF InsertProject
<1>3. session[s].ask \in {"system", "repository"} /\ session[s].todo \notin Lasts
  BY <1>2, TodoAsk, TodoLens DEF Befores, BelowDelivery
<1>4. CASE group = "deleted"
  BY <1>1, <1>2, <1>3, <1>4, FailIs DEF InsertProject
<1>5. CASE group # "deleted"
  <2>1. Goes(s, session[s].at, session[s].seen)
    BY <1>1, <1>2, <1>3, <1>5, AdvanceIs DEF InsertProject
  <2> DEFINE r == session[s].name
  <2>2. repo' = [repo EXCEPT ![r].project = "group"]
    BY <1>5 DEF InsertProject
  <2>3. r \in Repos
    BY RunningIs
  <2> HIDE DEF r
  <2>4. repo \in [Repos -> Repo] /\ repo[r] \in [there : BOOLEAN, set : SUBSET Keys, project : {"none", "group", "own"}, by : Makers]
    BY <2>3, RepoFields DEF Repo
  <2> DEFINE row == [repo[r] EXCEPT !.project = "group"]
  <2>5. repo' = [repo EXCEPT ![r] = row]
    BY <2>2, <2>3, <2>4
  <2>6. row.there = repo[r].there /\ row.by = repo[r].by /\ row.project = "group" /\ row.set = repo[r].set
    BY <2>3, <2>4
  <2>7. row \in Repo
    BY <2>3, <2>4 DEF Repo
  <2> HIDE DEF row
  <2>8. RepoBecomes(r, repo[r].there, repo[r].by, "group")
    BY <2>3, <2>4, <2>5, <2>6, <2>7 DEF RepoBecomes
  <2> QED
    BY <2>1, <2>8, <1>1, <1>2, <1>3, <1>5 DEF r
<1> QED
  BY <1>4, <1>5

LEMMA CreateProjectIs ==
  ASSUME Shape, NEW s \in Sessions, CreateProject(s)
  PROVE  /\ RepoTables /\ session[s].todo = AtForm /\ session[s].ask = "form"
         /\ \/ Ends(s, TRUE) /\ repo' = repo
            \/ \E owner \in {"group", "own"} :
                 /\ ~repo[session[s].name].there /\ (owner = "group" => group # "deleted")
                 /\ Goes(s, session[s].at, session[s].seen)
                 /\ RepoBecomes(session[s].name, TRUE, s, owner)
<1>1. RepoTables /\ Time
  BY DEF CreateProject, RepoTables, Time
<1>2. session[s].todo = AtForm /\ session[s].todo # <<>> /\ session[s].todo \in Todos(session[s].ask)
  BY AtIs, TodoIs DEF CreateProject
<1>3. session[s].ask = "form" /\ session[s].todo \notin Lasts
  BY <1>2, TodoAsk, TodoLens DEF Befores
<1> DEFINE r == session[s].name
<1>4. PICK owner \in {"group", "own"} :
        IF repo[r].there \/ (owner = "group" /\ group = "deleted")
        THEN Fail(s) /\ UNCHANGED repo
        ELSE /\ repo' = [repo EXCEPT ![r] = [@ EXCEPT !.there = TRUE, !.by = s, !.project = owner]]
             /\ Advance(s)
  BY DEF CreateProject
<1>5. CASE repo[r].there \/ (owner = "group" /\ group = "deleted")
  BY <1>1, <1>2, <1>3, <1>4, <1>5, FailIs
<1>6. CASE ~(repo[r].there \/ (owner = "group" /\ group = "deleted"))
  <2>1. Goes(s, session[s].at, session[s].seen)
    BY <1>1, <1>2, <1>3, <1>4, <1>6, AdvanceIs
  <2>2. repo' = [repo EXCEPT ![r] = [@ EXCEPT !.there = TRUE, !.by = s, !.project = owner]]
    BY <1>4, <1>6
  <2>3. r \in Repos /\ s \in Makers
    BY RunningIs DEF Makers
  <2> HIDE DEF r
  <2>4. repo \in [Repos -> Repo] /\ repo[r] \in [there : BOOLEAN, set : SUBSET Keys, project : {"none", "group", "own"}, by : Makers]
    BY <2>3, RepoFields DEF Repo
  <2> DEFINE row == [[[repo[r] EXCEPT !.there = TRUE] EXCEPT !.by = s] EXCEPT !.project = owner]
  <2>5. repo' = [repo EXCEPT ![r] = row]
    BY <2>2, <2>3, <2>4
  <2>6. row.there = TRUE /\ row.by = s /\ row.project = owner /\ row.set = repo[r].set
    BY <2>3, <2>4
  <2>7. row \in Repo
    BY <2>3, <2>4 DEF Repo
  <2> HIDE DEF row
  <2>8. RepoBecomes(r, TRUE, s, owner)
    BY <2>3, <2>4, <2>5, <2>6, <2>7 DEF RepoBecomes
  <2> QED
    BY <2>1, <2>8, <1>1, <1>2, <1>3, <1>6 DEF r
<1> QED
  BY <1>5, <1>6

LEMMA FindLinkIs ==
  ASSUME Shape, NEW s \in Sessions, FindLink(s)
  PROVE  /\ Tables /\ node' = node /\ repo' = repo /\ session[s].todo = AtFind /\ session[s].ask = "form"
         /\ \/ /\ repo[session[s].name].project = "group" /\ RowsOf(session[s].name) = {}
               /\ Goes(s, session[s].at, session[s].seen)
            \/ /\ ~(repo[session[s].name].project = "group" /\ RowsOf(session[s].name) = {})
               /\ Ends(s, FALSE)
<1>1. Tables /\ node' = node /\ repo' = repo /\ Time
  BY DEF FindLink, Tables, Time
<1>2. session[s].todo = AtFind /\ session[s].todo # <<>> /\ session[s].todo \in Todos(session[s].ask)
  BY AtIs, TodoIs DEF FindLink
<1>3. session[s].ask = "form" /\ session[s].todo \notin Lasts
  BY <1>2, TodoAsk, TodoLens DEF Befores
<1>4. CASE repo[session[s].name].project = "group" /\ RowsOf(session[s].name) = {}
  BY <1>1, <1>2, <1>3, <1>4, AdvanceIs DEF FindLink
<1>5. CASE ~(repo[session[s].name].project = "group" /\ RowsOf(session[s].name) = {})
  BY <1>1, <1>2, <1>3, <1>5, StopIs DEF FindLink
<1> QED
  BY <1>4, <1>5

ChainLinks(added, r, s) ==
  /\ added[1] = Made("system", 0, r, s) /\ added[2] = Made("deliveryProject", Rows + 1, r, s)
  /\ added[3] = Made("repository", Rows + 2, r, s)

LEMMA LinkIs ==
  ASSUME Shape, NEW s \in Sessions, Link(s)
  PROVE  /\ Tables /\ repo' = repo /\ session[s].todo = AtLink /\ session[s].ask = "form"
         /\ \/ /\ group # "deleted" /\ RowsOf(session[s].name) = {} /\ Ends(s, FALSE)
               /\ \E added : ChainLinks(added, session[s].name, s) /\ Grown(added, 3)
            \/ /\ group = "deleted" \/ RowsOf(session[s].name) # {}
               /\ node' = node /\ Ends(s, FALSE)
            \/ node' = node /\ Ends(s, TRUE)
<1>1. Tables /\ repo' = repo /\ Time
  BY DEF Link, Tables, Time
<1>2. session[s].todo = AtLink /\ session[s].todo # <<>> /\ session[s].todo \in Todos(session[s].ask)
  BY AtIs, TodoIs DEF Link
<1>3. session[s].ask = "form"
  BY <1>2, TodoAsk
<1> DEFINE r == session[s].name
           added == Chain(r, s)
<1>4. /\ node' = IF group # "deleted" /\ RowsOf(r) = {} /\ Room(3) THEN Inserted(added) ELSE node
      /\ Stop(s, group # "deleted" /\ RowsOf(r) = {} /\ ~Room(3))
  BY DEF Link
<1>5. CASE group # "deleted" /\ RowsOf(r) = {} /\ Room(3)
  <2>1. Ends(s, FALSE)
    BY <1>1, <1>4, <1>5, StopIs
  <2>2. node' = Inserted(added) /\ Rows + 3 <= MaxNodes
    BY <1>4, <1>5 DEF Room
  <2>3. ChainLinks(added, r, s) /\ DOMAIN added = 1..3
    BY DEF ChainLinks, Chain
  <2>4. r \in Repos /\ s \in Makers /\ Rows \in Nat /\ MaxNodes \in Nat
    BY RunningIs, HierarchyAssumption DEF Makers, Shape, Numbered
  <2>5. Rows + 1 \in Nodes /\ Rows + 2 \in Nodes
    BY <2>2, <2>4 DEF Nodes
  <2> HIDE DEF added, r
  <2>6. added[1] \in Node /\ added[1].level # "none"
    BY <2>3, <2>4 DEF ChainLinks, Made, Node, Levels
  <2>7. added[2] \in Node /\ added[2].level # "none"
    BY <2>3, <2>4, <2>5 DEF ChainLinks, Made, Node, Levels
  <2>8. added[3] \in Node /\ added[3].level # "none"
    BY <2>3, <2>4, <2>5 DEF ChainLinks, Made, Node, Levels
  <2>9. \A i \in 1..3 : added[i] \in Node /\ added[i].level # "none"
    <3> TAKE i \in 1..3
    <3>1. i = 1 \/ i = 2 \/ i = 3
      OBVIOUS
    <3> QED
      BY <3>1, <2>6, <2>7, <2>8
  <2>10. Grown(added, 3)
    BY <2>2, <2>3, <2>9, InsertedIs
  <2> QED
    BY <2>1, <2>3, <2>10, <1>1, <1>2, <1>3, <1>5 DEF r
<1>6. CASE group # "deleted" /\ RowsOf(r) = {} /\ ~Room(3)
  <2>1. Ends(s, TRUE) /\ node' = node
    BY <1>1, <1>4, <1>6, StopIs
  <2> QED
    BY <2>1, <1>1, <1>2, <1>3
<1>7. CASE ~(group # "deleted" /\ RowsOf(r) = {})
  <2>1. Ends(s, FALSE) /\ node' = node
    BY <1>1, <1>4, <1>7, StopIs
  <2> QED
    BY <2>1, <1>1, <1>2, <1>3, <1>7
<1> QED
  BY <1>5, <1>6, <1>7

\* Nothing but a name, or a status, of a row is another.
Kept ==
  /\ node' \in [Nodes -> Node]
  /\ \A n \in Nodes :
       /\ node'[n].level = node[n].level /\ node'[n].parent = node[n].parent /\ node'[n].by = node[n].by
       /\ node[n].level \notin {"system", "deliveryProject"} => node'[n].name = node[n].name

LEMMA RowsKept ==
  ASSUME \A n \in Nodes : node'[n].level = "none" <=> node[n].level = "none"
  PROVE  (Rows)' = Rows
<1>1. {n \in Nodes : node'[n].level # "none"} = {n \in Nodes : node[n].level # "none"}
  OBVIOUS
<1>2. (Rows)' = Cardinality({n \in Nodes : node'[n].level # "none"})
  BY DEF Rows, Nodes
<1> QED
  BY <1>1, <1>2 DEF Rows

LEMMA ArchiveIs ==
  ASSUME Shape, NEW s \in Sessions, Archive(s)
  PROVE  /\ Tables /\ repo' = repo /\ session[s].todo = AtArchive /\ session[s].ask = "archive" /\ Kept
         /\ Ends(s, TRUE) \/ Ends(s, FALSE)
<1>1. Tables /\ repo' = repo /\ Time
  BY DEF Archive, Tables, Time
<1>2. session[s].todo = AtArchive /\ session[s].todo # <<>> /\ session[s].todo \in Todos(session[s].ask)
  BY AtIs, TodoIs DEF Archive
<1>3. session[s].ask = "archive" /\ session[s].todo \in Lasts
  BY <1>2, TodoAsk DEF Lasts
<1>4. node \in [Nodes -> Node]
  BY DEF Shape, TreeTypeOK
<1>5. CASE ~Stored(session[s].at)
  <2>1. Ends(s, TRUE) /\ node' = node
    BY <1>1, <1>5, FailIs DEF Archive
  <2> QED
    BY <2>1, <1>1, <1>2, <1>3, <1>4 DEF Kept
<1>6. CASE Stored(session[s].at)
  <2>1. Ends(s, FALSE)
    BY <1>1, <1>2, <1>3, <1>6, AdvanceIs DEF Archive
  <2> DEFINE n == session[s].at
  <2>2. node' = [node EXCEPT ![n].status = "archived"] /\ n \in Nodes
    BY <1>6 DEF Archive, Stored
  <2> HIDE DEF n
  <2> DEFINE row == [node[n] EXCEPT !.status = "archived"]
  <2>3. node' = [node EXCEPT ![n] = row]
    BY <2>2, <1>4
  <2>4. node[n] \in [level : Levels \cup {"none", "gone"}, parent : Nodes \cup {0}, name : Repos,
                     status : {"active", "archived"}, by : Makers]
    BY <2>2, <1>4 DEF Node
  <2>5. row \in Node /\ row.level = node[n].level /\ row.parent = node[n].parent /\ row.by = node[n].by
        /\ row.name = node[n].name
    BY <2>4 DEF Node
  <2> HIDE DEF row
  <2>6. Kept
    BY <2>2, <2>3, <2>5, <1>4 DEF Kept
  <2> QED
    BY <2>1, <2>6, <1>1, <1>2, <1>3
<1> QED
  BY <1>5, <1>6

LEMMA RenameIs ==
  ASSUME Shape, NEW s \in Sessions, Rename(s)
  PROVE  /\ Tables /\ repo' = repo /\ session[s].todo = AtRename /\ session[s].ask = "rename" /\ Kept
         /\ Ends(s, TRUE) \/ Ends(s, FALSE)
<1>1. Tables /\ repo' = repo /\ Time
  BY DEF Rename, Tables, Time
<1>2. session[s].todo = AtRename /\ session[s].todo # <<>> /\ session[s].todo \in Todos(session[s].ask)
  BY AtIs, TodoIs DEF Rename
<1>3. session[s].ask = "rename" /\ session[s].todo \in Lasts
  BY <1>2, TodoAsk DEF Lasts
<1>4. node \in [Nodes -> Node]
  BY DEF Shape, TreeTypeOK
<1>5. CASE ~Stored(session[s].at)
  <2>1. Ends(s, TRUE) /\ node' = node
    BY <1>1, <1>5, FailIs DEF Rename
  <2> QED
    BY <2>1, <1>1, <1>2, <1>3, <1>4 DEF Kept
<1>6. CASE Stored(session[s].at)
  <2>1. Ends(s, FALSE)
    BY <1>1, <1>2, <1>3, <1>6, AdvanceIs DEF Rename
  <2> DEFINE n == session[s].at
             r == session[s].name
  <2>2. node' = [node EXCEPT ![n].name = r] /\ n \in Nodes /\ r \in Repos
    BY <1>6, RunningIs DEF Rename, Stored
  <2>3. node[n].level \in {"system", "deliveryProject"}
    BY <1>2, <1>6, RunningIs DEF Placed, Level, Stored, Levels
  <2> HIDE DEF n, r
  <2> DEFINE row == [node[n] EXCEPT !.name = r]
  <2>4. node' = [node EXCEPT ![n] = row]
    BY <2>2, <1>4
  <2>5. node[n] \in [level : Levels \cup {"none", "gone"}, parent : Nodes \cup {0}, name : Repos,
                     status : {"active", "archived"}, by : Makers]
    BY <2>2, <1>4 DEF Node
  <2>6. row \in Node /\ row.level = node[n].level /\ row.parent = node[n].parent /\ row.by = node[n].by
    BY <2>2, <2>5 DEF Node
  <2> HIDE DEF row
  <2>7. Kept
    BY <2>2, <2>3, <2>4, <2>6, <1>4 DEF Kept
  <2> QED
    BY <2>1, <2>7, <1>1, <1>2, <1>3
<1> QED
  BY <1>5, <1>6

LEMMA SetArchiveStatusIs ==
  ASSUME Shape, NEW s \in Sessions, SetArchiveStatus(s)
  PROVE  /\ UNCHANGED <<standing, node, repo, change, assigned, asked, access, backfilled, events>>
         /\ session[s].todo = AtStatus /\ session[s].ask \in {"close", "reopen"}
         /\ \/ group' = group /\ Ends(s, TRUE)
            \/ group # "deleted" /\ group' \in {"active", "archived"} /\ Ends(s, FALSE)
<1>1. UNCHANGED <<standing, node, repo, change, assigned, asked, access, backfilled, events>> /\ Time
  BY DEF SetArchiveStatus, Time
<1>2. session[s].todo = AtStatus /\ session[s].todo # <<>> /\ session[s].todo \in Todos(session[s].ask)
  BY AtIs, TodoIs DEF SetArchiveStatus
<1>3. session[s].ask \in {"close", "reopen"} /\ session[s].todo \in Lasts
  BY <1>2, TodoAsk DEF Lasts
<1>4. CASE group = "deleted"
  BY <1>1, <1>2, <1>3, <1>4, FailIs DEF SetArchiveStatus
<1>5. CASE group # "deleted"
  BY <1>1, <1>2, <1>3, <1>5, AdvanceIs DEF SetArchiveStatus
<1> QED
  BY <1>4, <1>5

LEMMA DropGroupIs ==
  ASSUME Shape, NEW s \in Sessions, DropGroup(s)
  PROVE  /\ UNCHANGED <<access, backfilled, events>> /\ session[s].todo = AtDrop /\ session[s].ask = "group"
         /\ Ends(s, TRUE) \/ Ends(s, FALSE)
         /\ group' = "deleted" /\ assigned' = {} /\ asked' = {}
         /\ node' \in [Nodes -> Node] /\ repo' \in [Repos -> Repo]
         /\ \A n \in Nodes : /\ node'[n].level = (IF Stored(n) THEN "gone" ELSE node[n].level)
                             /\ node'[n].parent = node[n].parent /\ node'[n].by = node[n].by
                             /\ node'[n].name = node[n].name
         /\ \A r \in Repos : /\ repo'[r].there = repo[r].there /\ repo'[r].by = repo[r].by /\ repo'[r].set = repo[r].set
                             /\ repo'[r].project = (IF repo[r].project = "group" THEN "own" ELSE repo[r].project)
         /\ change' = [n \in Nodes |-> [k \in Keys |-> "none"]]
         /\ standing' = [u \in Users |-> IF standing[u] = "platform" THEN "platform" ELSE "outside"]
<1>1. UNCHANGED <<access, backfilled, events>> /\ Time
  BY DEF DropGroup, Time
<1>2. session[s].todo = AtDrop /\ session[s].todo # <<>> /\ session[s].todo \in Todos(session[s].ask)
  BY AtIs, TodoIs DEF DropGroup
<1>3. session[s].ask = "group" /\ session[s].todo \in Lasts
  BY <1>2, TodoAsk DEF Lasts
<1>4. Ends(s, TRUE) \/ Ends(s, FALSE)
  <2>1. CASE group # "deleted"
    BY <2>1, <1>1, <1>2, <1>3, AdvanceIs DEF DropGroup
  <2>2. CASE group = "deleted"
    BY <2>2, <1>1, FailIs DEF DropGroup
  <2> QED
    BY <2>1, <2>2
<1>5. node \in [Nodes -> Node] /\ repo \in [Repos -> Repo]
  BY DEF Shape, TreeTypeOK
<1>6. node' = [n \in Nodes |-> IF Stored(n) THEN [node[n] EXCEPT !.level = "gone"] ELSE node[n]]
  BY DEF DropGroup
<1>7. ASSUME NEW n \in Nodes
      PROVE  /\ node'[n].level = (IF Stored(n) THEN "gone" ELSE node[n].level)
             /\ node'[n].parent = node[n].parent /\ node'[n].by = node[n].by
             /\ node'[n].name = node[n].name /\ node'[n] \in Node
  <2>1. node[n] \in [level : Levels \cup {"none", "gone"}, parent : Nodes \cup {0}, name : Repos,
                     status : {"active", "archived"}, by : Makers]
    BY <1>5 DEF Node
  <2> DEFINE row == [node[n] EXCEPT !.level = "gone"]
  <2>2. row \in Node /\ row.level = "gone" /\ row.parent = node[n].parent /\ row.by = node[n].by /\ row.name = node[n].name
    BY <2>1 DEF Node
  <2>3. node'[n] = (IF Stored(n) THEN row ELSE node[n])
    BY <1>6
  <2> HIDE DEF row
  <2> QED
    BY <2>2, <2>3, <1>5
<1>8. node' \in [Nodes -> Node]
  <2> DEFINE f(n) == IF Stored(n) THEN [node[n] EXCEPT !.level = "gone"] ELSE node[n]
  <2>1. node' = [n \in Nodes |-> f(n)]
    BY <1>6
  <2> HIDE DEF f
  <2>2. \A n \in Nodes : f(n) = node'[n]
    BY <2>1
  <2> QED
    BY <2>1, <2>2, <1>7
<1>9. repo' = [r \in Repos |-> IF repo[r].project = "group" THEN [repo[r] EXCEPT !.project = "own"] ELSE repo[r]]
  BY DEF DropGroup
<1>10. ASSUME NEW r \in Repos
       PROVE  /\ repo'[r].there = repo[r].there /\ repo'[r].by = repo[r].by /\ repo'[r].set = repo[r].set
              /\ repo'[r].project = (IF repo[r].project = "group" THEN "own" ELSE repo[r].project)
              /\ repo'[r] \in Repo
  <2>1. repo[r] \in [there : BOOLEAN, set : SUBSET Keys, project : {"none", "group", "own"}, by : Makers]
    BY <1>5 DEF Repo
  <2> DEFINE row == [repo[r] EXCEPT !.project = "own"]
  <2>2. row \in Repo /\ row.project = "own" /\ row.there = repo[r].there /\ row.by = repo[r].by /\ row.set = repo[r].set
    BY <2>1 DEF Repo
  <2>3. repo'[r] = (IF repo[r].project = "group" THEN row ELSE repo[r])
    BY <1>9
  <2> HIDE DEF row
  <2> QED
    BY <2>2, <2>3, <1>5
<1>11. repo' \in [Repos -> Repo]
  <2> DEFINE f(r) == IF repo[r].project = "group" THEN [repo[r] EXCEPT !.project = "own"] ELSE repo[r]
  <2>1. repo' = [r \in Repos |-> f(r)]
    BY <1>9
  <2> HIDE DEF f
  <2>2. \A r \in Repos : f(r) = repo'[r]
    BY <2>1
  <2> QED
    BY <2>1, <2>2, <1>10
<1>12. /\ group' = "deleted" /\ assigned' = {} /\ asked' = {}
       /\ change' = [n \in Nodes |-> [k \in Keys |-> "none"]]
       /\ standing' = [u \in Users |-> IF standing[u] = "platform" THEN "platform" ELSE "outside"]
  BY DEF DropGroup
<1> QED
  BY <1>1, <1>2, <1>3, <1>4, <1>7, <1>8, <1>10, <1>11, <1>12

\* Two requests of one variable notice each other.
Sends(s) ==
  /\ Requests
  /\ session'[s].todo = AtRecord /\ ~session'[s].failed /\ session'[s].ask = session[s].ask
  /\ session'[s].by = session[s].by /\ session'[s].at = session[s].at /\ session'[s].name = session[s].name
  /\ session'[s].key = session[s].key /\ session'[s].seen = session[s].seen
  /\ session'[s].clash = (session[s].clash \/ \E t \in Sessions : t \in Crossing(s))
  /\ \A t \in Sessions : t # s =>
       /\ t \in Crossing(s) => session'[t] = [session[t] EXCEPT !.clash = TRUE]
       /\ t \notin Crossing(s) => session'[t] = session[t]
  /\ RequestTyped(session[s])'

LEMMA ClashSet ==
  ASSUME NEW a, RequestTyped(a), NEW w, w = [a EXCEPT !.clash = TRUE]
  PROVE  /\ w = [todo |-> a.todo, ask |-> a.ask, by |-> a.by, at |-> a.at, name |-> a.name, key |-> a.key,
                 failed |-> a.failed, clash |-> TRUE, seen |-> a.seen]
         /\ w.todo = a.todo /\ w.ask = a.ask /\ w.by = a.by /\ w.at = a.at /\ w.name = a.name /\ w.key = a.key
         /\ w.failed = a.failed /\ w.clash = TRUE /\ w.seen = a.seen
<1> DEFINE todo == a.todo
           ask == a.ask
           by == a.by
           at == a.at
           name == a.name
           key == a.key
           failed == a.failed
           clash == a.clash
           seen == a.seen
           yes == TRUE
<1>1. a = [todo |-> todo, ask |-> ask, by |-> by, at |-> at, name |-> name, key |-> key,
           failed |-> failed, clash |-> clash, seen |-> seen]
  BY DEF RequestTyped
<1>2. w = [a EXCEPT !.clash = yes]
  OBVIOUS
<1> HIDE DEF todo, ask, by, at, name, key, failed, clash, seen, yes
<1>3. w = [todo |-> todo, ask |-> ask, by |-> by, at |-> at, name |-> name, key |-> key,
           failed |-> failed, clash |-> yes, seen |-> seen]
  BY ONLY <1>1, <1>2
<1>4. /\ w.todo = todo /\ w.ask = ask /\ w.by = by /\ w.at = at /\ w.name = name /\ w.key = key
      /\ w.failed = failed /\ w.clash = yes /\ w.seen = seen
  BY ONLY <1>3
<1> QED
  BY <1>3, <1>4 DEF todo, ask, by, at, name, key, failed, seen, yes

OnSent(a, clash) == [[a EXCEPT !.todo = Tail(@)] EXCEPT !.clash = clash]

LEMMA SentSet ==
  ASSUME NEW a, RequestTyped(a), NEW both, NEW w, w = OnSent(a, both)
  PROVE  /\ w = [todo |-> Tail(a.todo), ask |-> a.ask, by |-> a.by, at |-> a.at, name |-> a.name, key |-> a.key,
                 failed |-> a.failed, clash |-> both, seen |-> a.seen]
         /\ w.todo = Tail(a.todo) /\ w.ask = a.ask /\ w.by = a.by /\ w.at = a.at /\ w.name = a.name /\ w.key = a.key
         /\ w.failed = a.failed /\ w.clash = both /\ w.seen = a.seen
         /\ [a EXCEPT !.todo = Tail(@)].clash = a.clash
<1> DEFINE todo == a.todo
           rest == Tail(a.todo)
           ask == a.ask
           by == a.by
           at == a.at
           name == a.name
           key == a.key
           failed == a.failed
           clash == a.clash
           seen == a.seen
           v == [a EXCEPT !.todo = Tail(@)]
<1>1. a = [todo |-> todo, ask |-> ask, by |-> by, at |-> at, name |-> name, key |-> key,
           failed |-> failed, clash |-> clash, seen |-> seen]
  BY DEF RequestTyped
<1>2. v = [a EXCEPT !.todo = rest]
  OBVIOUS
<1>3. w = [v EXCEPT !.clash = both]
  BY DEF OnSent
<1> HIDE DEF todo, rest, ask, by, at, name, key, failed, clash, seen, v
<1>4. v = [todo |-> rest, ask |-> ask, by |-> by, at |-> at, name |-> name, key |-> key,
           failed |-> failed, clash |-> clash, seen |-> seen]
  BY ONLY <1>1, <1>2
<1>5. v.clash = clash
  BY ONLY <1>4
<1>6. w = [todo |-> rest, ask |-> ask, by |-> by, at |-> at, name |-> name, key |-> key,
           failed |-> failed, clash |-> both, seen |-> seen]
  BY ONLY <1>3, <1>4
<1>7. /\ w.todo = rest /\ w.ask = ask /\ w.by = by /\ w.at = at /\ w.name = name /\ w.key = key
      /\ w.failed = failed /\ w.clash = both /\ w.seen = seen
  BY ONLY <1>6
<1> QED
  BY <1>5, <1>6, <1>7 DEF todo, rest, ask, by, at, name, key, failed, clash, seen, v

LEMMA SendConfigurationIs ==
  ASSUME Shape, NEW s \in Sessions, SendConfiguration(s)
  PROVE  /\ Tables /\ node' = node /\ session[s].todo = AtSend /\ session[s].ask \in {"write", "delete"}
         /\ Sends(s)
         /\ repo' \in [Repos -> Repo] /\ \A q \in Repos : q # session[s].name => repo'[q] = repo[q]
         /\ \A q \in Repos : repo'[q].there = repo[q].there /\ repo'[q].by = repo[q].by /\ repo'[q].project = repo[q].project
         /\ repo'[session[s].name].set = IF session[s].ask = "write"
                                         THEN repo[session[s].name].set \cup {session[s].key}
                                         ELSE repo[session[s].name].set \ {session[s].key}
<1>1. Tables /\ node' = node /\ events' = events
  BY DEF SendConfiguration, Tables
<1>2. session[s].todo = AtSend /\ session[s].todo # <<>> /\ session[s].todo \in Todos(session[s].ask)
  BY AtIs, TodoIs DEF SendConfiguration
<1>3. session[s].ask \in {"write", "delete"} /\ Tail(session[s].todo) = AtRecord /\ AtRecord \in Todos(session[s].ask)
      /\ AtRecord # <<>>
  <2>1. session[s].ask \in {"write", "delete"} /\ Tail(AtSend) = AtRecord /\ AtSend \in Befores
    BY <1>2, TodoAsk, TodoTails DEF Befores
  <2>2. Tail(AtSend) \in Todos(session[s].ask) /\ Tail(AtSend) # <<>>
    BY <1>2, <2>1, TodoIs
  <2> QED
    BY <1>2, <2>1, <2>2
<1>4. session' = Clashed(s)
  BY DEF SendConfiguration
<1> DEFINE crossed == Crossing(s) # {}
           both == session[s].clash \/ crossed
           w == OnSent(session[s], both)
<1>5. s \notin Crossing(s) /\ \A t \in Crossing(s) : t \in Sessions
  BY DEF Crossing, SameKey
<1>0. w = [session[s] EXCEPT !.todo = Tail(@), !.clash = @ \/ crossed]
  BY RunningIs, SentSet DEF OnSent
<1>6. /\ session' = [t \in Sessions |-> session'[t]]
      /\ session'[s] = w
      /\ \A t \in Sessions : t # s =>
           /\ t \in Crossing(s) => session'[t] = [session[t] EXCEPT !.clash = TRUE]
           /\ t \notin Crossing(s) => session'[t] = session[t]
  BY <1>0, <1>4, <1>5 DEF Clashed
<1>7. crossed <=> \E t \in Sessions : t \in Crossing(s)
  BY <1>5
<1>8. w = OnSent(session[s], both)
  OBVIOUS
<1>21. both = (session[s].clash \/ crossed)
  OBVIOUS
<1> HIDE DEF w, crossed, both
<1>10. RequestTyped(session[s])
  BY RunningIs
<1>9. /\ w = [todo |-> Tail(session[s].todo), ask |-> session[s].ask, by |-> session[s].by, at |-> session[s].at,
              name |-> session[s].name, key |-> session[s].key,
              failed |-> session[s].failed, clash |-> both, seen |-> session[s].seen]
      /\ w.todo = Tail(session[s].todo) /\ w.ask = session[s].ask /\ w.by = session[s].by /\ w.at = session[s].at
      /\ w.name = session[s].name /\ w.key = session[s].key
      /\ w.failed = session[s].failed /\ w.clash = both /\ w.seen = session[s].seen
  <2> DEFINE a == session[s]
  <2>1. RequestTyped(a) /\ w = OnSent(a, both)
    BY <1>8, <1>10
  <2> HIDE DEF a
  <2>2. /\ w = [todo |-> Tail(a.todo), ask |-> a.ask, by |-> a.by, at |-> a.at, name |-> a.name, key |-> a.key,
                failed |-> a.failed, clash |-> both, seen |-> a.seen]
        /\ w.todo = Tail(a.todo) /\ w.ask = a.ask /\ w.by = a.by /\ w.at = a.at /\ w.name = a.name /\ w.key = a.key
        /\ w.failed = a.failed /\ w.clash = both /\ w.seen = a.seen
    BY ONLY <2>1, SentSet
  <2> QED
    BY <2>2 DEF a
<1>11. ~session[s].failed
  BY <1>2, <1>10 DEF RequestTyped
<1>22. both \in BOOLEAN
  BY <1>10, <1>21 DEF RequestTyped
<1>12. RequestTyped(w)
  BY <1>3, <1>9, <1>10, <1>11, <1>22 DEF RequestTyped
<1>13. RequestTyped(session[s])'
  BY <1>1, <1>6, <1>12 DEF RequestTyped
<1>14. w.clash = (session[s].clash \/ \E t \in Sessions : t \in Crossing(s))
  BY <1>7, <1>9, <1>21
<1>15. Sends(s)
  BY <1>3, <1>6, <1>9, <1>11, <1>13, <1>14 DEF Sends, Requests
<1> DEFINE r == session[s].name
<1>16. repo' = Sent(s) /\ r \in Repos
  BY RunningIs DEF SendConfiguration
<1>17. /\ repo' \in [Repos -> Repo] /\ \A q \in Repos : q # r => repo'[q] = repo[q]
       /\ \A q \in Repos : repo'[q].there = repo[q].there /\ repo'[q].by = repo[q].by /\ repo'[q].project = repo[q].project
       /\ repo'[r].set = IF session[s].ask = "write" THEN repo[r].set \cup {session[s].key}
                         ELSE repo[r].set \ {session[s].key}
  <2> DEFINE to == IF session[s].ask = "write" THEN repo[r].set \cup {session[s].key} ELSE repo[r].set \ {session[s].key}
             row == [repo[r] EXCEPT !.set = to]
  <2>1. repo \in [Repos -> Repo] /\ repo[r] \in [there : BOOLEAN, set : SUBSET Keys, project : {"none", "group", "own"}, by : Makers]
    BY <1>16, RepoFields DEF Repo
  <2>2. repo' = [repo EXCEPT ![r] = row]
    BY <1>16, <2>1 DEF Sent
  <2>3. session[s].key \in Keys
    BY <1>3, RunningIs DEF Placed
  <2>4. to \in SUBSET Keys
    BY <2>1, <2>3
  <2> HIDE DEF r, to
  <2>5. row \in Repo /\ row.there = repo[r].there /\ row.by = repo[r].by /\ row.project = repo[r].project /\ row.set = to
    BY <2>1, <2>4 DEF Repo
  <2> HIDE DEF row
  <2>6. repo'[r] = row /\ (\A q \in Repos : q # r => repo'[q] = repo[q]) /\ repo' \in [Repos -> Repo]
    BY <2>1, <2>2, <2>5, <1>16
  <2> QED
    BY <2>5, <2>6 DEF to
<1> QED
  BY <1>1, <1>2, <1>3, <1>15, <1>17

LEMMA RecordChangeIs ==
  ASSUME Shape, NEW s \in Sessions, RecordChange(s)
  PROVE  /\ UNCHANGED <<group, standing, node, repo, assigned, asked, access, backfilled, events>>
         /\ session[s].todo = AtRecord /\ session[s].ask \in {"write", "delete"}
         /\ \/ Ends(s, TRUE) /\ change' = change
            \/ /\ Ends(s, FALSE) /\ Stored(session[s].at)
               /\ change' \in [Nodes -> [Keys -> {"none", "create", "delete"}]]
               /\ \A n \in Nodes, k \in Keys :
                    change'[n][k] = IF n = session[s].at /\ k = session[s].key
                                    THEN (IF session[s].ask = "write" THEN "create" ELSE "delete") ELSE change[n][k]
<1>1. UNCHANGED <<group, standing, node, repo, assigned, asked, access, backfilled, events>> /\ Time
  BY DEF RecordChange, Time
<1>2. session[s].todo = AtRecord /\ session[s].todo # <<>> /\ session[s].todo \in Todos(session[s].ask)
  BY AtIs, TodoIs DEF RecordChange
<1>3. session[s].ask \in {"write", "delete"} /\ session[s].todo \in Lasts
  BY <1>2, TodoAsk DEF Lasts
<1>4. CASE ~Stored(session[s].at)
  BY <1>1, <1>2, <1>3, <1>4, FailIs DEF RecordChange
<1>5. CASE Stored(session[s].at)
  <2>1. Ends(s, FALSE)
    BY <1>1, <1>2, <1>3, <1>5, AdvanceIs DEF RecordChange
  <2> DEFINE m == session[s].at
             x == session[s].key
             to == IF session[s].ask = "write" THEN "create" ELSE "delete"
  <2>2. m \in Nodes /\ x \in Keys /\ to \in {"none", "create", "delete"}
    BY <1>3, <1>5, RunningIs DEF Placed, Stored
  <2>3. change \in [Nodes -> [Keys -> {"none", "create", "delete"}]]
    BY DEF Shape, TreeTypeOK
  <2>4. change' = [change EXCEPT ![m][x] = to]
    BY <1>5 DEF RecordChange, Note
  <2> HIDE DEF m, x, to
  <2> DEFINE row == [change[m] EXCEPT ![x] = to]
  <2>5. change' = [change EXCEPT ![m] = row]
    BY <2>2, <2>3, <2>4
  <2>6. row \in [Keys -> {"none", "create", "delete"}] /\ \A k \in Keys : row[k] = IF k = x THEN to ELSE change[m][k]
    BY <2>2, <2>3
  <2> HIDE DEF row
  <2>7. /\ change' \in [Nodes -> [Keys -> {"none", "create", "delete"}]]
        /\ \A n \in Nodes, k \in Keys : change'[n][k] = IF n = m /\ k = x THEN to ELSE change[n][k]
    BY <2>2, <2>3, <2>5, <2>6
  <2> QED
    BY <2>1, <2>7, <1>1, <1>2, <1>3, <1>5 DEF m, x, to
<1> QED
  BY <1>4, <1>5

\* What a request has to do first.
Firsts == {AskSystem, AskBranch, AskRepo, AtForm, AskSend, AskArchive, AskRename, AskStatus, AskDrop}
Begins(s) ==
  /\ UNCHANGED <<group, standing, node, repo, change, assigned, asked, access, backfilled, events>>
  /\ Requests /\ Others(s)
  /\ session[s].ask = "none" /\ session[s].todo = <<>> /\ session'[s].ask # "none"
  /\ session'[s].todo \in Firsts /\ ~session'[s].failed /\ ~session'[s].clash
  /\ session'[s].todo = Path(session'[s].ask) /\ session'[s].ask \in RequestKinds
  /\ RequestTyped(session[s])' /\ Placed(session[s])'

LEMMA PathIs ==
  ASSUME NEW ask \in RequestKinds
  PROVE  /\ Path(ask) \in Firsts /\ Path(ask) \in Todos(ask) /\ Path(ask) # <<>>
         /\ ask = "system" => Path(ask) = AskSystem
         /\ ask = "deliveryProject" => Path(ask) = AskBranch
         /\ ask = "repository" => Path(ask) = AskRepo
         /\ ask = "form" => Path(ask) = AtForm
         /\ ask \in {"write", "delete"} => Path(ask) = AskSend
         /\ ask = "archive" => Path(ask) = AskArchive
         /\ ask = "rename" => Path(ask) = AskRename
         /\ ask \in {"close", "reopen"} => Path(ask) = AskStatus
         /\ ask = "group" => Path(ask) = AskDrop
<1>1. ask = "system" => Path(ask) = AskSystem
  BY DEF Path, AskSystem
<1>2. ask = "deliveryProject" => Path(ask) = AskBranch
  BY DEF Path, AskBranch
<1>3. ask = "repository" => Path(ask) = AskRepo
  BY DEF Path, AskRepo
<1>4. ask = "form" => Path(ask) = AtForm
  BY DEF Path, AtForm
<1>5. ask \in {"write", "delete"} => Path(ask) = AskSend
  BY DEF Path, AskSend
<1>6. ask = "archive" => Path(ask) = AskArchive
  BY DEF Path, AskArchive
<1>7. ask = "rename" => Path(ask) = AskRename
  BY DEF Path, AskRename
<1>8. ask \in {"close", "reopen"} => Path(ask) = AskStatus
  BY DEF Path, AskStatus
<1>9. ask = "group" => Path(ask) = AskDrop
  BY DEF Path, AskDrop
<1>10. \/ ask = "system" \/ ask = "deliveryProject" \/ ask = "repository" \/ ask = "form"
       \/ ask \in {"write", "delete"} \/ ask = "archive" \/ ask = "rename" \/ ask \in {"close", "reopen"} \/ ask = "group"
  BY DEF RequestKinds
<1>11. Path(ask) \in Firsts
  BY <1>1, <1>2, <1>3, <1>4, <1>5, <1>6, <1>7, <1>8, <1>9, <1>10 DEF Firsts
<1>12. Path(ask) \in Todos(ask)
  <2>1. CASE ask \in {"system", "deliveryProject", "repository", "form"}
    BY <2>1, <1>1, <1>2, <1>3, <1>4 DEF Todos
  <2>2. CASE ask \in {"write", "delete", "archive", "rename"}
    BY <2>2, <1>5, <1>6, <1>7 DEF Todos
  <2>3. CASE ask \in {"close", "reopen", "group"}
    BY <2>3, <1>8, <1>9 DEF Todos
  <2> QED
    BY <2>1, <2>2, <2>3, <1>10
<1>13. Path(ask) # <<>>
  BY <1>11, TodoLens DEF Firsts, Befores
<1> QED
  BY <1>1, <1>2, <1>3, <1>4, <1>5, <1>6, <1>7, <1>8, <1>9, <1>11, <1>12, <1>13

\* A request as it begins.
Fresh(v, ask, by, at, name, key) ==
  v = [todo |-> Path(ask), ask |-> ask, by |-> by, at |-> at, name |-> name, key |-> key,
       failed |-> FALSE, clash |-> FALSE, seen |-> 0]

LEMMA FreshIs ==
  ASSUME Shape, NEW s \in Sessions, New(s),
         NEW ask \in RequestKinds, NEW by \in Users, NEW at \in Nodes \cup {0}, NEW name \in Repos, NEW key \in Keys \cup {Nobody},
         NEW v, Fresh(v, ask, by, at, name, key), session' = [session EXCEPT ![s] = v],
         UNCHANGED <<group, standing, node, repo, change, assigned, asked, access, backfilled, events>>,
         ask = "system" => at = 0,
         ask = "deliveryProject" => Level(at, {"system"}),
         ask = "repository" => Level(at, {"deliveryProject"}),
         ask \in {"close", "reopen", "group"} => at = 0,
         ask = "rename" => Level(at, {"system", "deliveryProject"}),
         ask = "archive" => Level(at, Levels),
         ask \in {"write", "delete"} => Level(at, {"repository"}) /\ key \in Keys /\ name = node[at].name
  PROVE  /\ Begins(s) /\ session'[s].ask = ask /\ session'[s].name = name /\ session'[s].at = at
         /\ session'[s].key = key /\ session'[s].todo = Path(ask)
<1>1. session \in [Sessions -> Session] /\ events \in 0..MaxEvents /\ MaxEvents \in Nat
  BY HierarchyAssumption DEF Shape, TreeTypeOK
<1>2. session'[s] = v /\ Requests /\ Others(s)
  BY <1>1 DEF Requests, Others
<1>3. /\ v.todo = Path(ask) /\ v.ask = ask /\ v.by = by /\ v.at = at /\ v.name = name /\ v.key = key
      /\ v.failed = FALSE /\ v.clash = FALSE /\ v.seen = 0
  <2> DEFINE path == Path(ask)
             no == FALSE
             zero == 0
  <2>1. v = [todo |-> path, ask |-> ask, by |-> by, at |-> at, name |-> name, key |-> key,
             failed |-> no, clash |-> no, seen |-> zero]
    BY DEF Fresh
  <2> HIDE DEF path, no, zero
  <2>2. /\ v.todo = path /\ v.ask = ask /\ v.by = by /\ v.at = at /\ v.name = name /\ v.key = key
        /\ v.failed = no /\ v.clash = no /\ v.seen = zero
    BY ONLY <2>1
  <2> QED
    BY <2>2 DEF path, no, zero
<1>4. session[s].ask = "none" /\ session[s].todo = <<>>
  BY RunningIs DEF New, Todos
<1>5. v = [todo |-> v.todo, ask |-> v.ask, by |-> v.by, at |-> v.at, name |-> v.name, key |-> v.key,
           failed |-> v.failed, clash |-> v.clash, seen |-> v.seen]
  BY <1>3 DEF Fresh
<1>6. 0 \in 0..events /\ ask # "none"
  BY <1>1 DEF RequestKinds
<1>7. RequestTyped(v)
  BY <1>3, <1>5, <1>6, PathIs DEF RequestTyped
<1>8. RequestTyped(session[s])'
  BY <1>2, <1>7 DEF RequestTyped
<1>9. Placed(v)
  <2>1. v.todo \in Firsts /\ v.todo \in Todos(ask) /\ v.todo # <<>>
    BY <1>3, PathIs
  <2>2. /\ v.todo \in {AskSystem, AtSystem} => v.at = 0
        /\ v.todo \in BelowSystem \cup {AskBranch, AtBranch} => Level(v.at, {"system"})
    <3>1. v.todo \in {AskSystem, AtSystem} => ask = "system"
      BY <2>1, TodoAsk
    <3>2. v.todo \in {AskBranch, AtBranch} => ask = "deliveryProject"
      BY <2>1, TodoAsk
    <3>3. v.todo \notin BelowSystem
      <4>1. SUFFICES ASSUME v.todo \in BelowSystem PROVE FALSE
        OBVIOUS
      <4>2. ask = "system"
        BY <4>1, <2>1, TodoAsk
      <4>3. v.todo = AskSystem
        BY <4>2, <1>3, PathIs
      <4>4. Len(v.todo) \in {5, 6} /\ Len(v.todo) = 8
        BY <4>1, <4>3, TodoLasts DEF BelowSystem
      <4> QED
        BY <4>4
    <3> QED
      BY <3>1, <3>2, <3>3, <1>3
  <2>3. v.todo \in BelowDelivery => Level(v.at, {"deliveryProject"})
    <3>1. SUFFICES ASSUME v.todo \in BelowDelivery PROVE ask = "repository"
      BY <1>3
    <3>2. ask \in {"system", "repository"}
      BY <2>1, <3>1, TodoAsk
    <3>3. SUFFICES ASSUME ask = "system" PROVE FALSE
      BY <3>2
    <3>4. v.todo = AskSystem
      BY <3>3, <1>3, PathIs
    <3>5. Len(v.todo) \in {1, 2, 3, 4} /\ Len(v.todo) = 8
      BY <3>1, <3>4, TodoLasts DEF BelowDelivery
    <3> QED
      BY <3>5
  <2>4. v.todo \in {AskRename, AtRename} => Level(v.at, {"system", "deliveryProject"})
    BY <2>1, <1>3, TodoAsk
  <2>5. v.todo \in {AskArchive, AtArchive} => Level(v.at, Levels)
    BY <2>1, <1>3, TodoAsk
  <2>6. v.todo \in {AskStatus, AtStatus, AskDrop, AtDrop} => v.at = 0
    <3>1. v.todo \in {AskStatus, AtStatus} => ask \in {"close", "reopen"}
      BY <2>1, TodoAsk
    <3>2. v.todo \in {AskDrop, AtDrop} => ask = "group"
      BY <2>1, TodoAsk
    <3> QED
      BY <3>1, <3>2, <1>3
  <2>7. v.ask \in {"write", "delete"} =>
          Level(v.at, {"repository"}) /\ v.key \in Keys /\ (v.todo # <<>> => v.name = node[v.at].name)
    BY <1>3
  <2> QED
    BY <2>2, <2>3, <2>4, <2>5, <2>6, <2>7 DEF Placed
<1>10. Placed(session[s])'
  BY <1>2, <1>9 DEF Placed, Level, Nodes, Levels
<1>11. Begins(s)
  BY <1>2, <1>3, <1>4, <1>6, <1>8, <1>10, PathIs DEF Begins
<1> QED
  BY <1>2, <1>3, <1>11

\* What is given of a request, on top of what it is when idle.
ForACreate(ask, by, at, name) == [Idle EXCEPT !.ask = ask, !.by = by, !.at = at, !.name = name]

LEMMA IdleCreate ==
  ASSUME NEW ask, NEW by, NEW at, NEW name
  PROVE  ForACreate(ask, by, at, name) =
           [todo |-> <<>>, ask |-> ask, by |-> by, at |-> at, name |-> name, key |-> Nobody,
            failed |-> FALSE, clash |-> FALSE, seen |-> 0]
<1> DEFINE none == <<>>
           nothing == "none"
           no == FALSE
           zero == 0
           w0 == Idle
           w1 == [w0 EXCEPT !.ask = ask]
           w2 == [w1 EXCEPT !.by = by]
           w3 == [w2 EXCEPT !.at = at]
           w4 == [w3 EXCEPT !.name = name]
<1>1. ForACreate(ask, by, at, name) = w4
  BY DEF ForACreate
<1>2. w0 = [todo |-> none, ask |-> nothing, by |-> Lead, at |-> zero, name |-> Linked, key |-> Nobody,
            failed |-> no, clash |-> no, seen |-> zero]
  BY DEF Idle
<1> HIDE DEF none, nothing, no, zero, w0
<1>3. w1 = [todo |-> none, ask |-> ask, by |-> Lead, at |-> zero, name |-> Linked, key |-> Nobody,
            failed |-> no, clash |-> no, seen |-> zero]
  BY ONLY <1>2
<1> HIDE DEF w1
<1>4. w2 = [todo |-> none, ask |-> ask, by |-> by, at |-> zero, name |-> Linked, key |-> Nobody,
            failed |-> no, clash |-> no, seen |-> zero]
  BY ONLY <1>3
<1> HIDE DEF w2
<1>5. w3 = [todo |-> none, ask |-> ask, by |-> by, at |-> at, name |-> Linked, key |-> Nobody,
            failed |-> no, clash |-> no, seen |-> zero]
  BY ONLY <1>4
<1> HIDE DEF w3
<1>6. w4 = [todo |-> none, ask |-> ask, by |-> by, at |-> at, name |-> name, key |-> Nobody,
            failed |-> no, clash |-> no, seen |-> zero]
  BY ONLY <1>5
<1> HIDE DEF w4
<1> QED
  BY <1>1, <1>6 DEF none, nothing, no, zero, w0, w1, w2, w3, w4

ForAChange(ask, by, at, key, name) == [Idle EXCEPT !.ask = ask, !.by = by, !.at = at, !.key = key, !.name = name]

LEMMA IdleChange ==
  ASSUME NEW ask, NEW by, NEW at, NEW key, NEW name
  PROVE  ForAChange(ask, by, at, key, name) =
           [todo |-> <<>>, ask |-> ask, by |-> by, at |-> at, name |-> name, key |-> key,
            failed |-> FALSE, clash |-> FALSE, seen |-> 0]
<1> DEFINE none == <<>>
           nothing == "none"
           no == FALSE
           zero == 0
           w0 == Idle
           w1 == [w0 EXCEPT !.ask = ask]
           w2 == [w1 EXCEPT !.by = by]
           w3 == [w2 EXCEPT !.at = at]
           w4 == [w3 EXCEPT !.key = key]
           w5 == [w4 EXCEPT !.name = name]
<1>1. ForAChange(ask, by, at, key, name) = w5
  BY DEF ForAChange
<1>2. w0 = [todo |-> none, ask |-> nothing, by |-> Lead, at |-> zero, name |-> Linked, key |-> Nobody,
            failed |-> no, clash |-> no, seen |-> zero]
  BY DEF Idle
<1> HIDE DEF none, nothing, no, zero, w0
<1>3. w1 = [todo |-> none, ask |-> ask, by |-> Lead, at |-> zero, name |-> Linked, key |-> Nobody,
            failed |-> no, clash |-> no, seen |-> zero]
  BY ONLY <1>2
<1> HIDE DEF w1
<1>4. w2 = [todo |-> none, ask |-> ask, by |-> by, at |-> zero, name |-> Linked, key |-> Nobody,
            failed |-> no, clash |-> no, seen |-> zero]
  BY ONLY <1>3
<1> HIDE DEF w2
<1>5. w3 = [todo |-> none, ask |-> ask, by |-> by, at |-> at, name |-> Linked, key |-> Nobody,
            failed |-> no, clash |-> no, seen |-> zero]
  BY ONLY <1>4
<1> HIDE DEF w3
<1>6. w4 = [todo |-> none, ask |-> ask, by |-> by, at |-> at, name |-> Linked, key |-> key,
            failed |-> no, clash |-> no, seen |-> zero]
  BY ONLY <1>5
<1> HIDE DEF w4
<1>7. w5 = [todo |-> none, ask |-> ask, by |-> by, at |-> at, name |-> name, key |-> key,
            failed |-> no, clash |-> no, seen |-> zero]
  BY ONLY <1>6
<1> HIDE DEF w5
<1> QED
  BY <1>1, <1>7 DEF none, nothing, no, zero, w0, w1, w2, w3, w4, w5

LEMMA IdleOfGroup ==
  ASSUME NEW ask, NEW by
  PROVE  [Idle EXCEPT !.ask = ask, !.by = by] =
           [todo |-> <<>>, ask |-> ask, by |-> by, at |-> 0, name |-> Linked, key |-> Nobody,
            failed |-> FALSE, clash |-> FALSE, seen |-> 0]
<1> DEFINE none == <<>>
           nothing == "none"
           no == FALSE
           zero == 0
           w0 == Idle
           w1 == [w0 EXCEPT !.ask = ask]
           w2 == [w1 EXCEPT !.by = by]
<1>1. [Idle EXCEPT !.ask = ask, !.by = by] = w2
  OBVIOUS
<1>2. w0 = [todo |-> none, ask |-> nothing, by |-> Lead, at |-> zero, name |-> Linked, key |-> Nobody,
            failed |-> no, clash |-> no, seen |-> zero]
  BY DEF Idle
<1> HIDE DEF none, nothing, no, zero, w0
<1>3. w1 = [todo |-> none, ask |-> ask, by |-> Lead, at |-> zero, name |-> Linked, key |-> Nobody,
            failed |-> no, clash |-> no, seen |-> zero]
  BY ONLY <1>2
<1> HIDE DEF w1
<1>4. w2 = [todo |-> none, ask |-> ask, by |-> by, at |-> zero, name |-> Linked, key |-> Nobody,
            failed |-> no, clash |-> no, seen |-> zero]
  BY ONLY <1>3
<1> HIDE DEF w2
<1> QED
  BY <1>1, <1>4 DEF none, nothing, no, zero, w0, w1, w2

LEMMA BegunFresh ==
  ASSUME NEW ask, NEW by, NEW at, NEW name, NEW key, NEW v,
         v = [todo |-> <<>>, ask |-> ask, by |-> by, at |-> at, name |-> name, key |-> key,
              failed |-> FALSE, clash |-> FALSE, seen |-> 0]
  PROVE  v.ask = ask /\ Fresh([v EXCEPT !.todo = Path(v.ask)], ask, by, at, name, key)
<1> DEFINE none == <<>>
           no == FALSE
           zero == 0
           path == Path(ask)
<1>1. v = [todo |-> none, ask |-> ask, by |-> by, at |-> at, name |-> name, key |-> key,
           failed |-> no, clash |-> no, seen |-> zero]
  OBVIOUS
<1> HIDE DEF none, path, no, zero
<1>2. v.ask = ask
  BY ONLY <1>1
<1>3. [v EXCEPT !.todo = path] =
        [todo |-> path, ask |-> ask, by |-> by, at |-> at, name |-> name, key |-> key,
         failed |-> no, clash |-> no, seen |-> zero]
  BY ONLY <1>1
<1> QED
  BY <1>2, <1>3 DEF path, no, zero, Fresh

LEMMA BeginIs ==
  ASSUME NEW s \in Sessions, NEW ask, NEW by, NEW at, NEW name, NEW key, NEW v, Begin(s, v),
         v = [todo |-> <<>>, ask |-> ask, by |-> by, at |-> at, name |-> name, key |-> key,
              failed |-> FALSE, clash |-> FALSE, seen |-> 0]
  PROVE  /\ \E w : Fresh(w, ask, by, at, name, key) /\ session' = [session EXCEPT ![s] = w]
         /\ UNCHANGED <<group, standing, node, repo, change, assigned, asked, access, backfilled, events>>
<1>1. Fresh([v EXCEPT !.todo = Path(v.ask)], ask, by, at, name, key)
  BY BegunFresh
<1>2. session' = [session EXCEPT ![s] = [v EXCEPT !.todo = Path(v.ask)]]
  BY DEF Begin
<1>3. UNCHANGED <<group, standing, node, repo, change, assigned, asked, access, backfilled, events>>
  BY DEF Begin
<1> QED
  BY <1>1, <1>2, <1>3

LEMMA BeginCreateIs ==
  ASSUME Shape, NEW s \in Sessions, BeginCreate(s)
  PROVE  Begins(s) /\ session'[s].ask \in {"system", "deliveryProject", "repository", "form"}
<1>1. PICK u \in Users, r \in Names, n \in Nodes \cup {0}, ask \in {"system", "deliveryProject", "repository", "form"} :
        /\ n = 0 <=> ask \in {"system", "form"}
        /\ ask = "deliveryProject" => Is(n, "system")
        /\ ask = "repository" => Is(n, "deliveryProject")
        /\ Begin(s, [Idle EXCEPT !.ask = ask, !.by = u, !.at = n, !.name = r])
  BY DEF BeginCreate
<1> DEFINE v == ForACreate(ask, u, n, r)
<1>2. v = [todo |-> <<>>, ask |-> ask, by |-> u, at |-> n, name |-> r, key |-> Nobody,
           failed |-> FALSE, clash |-> FALSE, seen |-> 0]
  BY IdleCreate
<1>3. Begin(s, v)
  BY <1>1 DEF ForACreate
<1> HIDE DEF v
<1>4. PICK w : Fresh(w, ask, u, n, r, Nobody) /\ session' = [session EXCEPT ![s] = w]
  BY <1>2, <1>3, BeginIs
<1>5. UNCHANGED <<group, standing, node, repo, change, assigned, asked, access, backfilled, events>>
  BY <1>2, <1>3, BeginIs
<1>6. ask \in RequestKinds /\ r \in Repos /\ Nobody \in Keys \cup {Nobody} /\ New(s)
  BY HierarchyAssumption DEF RequestKinds, BeginCreate
<1>7. /\ ask = "system" => n = 0
      /\ ask = "deliveryProject" => Level(n, {"system"})
      /\ ask = "repository" => Level(n, {"deliveryProject"})
  BY <1>1 DEF Is, Level
<1>8. ask \notin {"close", "reopen", "group", "rename", "archive", "write", "delete"}
  OBVIOUS
<1>9. Begins(s) /\ session'[s].ask = ask
  BY <1>4, <1>5, <1>6, <1>7, <1>8, FreshIs
<1> QED
  BY <1>9

LEMMA BeginChangeIs ==
  ASSUME Shape, NEW s \in Sessions, BeginChange(s)
  PROVE  Begins(s) /\ session'[s].ask \in {"write", "delete", "archive"}
<1>1. PICK u \in Users, n \in Nodes, k \in Keys, ask \in {"write", "delete", "archive"} :
        /\ Stored(n) /\ (ask \in {"write", "delete"} => Is(n, "repository"))
        /\ Begin(s, [Idle EXCEPT !.ask = ask, !.by = u, !.at = n, !.key = k, !.name = node[n].name])
  BY DEF BeginChange
<1> DEFINE r == node[n].name
           v == ForAChange(ask, u, n, k, r)
<1>2. v = [todo |-> <<>>, ask |-> ask, by |-> u, at |-> n, name |-> r, key |-> k,
           failed |-> FALSE, clash |-> FALSE, seen |-> 0]
  BY IdleChange
<1>3. Begin(s, v)
  BY <1>1 DEF ForAChange
<1>4. r \in Repos /\ r = node[n].name
  BY DEF Shape, TreeTypeOK, Node
<1> HIDE DEF v, r
<1>5. PICK w : Fresh(w, ask, u, n, r, k) /\ session' = [session EXCEPT ![s] = w]
  BY <1>2, <1>3, BeginIs
<1>6. UNCHANGED <<group, standing, node, repo, change, assigned, asked, access, backfilled, events>>
  BY <1>2, <1>3, BeginIs
<1>7. ask \in RequestKinds /\ k \in Keys \cup {Nobody} /\ New(s) /\ n \in Nodes \cup {0}
  BY DEF RequestKinds, BeginChange
<1>8. /\ ask = "archive" => Level(n, Levels)
      /\ ask \in {"write", "delete"} => Level(n, {"repository"}) /\ k \in Keys /\ r = node[n].name
  BY <1>1, <1>4 DEF Is, Stored, Level
<1>9. ask \notin {"close", "reopen", "group", "rename", "system", "deliveryProject", "repository"}
  OBVIOUS
<1>10. Begins(s) /\ session'[s].ask = ask
  BY <1>4, <1>5, <1>6, <1>7, <1>8, <1>9, FreshIs
<1> QED
  BY <1>10

LEMMA BeginRenameIs ==
  ASSUME Shape, NEW s \in Sessions, BeginRename(s)
  PROVE  Begins(s) /\ session'[s].ask = "rename"
<1>1. PICK u \in Users, n \in Nodes, r \in Names :
        /\ Is(n, "system") \/ Is(n, "deliveryProject")
        /\ Begin(s, [Idle EXCEPT !.ask = "rename", !.by = u, !.at = n, !.name = r])
  BY DEF BeginRename
<1> DEFINE ask == "rename"
           v == ForACreate(ask, u, n, r)
<1>2. v = [todo |-> <<>>, ask |-> ask, by |-> u, at |-> n, name |-> r, key |-> Nobody,
           failed |-> FALSE, clash |-> FALSE, seen |-> 0]
  BY IdleCreate
<1>3. Begin(s, v)
  BY <1>1 DEF ForACreate
<1> HIDE DEF v
<1>4. PICK w : Fresh(w, ask, u, n, r, Nobody) /\ session' = [session EXCEPT ![s] = w]
  BY <1>2, <1>3, BeginIs
<1>5. UNCHANGED <<group, standing, node, repo, change, assigned, asked, access, backfilled, events>>
  BY <1>2, <1>3, BeginIs
<1>6. ask \in RequestKinds /\ r \in Repos /\ Nobody \in Keys \cup {Nobody} /\ New(s) /\ n \in Nodes \cup {0}
  BY HierarchyAssumption DEF RequestKinds, BeginRename
<1>7. Level(n, {"system", "deliveryProject"})
  BY <1>1 DEF Is, Level
<1>8. ask \notin {"close", "reopen", "group", "archive", "write", "delete", "system", "deliveryProject", "repository"}
  OBVIOUS
<1>9. Begins(s) /\ session'[s].ask = ask
  BY <1>4, <1>5, <1>6, <1>7, <1>8, FreshIs
<1> QED
  BY <1>9

LEMMA BeginOfGroupIs ==
  ASSUME Shape, NEW s \in Sessions, BeginOfGroup(s)
  PROVE  Begins(s) /\ session'[s].ask \in {"close", "reopen", "group"}
<1>1. PICK u \in Users, ask \in {"close", "reopen", "group"} :
        Begin(s, [Idle EXCEPT !.ask = ask, !.by = u])
  BY DEF BeginOfGroup
<1> DEFINE v == [Idle EXCEPT !.ask = ask, !.by = u]
<1>2. v = [todo |-> <<>>, ask |-> ask, by |-> u, at |-> 0, name |-> Linked, key |-> Nobody,
           failed |-> FALSE, clash |-> FALSE, seen |-> 0]
  BY IdleOfGroup
<1>3. Begin(s, v)
  BY <1>1
<1> HIDE DEF v
<1>4. PICK w : Fresh(w, ask, u, 0, Linked, Nobody) /\ session' = [session EXCEPT ![s] = w]
  BY <1>2, <1>3, BeginIs
<1>5. UNCHANGED <<group, standing, node, repo, change, assigned, asked, access, backfilled, events>>
  BY <1>2, <1>3, BeginIs
<1>6. ask \in RequestKinds /\ Linked \in Repos /\ Nobody \in Keys \cup {Nobody} /\ New(s) /\ 0 \in Nodes \cup {0}
  BY HierarchyAssumption DEF RequestKinds, BeginOfGroup
<1>7. ask \notin {"rename", "archive", "write", "delete", "system", "deliveryProject", "repository"}
  OBVIOUS
<1>8. Begins(s) /\ session'[s].ask = ask
  BY <1>4, <1>5, <1>6, <1>7, FreshIs
<1> QED
  BY <1>8

-----------------------------------------------------------------------------
(* The migration.                                                          *)

LEMMA SeqOfSet ==
  ASSUME NEW S, IsFiniteSet(S), NEW rs, rs = SetToSeq(S), NEW k, k = Cardinality(S)
  PROVE  /\ k \in Nat /\ rs \in [1..k -> S] /\ Len(rs) = k
         /\ \A i, j \in 1..k : rs[i] = rs[j] => i = j
         /\ \A x \in S : \E i \in 1..k : rs[i] = x
<1>1. k \in Nat /\ ExistsBijection(1..k, S)
  BY FS_CardinalityType
<1>2. PICK f : f \in Bijection(1..k, S)
  BY <1>1 DEF ExistsBijection
<1>3. f \in [1..k -> S] /\ IsInjective(f)
  BY <1>2 DEF Bijection, Injection, IsInjective
<1>4. rs = CHOOSE g \in [1..k -> S] : IsInjective(g)
  BY DEF SetToSeq
<1>5. rs \in [1..k -> S] /\ IsInjective(rs)
  BY <1>3, <1>4
<1>6. \A i, j \in 1..k : rs[i] = rs[j] => i = j
  BY <1>5 DEF IsInjective
<1>7. rs \in Injection(1..k, S)
  BY <1>5 DEF Injection, IsInjective
<1>8. Cardinality(1..k) = k
  BY <1>1, FS_Interval
<1>9. rs \in Surjection(1..k, S)
  BY <1>7, <1>8, FS_Injection
<1>10. \A x \in S : \E i \in 1..k : rs[i] = x
  BY <1>9 DEF Surjection
<1>11. Len(rs) = k
  BY <1>1, <1>5
<1> QED
  BY <1>1, <1>5, <1>6, <1>10, <1>11

\* The first of some numbers is one of them.
LEMMA FirstIsOne ==
  ASSUME NEW ns \in SUBSET Nodes, ns # {}, MaxNodes \in Nat
  PROVE  FirstOf(ns) \in ns
<1>1. \E n \in ns : \A m \in ns : n <= m
  <2>1. ns \subseteq Nat
    BY DEF Nodes
  <2>2. PICK n \in ns : \A m \in ns : ~ (<<m, n>> \in OpToRel(<, Nat))
    BY <2>1, NatLessThanWellFounded, WFMin, Zenon
  <2>3. \A m \in ns : ~ (m < n)
    BY <2>1, <2>2 DEF OpToRel
  <2> QED
    BY <2>1, <2>3
<1> QED
  BY <1>1 DEF FirstOf

\* What the migration makes of the k projects that are not linked.
Migrates(rs, k, added) ==
  /\ rs \in [1..k -> NotLinked]
  /\ \A i, j \in 1..k : rs[i] = rs[j] => i = j
  /\ \A r \in NotLinked : \E i \in 1..k : rs[i] = r
  /\ \A i \in 1..k :
       /\ added[i] = Made("system", 0, rs[i], "migration")
       /\ added[k + i] = Made("deliveryProject", Rows + i, rs[i], "migration")
       /\ \E n \in Available(rs[i]) \cup {Rows + k + i} :
            added[k + k + i] = Made("repository", n, rs[i], "migration")

LEMMA NotLinkedFinite ==
  IsFiniteSet(NotLinked)
<1>1. IsFiniteSet(Repos)
  BY HierarchyAssumption
<1>2. NotLinked \in SUBSET Repos
  BY DEF NotLinked
<1> QED
  BY <1>1, <1>2, FS_Subset

LEMMA ThreeRows ==
  ASSUME NEW k \in Nat, NEW a, NEW b, NEW c, DOMAIN a = 1..k, DOMAIN b = 1..k, DOMAIN c = 1..k,
         a = [i \in 1..k |-> a[i]], b = [i \in 1..k |-> b[i]], c = [i \in 1..k |-> c[i]]
  PROVE  /\ DOMAIN (a \o b \o c) = 1..(k + k + k)
         /\ \A i \in 1..k : /\ (a \o b \o c)[i] = a[i] /\ (a \o b \o c)[k + i] = b[i]
                            /\ (a \o b \o c)[k + k + i] = c[i]
<1> DEFINE V == {a[i] : i \in 1..k} \cup {b[i] : i \in 1..k} \cup {c[i] : i \in 1..k}
<1>1. a \in [1..k -> V] /\ b \in [1..k -> V] /\ c \in [1..k -> V]
  OBVIOUS
<1> HIDE DEF V
<1>2. a \in Seq(V) /\ b \in Seq(V) /\ c \in Seq(V) /\ Len(a) = k /\ Len(b) = k /\ Len(c) = k
  BY <1>1
<1>3. a \o b \in Seq(V) /\ Len(a \o b) = k + k
  BY <1>2
<1>4. \A i \in 1..k : (a \o b)[i] = a[i] /\ (a \o b)[k + i] = b[i]
  BY <1>2
<1>5. (a \o b) \o c \in Seq(V) /\ Len((a \o b) \o c) = k + k + k
  BY <1>2, <1>3
<1>6. /\ \A i \in 1..(k + k) : ((a \o b) \o c)[i] = (a \o b)[i]
      /\ \A i \in 1..k : ((a \o b) \o c)[k + k + i] = c[i]
  BY <1>2, <1>3
<1>7. \A i \in 1..k : i \in 1..(k + k) /\ k + i \in 1..(k + k)
  OBVIOUS
<1>8. DOMAIN (a \o b \o c) = 1..(k + k + k)
  BY <1>5
<1> QED
  BY <1>4, <1>6, <1>7, <1>8

LEMMA BackfillIs ==
  ASSUME Shape, Backfill
  PROVE  /\ UNCHANGED <<group, standing, repo, change, assigned, asked, access, session, events>>
         /\ ~backfilled /\ backfilled' = TRUE
         /\ \E k \in Nat : \E rs, added : Migrates(rs, k, added) /\ Grown(added, k + k + k)
<1> DEFINE rs == SetToSeq(NotLinked)
           k == Cardinality(NotLinked)
           under(i) == IF Available(rs[i]) # {} THEN FirstOf(Available(rs[i])) ELSE Rows + k + i
           systems == [i \in 1..k |-> Made("system", 0, rs[i], "migration")]
           projects == [i \in 1..k |-> Made("deliveryProject", Rows + i, rs[i], "migration")]
           repositories == [i \in 1..k |-> Made("repository", under(i), rs[i], "migration")]
           added == systems \o projects \o repositories
<1>1. /\ k \in Nat /\ rs \in [1..k -> NotLinked] /\ Len(rs) = k
      /\ \A i, j \in 1..k : rs[i] = rs[j] => i = j
      /\ \A x \in NotLinked : \E i \in 1..k : rs[i] = x
  BY NotLinkedFinite, SeqOfSet
<1>2. Room(3 * k) /\ node' = Inserted(added)
  BY <1>1 DEF Backfill
<1>3. Rows + (k + k + k) <= MaxNodes /\ Rows \in Nat /\ MaxNodes \in Nat
  <2>1. 3 * k = k + k + k
    BY <1>1
  <2>2. Rows + 3 * k <= MaxNodes
    BY <1>2 DEF Room
  <2>3. Rows \in Nat /\ MaxNodes \in Nat
    BY HierarchyAssumption DEF Shape, Numbered
  <2> QED
    BY <2>1, <2>2, <2>3
<1>4. \A i \in 1..k : under(i) \in Available(rs[i]) \cup {Rows + k + i}
  <2> TAKE i \in 1..k
  <2>1. CASE Available(rs[i]) # {}
    <3>1. Available(rs[i]) \in SUBSET Nodes
      BY DEF Available
    <3>2. FirstOf(Available(rs[i])) \in Available(rs[i])
      BY <2>1, <3>1, <1>3, FirstIsOne
    <3> QED
      BY <2>1, <3>2
  <2>2. CASE Available(rs[i]) = {}
    BY <2>2
  <2> QED
    BY <2>1, <2>2
<1>5. \A i \in 1..k : under(i) \in Nodes /\ Rows + i \in Nodes /\ rs[i] \in Repos
  <2> TAKE i \in 1..k
  <2>1. Rows + k + i \in Nodes /\ Rows + i \in Nodes
    BY <1>1, <1>3 DEF Nodes
  <2>2. Available(rs[i]) \subseteq Nodes
    BY DEF Available
  <2>3. rs[i] \in NotLinked
    BY <1>1
  <2>4. rs[i] \in Repos
    BY <2>3 DEF NotLinked
  <2>5. under(i) \in Available(rs[i]) \cup {Rows + k + i}
    BY <1>4
  <2> HIDE DEF rs, k, under
  <2> QED
    BY <2>1, <2>2, <2>4, <2>5
<1> DEFINE s1(i) == Made("system", 0, rs[i], "migration")
           s2(i) == Made("deliveryProject", Rows + i, rs[i], "migration")
           s3(i) == Made("repository", under(i), rs[i], "migration")
<1>6. systems = [i \in 1..k |-> s1(i)] /\ projects = [i \in 1..k |-> s2(i)] /\ repositories = [i \in 1..k |-> s3(i)]
  OBVIOUS
<1>7. \A i \in 1..k : s1(i) \in Node /\ s2(i) \in Node /\ s3(i) \in Node
                      /\ s1(i).level # "none" /\ s2(i).level # "none" /\ s3(i).level # "none"
  <2> TAKE i \in 1..k
  <2> DEFINE r == rs[i]
             m == under(i)
             base == Rows + i
  <2>1. r \in Repos /\ m \in Nodes /\ base \in Nodes
    BY <1>5
  <2> HIDE DEF r, m, base
  <2>2. /\ Made("system", 0, r, "migration") \in Node /\ Made("system", 0, r, "migration").level # "none"
        /\ Made("deliveryProject", base, r, "migration") \in Node
        /\ Made("deliveryProject", base, r, "migration").level # "none"
        /\ Made("repository", m, r, "migration") \in Node /\ Made("repository", m, r, "migration").level # "none"
    BY <2>1 DEF Made, Node, Levels, Makers
  <2> QED
    BY <2>2 DEF r, m, base
<1>8. \A i \in 1..k : \E n \in Available(rs[i]) \cup {Rows + k + i} :
        s3(i) = Made("repository", n, rs[i], "migration")
  BY <1>4
<1>9. \A i \in 1..k : s1(i) = Made("system", 0, rs[i], "migration")
                      /\ s2(i) = Made("deliveryProject", Rows + i, rs[i], "migration")
  OBVIOUS
<1> HIDE DEF s1, s2, s3, systems, projects, repositories, rs, k, under
<1>10. /\ DOMAIN systems = 1..k /\ DOMAIN projects = 1..k /\ DOMAIN repositories = 1..k
       /\ systems = [i \in 1..k |-> systems[i]] /\ projects = [i \in 1..k |-> projects[i]]
       /\ repositories = [i \in 1..k |-> repositories[i]]
       /\ \A i \in 1..k : systems[i] = s1(i) /\ projects[i] = s2(i) /\ repositories[i] = s3(i)
  BY <1>6
<1>11. /\ DOMAIN added = 1..(k + k + k)
       /\ \A i \in 1..k : added[i] = s1(i) /\ added[k + i] = s2(i) /\ added[k + k + i] = s3(i)
  BY <1>1, <1>10, ThreeRows
<1> HIDE DEF added
<1>12. \A i \in 1..(k + k + k) : added[i] \in Node /\ added[i].level # "none"
  <2> TAKE i \in 1..(k + k + k)
  <2>1. CASE i \in 1..k
    BY <2>1, <1>7, <1>11
  <2>2. CASE i - k \in 1..k
    <3>1. i = k + (i - k)
      BY <1>1
    <3> QED
      BY <2>2, <3>1, <1>7, <1>11
  <2>3. CASE i - (k + k) \in 1..k
    <3>1. i = k + k + (i - (k + k))
      BY <1>1
    <3> QED
      BY <2>3, <3>1, <1>7, <1>11
  <2>4. i \in 1..k \/ i - k \in 1..k \/ i - (k + k) \in 1..k
    BY <1>1
  <2> QED
    BY <2>1, <2>2, <2>3, <2>4
<1>13. k + k + k \in Nat
  BY <1>1
<1>14. Grown(added, k + k + k)
  BY <1>2, <1>3, <1>11, <1>12, <1>13, InsertedIs
<1>15. Migrates(rs, k, added)
  BY <1>1, <1>8, <1>9, <1>11 DEF Migrates
<1>16. /\ UNCHANGED <<group, standing, repo, change, assigned, asked, access, session, events>>
       /\ ~backfilled /\ backfilled' = TRUE
  BY DEF Backfill
<1> QED
  BY <1>1, <1>14, <1>15, <1>16

-----------------------------------------------------------------------------
(* The shape of the state.                                                 *)

Left(todo) == Len(Tail(todo))
End(todo) == Last(Tail(todo))

LEMMA TailLens ==
  /\ Left(AtProject) = 1
  /\ Left(AtRepo) = 2
  /\ Left(AskRepo) = 3
  /\ Left(AtDelivery) = 4
  /\ Left(AskDelivery) = 5
  /\ Left(AtSystem) = 6
  /\ Left(AskSystem) = 7
  /\ Left(AtSend) = 1
  /\ Left(AskSend) = 2
<1>1. Left(AtProject) = 1
  BY TodoTails, TodoLasts DEF Left
<1>2. Left(AtRepo) = 2
  BY TodoTails, TodoLasts DEF Left
<1>3. Left(AskRepo) = 3
  BY TodoTails, TodoLasts DEF Left
<1>4. Left(AtDelivery) = 4
  BY TodoTails, TodoLasts DEF Left
<1>5. Left(AskDelivery) = 5
  BY TodoTails, TodoLasts DEF Left
<1>6. Left(AtSystem) = 6
  BY TodoTails, TodoLasts DEF Left
<1>7. Left(AskSystem) = 7
  BY TodoTails, TodoLasts DEF Left
<1>8. Left(AtSend) = 1
  BY TodoTails, TodoLasts DEF Left
<1>9. Left(AskSend) = 2
  BY TodoTails, TodoLasts DEF Left
<1> QED
  BY <1>1, <1>2, <1>3, <1>4, <1>5, <1>6, <1>7, <1>8, <1>9

\* Where one is after a step tells where one was.
LEMMA TodoWas ==
  ASSUME NEW todo \in Befores
  PROVE  /\ Tail(todo) \in {AskSystem, AtSystem} => todo = AskSystem
         /\ Tail(todo) \in BelowSystem => todo \in {AtSystem, AskDelivery}
         /\ Tail(todo) \in {AskBranch, AtBranch} => todo = AskBranch
         /\ Tail(todo) \in BelowDelivery => todo \in {AtDelivery, AskRepo, AtRepo, AtProject}
         /\ Tail(todo) \in {AskRename, AtRename} => todo = AskRename
         /\ Tail(todo) \in {AskArchive, AtArchive} => todo = AskArchive
         /\ Tail(todo) \in {AskStatus, AtStatus, AskDrop, AtDrop} => todo \in {AskStatus, AskDrop}
         /\ Tail(todo) \in Owning => todo \in {AtRepo, AtProject, AtForm, AtFind}
         /\ Tail(todo) = AtRecord => todo = AtSend
<1>1. /\ todo \in {AtProject, AtRepo, AskRepo} => End(todo) = "row"
      /\ todo \in {AtDelivery, AskDelivery, AtSystem, AskSystem} => End(todo) = "row"
      /\ todo \in {AtFind, AtForm} => End(todo) = "link"
      /\ todo \in {AtSend, AskSend} => End(todo) = "record"
      /\ todo = AskBranch => End(todo) = "deliveryProject"
      /\ todo = AskArchive => End(todo) = "archive"
      /\ todo = AskRename => End(todo) = "rename"
      /\ todo = AskStatus => End(todo) = "status"
      /\ todo = AskDrop => End(todo) = "drop"
  <2>1. todo \in {AtProject, AtRepo, AskRepo} => End(todo) = "row"
    BY TodoTails, TodoLasts DEF End
  <2>2. todo \in {AtDelivery, AskDelivery, AtSystem, AskSystem} => End(todo) = "row"
    BY TodoTails, TodoLasts DEF End
  <2>3. todo \in {AtFind, AtForm} => End(todo) = "link"
    BY TodoTails, TodoLasts DEF End
  <2>4. todo \in {AtSend, AskSend} => End(todo) = "record"
    BY TodoTails, TodoLasts DEF End
  <2>5. todo = AskBranch => End(todo) = "deliveryProject"
    BY TodoTails, TodoLasts DEF End
  <2>6. todo = AskArchive => End(todo) = "archive"
    BY TodoTails, TodoLasts DEF End
  <2>7. todo = AskRename => End(todo) = "rename"
    BY TodoTails, TodoLasts DEF End
  <2>8. todo = AskStatus => End(todo) = "status"
    BY TodoTails, TodoLasts DEF End
  <2>9. todo = AskDrop => End(todo) = "drop"
    BY TodoTails, TodoLasts DEF End
  <2> QED
    BY <2>1, <2>2, <2>3, <2>4, <2>5, <2>6, <2>7, <2>8, <2>9
<1>2. \/ todo \in {AtProject, AtRepo, AskRepo, AtDelivery, AskDelivery, AtSystem, AskSystem}
      \/ todo \in {AtFind, AtForm} \/ todo \in {AtSend, AskSend} \/ todo = AskBranch
      \/ todo = AskArchive \/ todo = AskRename \/ todo = AskStatus \/ todo = AskDrop
  BY DEF Befores
<1>3. /\ End(todo) = "row" => todo \in {AtProject, AtRepo, AskRepo, AtDelivery, AskDelivery, AtSystem, AskSystem}
      /\ End(todo) = "link" => todo \in {AtFind, AtForm}
      /\ End(todo) = "record" => todo \in {AtSend, AskSend}
      /\ End(todo) = "deliveryProject" => todo = AskBranch
      /\ End(todo) = "archive" => todo = AskArchive
      /\ End(todo) = "rename" => todo = AskRename
      /\ End(todo) = "status" => todo = AskStatus
      /\ End(todo) = "drop" => todo = AskDrop
  BY <1>1, <1>2
<1>5. Tail(todo) \in {AskSystem, AtSystem} => todo = AskSystem
  <2>1. SUFFICES ASSUME Tail(todo) \in {AskSystem, AtSystem} PROVE todo = AskSystem
    OBVIOUS
  <2>2. End(todo) = "row" /\ Left(todo) \in {7, 8}
    BY <2>1, TodoLasts DEF Left, End
  <2> QED
    BY <2>2, <1>3, TailLens
<1>6. Tail(todo) \in BelowSystem => todo \in {AtSystem, AskDelivery}
  <2>1. SUFFICES ASSUME Tail(todo) \in BelowSystem PROVE todo \in {AtSystem, AskDelivery}
    OBVIOUS
  <2>2. End(todo) = "row" /\ Left(todo) \in {5, 6}
    BY <2>1, TodoLasts DEF BelowSystem, Left, End
  <2> QED
    BY <2>2, <1>3, TailLens
<1>7. Tail(todo) \in {AskBranch, AtBranch} => todo = AskBranch
  BY <1>3, TodoLasts DEF End
<1>8. Tail(todo) \in BelowDelivery => todo \in {AtDelivery, AskRepo, AtRepo, AtProject}
  <2>1. SUFFICES ASSUME Tail(todo) \in BelowDelivery PROVE todo \in {AtDelivery, AskRepo, AtRepo, AtProject}
    OBVIOUS
  <2>2. End(todo) = "row" /\ Left(todo) \in {1, 2, 3, 4}
    BY <2>1, TodoLasts DEF BelowDelivery, Left, End
  <2> QED
    BY <2>2, <1>3, TailLens
<1>9. /\ Tail(todo) \in {AskRename, AtRename} => todo = AskRename
      /\ Tail(todo) \in {AskArchive, AtArchive} => todo = AskArchive
      /\ Tail(todo) \in {AskStatus, AtStatus, AskDrop, AtDrop} => todo \in {AskStatus, AskDrop}
  BY <1>3, TodoLasts DEF End
<1>10. Tail(todo) \in Owning => todo \in {AtRepo, AtProject, AtForm, AtFind}
  <2>1. SUFFICES ASSUME Tail(todo) \in Owning PROVE todo \in {AtRepo, AtProject, AtForm, AtFind}
    OBVIOUS
  <2>2. CASE Tail(todo) \in {AtProject, AtRow}
    <3>1. End(todo) = "row" /\ Left(todo) \in {1, 2}
      BY <2>2, TodoLasts DEF Left, End
    <3> QED
      BY <3>1, <1>3, TailLens
  <2>3. CASE Tail(todo) \in {AtFind, AtLink}
    BY <2>3, <1>3, TodoLasts DEF End
  <2> QED
    BY <2>1, <2>2, <2>3 DEF Owning
<1>11. Tail(todo) = AtRecord => todo = AtSend
  <2>1. SUFFICES ASSUME Tail(todo) = AtRecord PROVE todo = AtSend
    OBVIOUS
  <2>2. End(todo) = "record" /\ Left(todo) = 1
    BY <2>1, TodoLasts DEF Left, End
  <2> QED
    BY <2>2, <1>3, TailLens
<1> QED
  BY <1>5, <1>6, <1>7, <1>8, <1>9, <1>10, <1>11

\* What no step takes from a row.
Persist ==
  \A n \in Nodes : node[n].level # "none" =>
    /\ node'[n].level = node[n].level \/ node'[n].level = "gone"
    /\ node'[n].parent = node[n].parent /\ node'[n].by = node[n].by
    /\ node[n].level \in {"repository", "gone"} => node'[n].name = node[n].name

LevelAfter(n, of) == n \in Nodes /\ node'[n].level \in of \cup {"gone"}

LEMMA LevelPersists ==
  ASSUME Persist, NEW n, NEW of, Level(n, of), "none" \notin of
  PROVE  LevelAfter(n, of) /\ (of \subseteq {"repository"} => node'[n].name = node[n].name)
  BY DEF Persist, Level, LevelAfter

\* A request that is where it was is as well placed as it was.
LEMMA PlacedStays ==
  ASSUME Persist, NEW t, Placed(session[t]), session'[t].todo = session[t].todo, session'[t].ask = session[t].ask,
         session'[t].at = session[t].at, session'[t].name = session[t].name, session'[t].key = session[t].key
  PROVE  Placed(session[t])'
<1>1. /\ Level(session[t].at, {"system"}) => LevelAfter(session[t].at, {"system"})
      /\ Level(session[t].at, {"deliveryProject"}) => LevelAfter(session[t].at, {"deliveryProject"})
      /\ Level(session[t].at, {"system", "deliveryProject"}) => LevelAfter(session[t].at, {"system", "deliveryProject"})
      /\ Level(session[t].at, Levels) => LevelAfter(session[t].at, Levels)
      /\ Level(session[t].at, {"repository"}) =>
           LevelAfter(session[t].at, {"repository"}) /\ node'[session[t].at].name = node[session[t].at].name
  BY DEF Levels, Persist, Level, LevelAfter
<1> QED
  BY <1>1 DEF Placed, Levels, Level, LevelAfter, Nodes

SoundAfter == Requests /\ \A t \in Sessions : RequestTyped(session[t])' /\ Placed(session[t])'

LEMMA NodeKept ==
  ASSUME node' = node
  PROVE  Persist
  BY DEF Persist

LEMMA OthersTyped ==
  ASSUME Shape, Time, NEW t \in Sessions, session'[t] = session[t]
  PROVE  RequestTyped(session[t])'
<1>1. RequestTyped(session[t]) /\ events \in Nat
  BY RunningIs, HierarchyAssumption DEF Shape, TreeTypeOK
<1>2. session[t].seen \in 0..events'
  BY <1>1, TypedLater
<1> QED
  BY <1>1, <1>2 DEF RequestTyped

LEMMA OthersPlaced ==
  ASSUME Shape, Persist, NEW t \in Sessions, session'[t] = session[t]
  PROVE  Placed(session[t])'
  BY RunningIs, PlacedStays

LEMMA EndsSound ==
  ASSUME Shape, Time, Persist, NEW s \in Sessions, NEW failed, Ends(s, failed)
  PROVE  SoundAfter
<1>1. Placed(session[s])'
  <2>1. session'[s].todo = <<>> /\ session'[s].ask = session[s].ask /\ session'[s].key = session[s].key
        /\ (session[s].ask \in {"write", "delete"} => session'[s].at = session[s].at)
    BY DEF Ends
  <2>2. session[s].ask \in {"write", "delete"} => Level(session[s].at, {"repository"}) /\ session[s].key \in Keys
    BY RunningIs DEF Placed
  <2>3. session'[s].ask \in {"write", "delete"} => LevelAfter(session[s].at, {"repository"}) /\ session'[s].key \in Keys
    BY <2>1, <2>2, LevelPersists
  <2>4. session'[s].ask \in {"write", "delete"} => LevelAfter(session'[s].at, {"repository"}) /\ session'[s].key \in Keys
    BY <2>1, <2>3
  <2>5. session'[s].todo \notin Lasts \cup Befores
    BY <2>1, TodoLens
  <2>6. /\ session'[s].todo \notin {AskSystem, AtSystem} /\ session'[s].todo \notin BelowSystem \cup {AskBranch, AtBranch}
        /\ session'[s].todo \notin BelowDelivery /\ session'[s].todo \notin {AskRename, AtRename}
        /\ session'[s].todo \notin {AskArchive, AtArchive} /\ session'[s].todo \notin {AskStatus, AtStatus, AskDrop, AtDrop}
    BY <2>5 DEF Lasts, Befores, BelowSystem, BelowDelivery
  <2> QED
    BY <2>1, <2>4, <2>6 DEF Placed, Level, LevelAfter, Nodes
<1>2. ASSUME NEW t \in Sessions PROVE RequestTyped(session[t])' /\ Placed(session[t])'
  <2>1. CASE t = s
    BY <2>1, <1>1 DEF Ends
  <2>2. CASE t # s
    BY <2>2, OthersTyped, OthersPlaced DEF Ends, Others
  <2> QED
    BY <2>1, <2>2
<1> QED
  BY <1>2 DEF SoundAfter, Ends

LEMMA GoesIsRunning ==
  ASSUME Shape, NEW s \in Sessions, NEW at, NEW seen, Goes(s, at, seen), session[s].todo # <<>>
  PROVE  session[s].todo \in Befores /\ session'[s].todo = Tail(session[s].todo)
<1>1. session[s].todo \in Lasts \cup Befores /\ (session[s].todo \in Lasts => Tail(session[s].todo) = <<>>)
  BY RunningIs, TodoIs
<1>2. session'[s].todo = Tail(session[s].todo) /\ session'[s].todo # <<>>
  BY DEF Goes
<1> QED
  BY <1>1, <1>2

\* One goes on in a place that fits what is left to do.
LEMMA GoesSound ==
  ASSUME Shape, Time, Persist, NEW s \in Sessions, NEW at, NEW seen, Goes(s, at, seen),
         session[s].todo # <<>>,
         session[s].todo \notin {AtSystem, AtDelivery} => at = session[s].at,
         session[s].todo = AtSystem => LevelAfter(at, {"system"}),
         session[s].todo = AtDelivery => LevelAfter(at, {"deliveryProject"})
  PROVE  SoundAfter
<1>1. session[s].todo \in Befores /\ session'[s].todo = Tail(session[s].todo) /\ Placed(session[s])
  BY GoesIsRunning, RunningIs
<1>2. session'[s].ask = session[s].ask /\ session'[s].key = session[s].key /\ session'[s].name = session[s].name
      /\ session'[s].at = at
  BY DEF Goes
<1> DEFINE now == session'[s].todo
           todo == session[s].todo
<1>3. todo \in Todos(session[s].ask)
  BY RunningIs
<1>4. now \in {AskSystem, AtSystem} => at = 0
  <2>1. now \in {AskSystem, AtSystem} => todo = AskSystem
    BY <1>1, TodoWas
  <2>2. AskSystem \notin {AtSystem, AtDelivery}
    BY NotInserting
  <2> QED
    BY <2>1, <2>2, <1>1 DEF Placed
<1>5. now \in BelowSystem \cup {AskBranch, AtBranch} => LevelAfter(at, {"system"})
  <2>1. now \in BelowSystem \cup {AskBranch, AtBranch} => todo \in {AtSystem, AskDelivery, AskBranch}
    BY <1>1, TodoWas
  <2>2. AskDelivery \notin {AtSystem, AtDelivery} /\ AskBranch \notin {AtSystem, AtDelivery}
    BY NotInserting
  <2>3. todo \in {AskDelivery, AskBranch} => Level(session[s].at, {"system"}) /\ at = session[s].at
    BY <2>2, <1>1 DEF Placed, BelowSystem
  <2>4. todo \in {AskDelivery, AskBranch} => LevelAfter(at, {"system"})
    BY <2>3, LevelPersists
  <2> QED
    BY <2>1, <2>4
<1>6. now \in BelowDelivery => LevelAfter(at, {"deliveryProject"})
  <2>1. now \in BelowDelivery => todo \in {AtDelivery, AskRepo, AtRepo, AtProject}
    BY <1>1, TodoWas
  <2>2. AskRepo \notin {AtSystem, AtDelivery} /\ AtRepo \notin {AtSystem, AtDelivery} /\ AtProject \notin {AtSystem, AtDelivery}
    BY NotInserting
  <2>3. todo \in {AskRepo, AtRepo, AtProject} => Level(session[s].at, {"deliveryProject"}) /\ at = session[s].at
    BY <2>2, <1>1 DEF Placed, BelowDelivery
  <2>4. todo \in {AskRepo, AtRepo, AtProject} => LevelAfter(at, {"deliveryProject"})
    BY <2>3, LevelPersists
  <2> QED
    BY <2>1, <2>4
<1>7. todo \notin BelowDelivery \cup BelowSystem \cup {AtSystem} => at = session[s].at
  BY DEF BelowDelivery, BelowSystem
<1>8. now \in {AskRename, AtRename} => LevelAfter(at, {"system", "deliveryProject"})
  <2>1. now \in {AskRename, AtRename} => todo = AskRename
    BY <1>1, TodoWas
  <2>2. AskRename \notin {AtSystem, AtDelivery}
    BY TodoLasts
  <2>3. todo = AskRename => Level(session[s].at, {"system", "deliveryProject"}) /\ at = session[s].at
    BY <2>2, <1>1 DEF Placed
  <2>4. todo = AskRename => LevelAfter(at, {"system", "deliveryProject"})
    BY <2>3, LevelPersists
  <2> QED
    BY <2>1, <2>4
<1>9. now \in {AskArchive, AtArchive} => LevelAfter(at, Levels)
  <2>1. now \in {AskArchive, AtArchive} => todo = AskArchive
    BY <1>1, TodoWas
  <2>2. AskArchive \notin {AtSystem, AtDelivery} /\ "none" \notin Levels
    BY TodoLasts DEF Levels
  <2>3. todo = AskArchive => Level(session[s].at, Levels) /\ at = session[s].at
    BY <2>2, <1>1 DEF Placed
  <2>4. todo = AskArchive => LevelAfter(at, Levels)
    BY <2>2, <2>3, LevelPersists
  <2> QED
    BY <2>1, <2>4
<1>10. now \in {AskStatus, AtStatus, AskDrop, AtDrop} => at = 0
  <2>1. now \in {AskStatus, AtStatus, AskDrop, AtDrop} => todo \in {AskStatus, AskDrop}
    BY <1>1, TodoWas
  <2>2. AskStatus \notin {AtSystem, AtDelivery} /\ AskDrop \notin {AtSystem, AtDelivery}
    BY TodoLasts
  <2> QED
    BY <2>1, <2>2, <1>1 DEF Placed
<1>11. session'[s].ask \in {"write", "delete"} =>
         LevelAfter(at, {"repository"}) /\ session'[s].key \in Keys /\ session'[s].name = node'[at].name
  <2>1. SUFFICES ASSUME session[s].ask \in {"write", "delete"}
                 PROVE  LevelAfter(at, {"repository"}) /\ session[s].key \in Keys /\ session[s].name = node'[at].name
    BY <1>2
  <2>2. todo \notin {AtSystem, AtDelivery}
    BY <2>1, <1>3, TodoAsk DEF BelowSystem
  <2>3. at = session[s].at /\ Level(session[s].at, {"repository"}) /\ session[s].key \in Keys
        /\ session[s].name = node[session[s].at].name
    BY <2>1, <2>2, <1>1 DEF Placed
  <2> QED
    BY <2>3, LevelPersists
<1>12. Placed(session[s])'
  BY <1>2, <1>4, <1>5, <1>6, <1>8, <1>9, <1>10, <1>11 DEF Placed, Level, LevelAfter, Nodes, Levels
<1>13. ASSUME NEW t \in Sessions PROVE RequestTyped(session[t])' /\ Placed(session[t])'
  <2>1. CASE t = s
    BY <2>1, <1>12 DEF Goes
  <2>2. CASE t # s
    BY <2>2, OthersTyped, OthersPlaced DEF Goes, Others
  <2> QED
    BY <2>1, <2>2
<1> QED
  BY <1>13 DEF SoundAfter, Goes

LEMMA BeginsSound ==
  ASSUME Shape, NEW s \in Sessions, Begins(s)
  PROVE  SoundAfter
<1>1. Persist /\ Time
  BY NodeKept DEF Begins, Time
<1>2. ASSUME NEW t \in Sessions PROVE RequestTyped(session[t])' /\ Placed(session[t])'
  <2>1. CASE t = s
    BY <2>1 DEF Begins
  <2>2. CASE t # s
    BY <2>2, <1>1, OthersTyped, OthersPlaced DEF Begins, Others
  <2> QED
    BY <2>1, <2>2
<1> QED
  BY <1>2 DEF SoundAfter, Begins

\* Of the others a request that sends a variable changes no more than that they clash.
LEMMA SendsOthers ==
  ASSUME Shape, NEW s \in Sessions, Sends(s), NEW t \in Sessions, t # s
  PROVE  /\ session'[t].todo = session[t].todo /\ session'[t].ask = session[t].ask /\ session'[t].by = session[t].by
         /\ session'[t].at = session[t].at /\ session'[t].name = session[t].name /\ session'[t].key = session[t].key
         /\ session'[t].failed = session[t].failed /\ session'[t].seen = session[t].seen
         /\ t \in Crossing(s) => session'[t].clash = TRUE
         /\ t \notin Crossing(s) => session'[t] = session[t]
         /\ events' = events => RequestTyped(session[t])'
<1> DEFINE a == session[t]
           w == session'[t]
<1>1. RequestTyped(a) /\ (t \in Crossing(s) => w = [a EXCEPT !.clash = TRUE]) /\ (t \notin Crossing(s) => w = a)
  BY RunningIs DEF Sends
<1>2. CASE t \notin Crossing(s)
  BY <1>1, <1>2 DEF RequestTyped
<1>3. CASE t \in Crossing(s)
  <2>1. w = [a EXCEPT !.clash = TRUE]
    BY <1>1, <1>3
  <2> HIDE DEF a, w
  <2>2. /\ w = [todo |-> a.todo, ask |-> a.ask, by |-> a.by, at |-> a.at, name |-> a.name, key |-> a.key,
                failed |-> a.failed, clash |-> TRUE, seen |-> a.seen]
        /\ w.todo = a.todo /\ w.ask = a.ask /\ w.by = a.by /\ w.at = a.at /\ w.name = a.name /\ w.key = a.key
        /\ w.failed = a.failed /\ w.clash = TRUE /\ w.seen = a.seen
    BY ONLY <1>1, <2>1, ClashSet
  <2>3. RequestTyped(w)
    BY <1>1, <2>2 DEF RequestTyped
  <2> QED
    BY <2>2, <2>3, <1>3 DEF a, w, RequestTyped
<1> QED
  BY <1>2, <1>3

LEMMA SendsSound ==
  ASSUME Shape, NEW s \in Sessions, Sends(s), node' = node, events' = events,
         session[s].ask \in {"write", "delete"}, session[s].todo = AtSend
  PROVE  SoundAfter
<1>1. Persist
  BY NodeKept
<1>2. Placed(session[s])'
  <2>1. session'[s].todo = AtRecord /\ session'[s].ask = session[s].ask /\ session'[s].key = session[s].key
        /\ session'[s].name = session[s].name /\ session'[s].at = session[s].at
    BY DEF Sends
  <2>2. AtSend # <<>> /\ Placed(session[s])
    BY TodoLens, RunningIs DEF Befores
  <2>3. Level(session[s].at, {"repository"}) /\ session[s].key \in Keys /\ session[s].name = node[session[s].at].name
    BY <2>2 DEF Placed
  <2>4. Last(AtRecord) = "record"
    BY TodoLasts
  <2>5. /\ AtRecord \notin {AskSystem, AtSystem} /\ AtRecord \notin BelowSystem \cup {AskBranch, AtBranch}
        /\ AtRecord \notin BelowDelivery /\ AtRecord \notin {AskRename, AtRename}
        /\ AtRecord \notin {AskArchive, AtArchive} /\ AtRecord \notin {AskStatus, AtStatus, AskDrop, AtDrop}
    BY TodoLasts DEF BelowSystem, BelowDelivery
  <2> QED
    BY <2>1, <2>3, <2>5 DEF Placed, Level, LevelAfter, Nodes
<1>3. ASSUME NEW t \in Sessions PROVE RequestTyped(session[t])' /\ Placed(session[t])'
  <2>1. CASE t = s
    BY <2>1, <1>2 DEF Sends
  <2>2. CASE t # s
    BY <2>2, <1>1, SendsOthers, RunningIs, PlacedStays
  <2> QED
    BY <2>1, <2>2
<1> QED
  BY <1>3 DEF SoundAfter, Sends

LEMMA ShapeIs ==
  ASSUME SoundAfter, events' \in 0..MaxEvents,
         group' \in {"active", "archived", "deleted"}, backfilled' \in BOOLEAN, standing' \in [Users -> Standings],
         node' \in [Nodes -> Node], repo' \in [Repos -> Repo],
         change' \in [Nodes -> [Keys -> {"none", "create", "delete"}]],
         assigned' \subseteq Users \X Nodes, asked' \subseteq Users \X Nodes, access' \subseteq Users \X Nodes,
         Numbered', Tree', Deleted'
  PROVE  Shape'
<1>1. ASSUME NEW t \in Sessions PROVE session'[t] \in Session
  <2> DEFINE v == session'[t]
  <2>1. /\ v.todo \in Todos(v.ask) /\ v.ask \in RequestKinds \cup {"none"} /\ v.by \in Users
        /\ v.at \in Nodes \cup {0} /\ v.name \in Repos /\ v.key \in Keys \cup {Nobody}
        /\ v.failed \in BOOLEAN /\ v.clash \in BOOLEAN /\ v.seen \in 0..events'
        /\ v = [todo |-> v.todo, ask |-> v.ask, by |-> v.by, at |-> v.at, name |-> v.name, key |-> v.key,
                failed |-> v.failed, clash |-> v.clash, seen |-> v.seen]
    BY DEF SoundAfter, RequestTyped
  <2> DEFINE what == {"right", "form", "find", "link", "repo", "project", "row", "send", "record", "archive", "rename",
                      "status", "drop"} \cup Levels
  <2>2. v.todo \in Seq(what)
    BY <2>1, TodoTyped
  <2>3. MaxEvents \in Nat
    BY HierarchyAssumption
  <2> HIDE DEF what, v
  <2>4. v.seen \in 0..MaxEvents
    BY <2>1, <2>3
  <2>5. v \in [todo : Seq(what), ask : RequestKinds \cup {"none"}, by : Users, at : Nodes \cup {0}, name : Repos,
               key : Keys \cup {Nobody}, failed : BOOLEAN, clash : BOOLEAN, seen : 0..MaxEvents]
    BY <2>1, <2>2, <2>4
  <2> QED
    BY <2>5 DEF Session, what, v
<1>2. session' \in [Sessions -> Session]
  BY <1>1 DEF SoundAfter, Requests
<1>3. TreeTypeOK'
  BY <1>2 DEF TreeTypeOK, Nodes, Node, Repo, Session, Standings, RequestKinds, Levels, Makers
<1> QED
  BY <1>3 DEF Shape, SoundAfter

LEMMA TypesAre ==
  ASSUME Shape
  PROVE  /\ events \in 0..MaxEvents /\ MaxEvents \in Nat /\ MaxNodes \in Nat
         /\ group \in {"active", "archived", "deleted"} /\ backfilled \in BOOLEAN /\ standing \in [Users -> Standings]
         /\ node \in [Nodes -> Node] /\ repo \in [Repos -> Repo]
         /\ change \in [Nodes -> [Keys -> {"none", "create", "delete"}]]
         /\ assigned \subseteq Users \X Nodes /\ asked \subseteq Users \X Nodes /\ access \subseteq Users \X Nodes
         /\ Numbered /\ Tree /\ Deleted
  BY HierarchyAssumption DEF Shape, TreeTypeOK

\* Only requests move.
LEMMA ShapeStill ==
  ASSUME Shape, SoundAfter, events' \in 0..MaxEvents,
         UNCHANGED <<group, standing, node, repo, change, assigned, asked, access, backfilled>>
  PROVE  Shape'
<1>1. Numbered' /\ Tree' /\ Deleted'
  BY TypesAre DEF Numbered, Tree, Deleted, Rows, Is, Nodes
<1> QED
  BY <1>1, TypesAre, ShapeIs

LEMMA ShapeRepo ==
  ASSUME Shape, SoundAfter,
         UNCHANGED <<group, standing, node, change, assigned, asked, access, backfilled, events>>,
         repo' \in [Repos -> Repo],
         group = "deleted" => \A r \in Repos : repo'[r].project # "group"
  PROVE  Shape'
<1>1. Numbered' /\ Tree' /\ Deleted'
  BY TypesAre DEF Numbered, Tree, Deleted, Rows, Is, Nodes
<1> QED
  BY <1>1, TypesAre, ShapeIs

LEMMA KeptIs ==
  ASSUME Shape, Kept
  PROVE  /\ Numbered' /\ Tree' /\ Persist /\ (Rows)' = Rows
         /\ \A n, level : Is(n, level)' <=> Is(n, level)
<1>1. (Rows)' = Rows
  BY RowsKept DEF Kept
<1>2. Numbered'
  BY <1>1, TypesAre DEF Numbered, Kept, Nodes
<1>3. \A n, level : (Is(n, level))' <=> Is(n, level)
  BY DEF Is, Kept, Nodes
<1>4. Tree'
  <2>1. ASSUME NEW n \in Nodes
        PROVE  /\ node'[n].level = "repository" =>
                    node'[n].parent \in Nodes /\ node'[node'[n].parent].level = "deliveryProject"
               /\ node'[n].level = "deliveryProject" =>
                    node'[n].parent \in Nodes /\ node'[node'[n].parent].level = "system"
    <3>1. /\ node[n].level = "repository" => node[n].parent \in Nodes /\ node[node[n].parent].level = "deliveryProject"
          /\ node[n].level = "deliveryProject" => node[n].parent \in Nodes /\ node[node[n].parent].level = "system"
      BY TypesAre DEF Tree, Is
    <3>2. /\ node'[n].level = node[n].level /\ node'[n].parent = node[n].parent
          /\ \A m \in Nodes : node'[m].level = node[m].level
      BY DEF Kept
    <3> QED
      BY <3>1, <3>2
  <2> QED
    BY <2>1 DEF Tree, Is, Nodes
<1>5. Persist
  BY DEF Persist, Kept
<1> QED
  BY <1>1, <1>2, <1>3, <1>4, <1>5

LEMMA ShapeKept ==
  ASSUME Shape, SoundAfter, Kept, Tables, repo' = repo
  PROVE  Shape'
<1>1. Deleted'
  BY TypesAre DEF Deleted, Kept, Tables, Nodes
<1>2. node' \in [Nodes -> Node]
  BY DEF Kept
<1> QED
  BY <1>1, <1>2, KeptIs, TypesAre, ShapeIs DEF Tables

LEMMA GrownIs ==
  ASSUME Shape, NEW added, NEW count \in Nat, Grown(added, count)
  PROVE  /\ node' \in [Nodes -> Node] /\ Numbered' /\ Persist
         /\ \A n \in Nodes : node[n].level # "none" => node'[n] = node[n]
         /\ \A n \in Nodes : node[n].level = "none" /\ node'[n].level # "none" =>
              n - Rows \in 1..count /\ node'[n] = added[n - Rows]
         /\ \A i \in 1..count : /\ Rows + i \in Nodes /\ node'[Rows + i] = added[i]
                                /\ node[Rows + i].level = "none"
<1>1. Rows \in 0..MaxNodes /\ MaxNodes \in Nat /\ Nodes = 1..MaxNodes
      /\ \A n \in Nodes : node[n].level # "none" <=> n <= Rows
  BY TypesAre DEF Numbered, Nodes
<1>2. node' \in [Nodes -> Node] /\ Numbered' /\ Rows + count <= MaxNodes
      /\ \A n \in Nodes :
           /\ n <= Rows \/ n > Rows + count => node'[n] = node[n]
           /\ n > Rows /\ n <= Rows + count => node'[n] = added[n - Rows]
  BY DEF Grown
<1>3. \A n \in Nodes : node[n].level # "none" => node'[n] = node[n]
  BY <1>1, <1>2
<1>4. Persist
  BY <1>3 DEF Persist
<1>5. ASSUME NEW n \in Nodes, node[n].level = "none", node'[n].level # "none"
      PROVE  n - Rows \in 1..count /\ node'[n] = added[n - Rows]
  <2>1. n \in Nat /\ n > Rows
    BY <1>1, <1>5
  <2>2. ~(n > Rows + count)
    <3>1. SUFFICES ASSUME n > Rows + count PROVE FALSE
      OBVIOUS
    <3>2. node'[n] = node[n]
      BY <3>1, <1>2
    <3> QED
      BY <3>2, <1>5
  <2>3. n <= Rows + count
    BY <2>1, <2>2, <1>1
  <2> QED
    BY <2>1, <2>3, <1>1, <1>2
<1>6. ASSUME NEW i \in 1..count
      PROVE  Rows + i \in Nodes /\ node'[Rows + i] = added[i] /\ node[Rows + i].level = "none"
  <2> DEFINE n == Rows + i
  <2>1. n \in Nodes /\ n > Rows /\ n <= Rows + count /\ n - Rows = i
    BY <1>1, <1>2
  <2> HIDE DEF n
  <2>2. node'[n] = added[n - Rows]
    BY <2>1, <1>2
  <2>3. node[n].level = "none"
    BY <2>1, <1>1
  <2> QED
    BY <2>1, <2>2, <2>3 DEF n
<1> QED
  BY <1>2, <1>3, <1>4, <1>5, <1>6

\* Every row that is new hangs where it should.
LEMMA ShapeGrown ==
  ASSUME Shape, SoundAfter, NEW added, NEW count \in Nat, Grown(added, count),
         UNCHANGED <<group, standing, repo, change, assigned, asked, access, events>>, backfilled' \in BOOLEAN,
         group # "deleted" \/ count = 0,
         \A i \in 1..count :
           /\ added[i].level \in Levels
           /\ added[i].level = "repository" =>
                added[i].parent \in Nodes /\ node'[added[i].parent].level = "deliveryProject"
           /\ added[i].level = "deliveryProject" =>
                added[i].parent \in Nodes /\ node'[added[i].parent].level = "system"
  PROVE  Shape'
<1>1. /\ node' \in [Nodes -> Node] /\ Numbered'
      /\ \A n \in Nodes : node[n].level # "none" => node'[n] = node[n]
      /\ \A n \in Nodes : node[n].level = "none" /\ node'[n].level # "none" =>
           n - Rows \in 1..count /\ node'[n] = added[n - Rows]
  BY GrownIs
<1>2. ASSUME NEW n \in Nodes
      PROVE  /\ node'[n].level = "repository" =>
                  node'[n].parent \in Nodes /\ node'[node'[n].parent].level = "deliveryProject"
             /\ node'[n].level = "deliveryProject" =>
                  node'[n].parent \in Nodes /\ node'[node'[n].parent].level = "system"
  <2>1. CASE node[n].level # "none"
    <3>1. node'[n] = node[n]
      BY <2>1, <1>1
    <3>2. /\ node[n].level = "repository" => node[n].parent \in Nodes /\ node[node[n].parent].level = "deliveryProject"
          /\ node[n].level = "deliveryProject" => node[n].parent \in Nodes /\ node[node[n].parent].level = "system"
      BY TypesAre DEF Tree, Is
    <3> QED
      BY <3>1, <3>2, <1>1
  <2>2. CASE node[n].level = "none"
    <3>1. CASE node'[n].level = "none"
      BY <3>1
    <3>2. CASE node'[n].level # "none"
      <4>1. n - Rows \in 1..count /\ node'[n] = added[n - Rows]
        BY <2>2, <3>2, <1>1
      <4> QED
        BY <4>1
    <3> QED
      BY <3>1, <3>2
  <2> QED
    BY <2>1, <2>2
<1>3. Tree'
  BY <1>2 DEF Tree, Is, Nodes
<1>4. Deleted'
  <2>1. ASSUME NEW n \in Nodes, node'[n].level = "gone" PROVE group = "deleted"
    <3>1. CASE node[n].level # "none"
      BY <3>1, <2>1, <1>1, TypesAre DEF Deleted
    <3>2. CASE node[n].level = "none"
      <4>1. n - Rows \in 1..count /\ node'[n] = added[n - Rows]
        BY <2>1, <3>2, <1>1
      <4>2. added[n - Rows].level \in Levels
        BY <4>1
      <4> QED
        BY <4>1, <4>2, <2>1 DEF Levels
    <3> QED
      BY <3>1, <3>2
  <2>2. ASSUME group = "deleted", NEW n \in Nodes PROVE node'[n].level \in {"none", "gone"}
    <3>1. count = 0 /\ 1..0 = {}
      BY <2>2
    <3>2. node[n].level \in {"none", "gone"}
      BY <2>2, TypesAre DEF Deleted
    <3>3. CASE node[n].level # "none"
      BY <3>2, <3>3, <1>1
    <3>4. CASE node[n].level = "none"
      <4>1. n - Rows \notin 1..count
        BY <3>1
      <4> QED
        BY <4>1, <3>4, <1>1
    <3> QED
      BY <3>3, <3>4
  <2>3. group = "deleted" => \A r \in Repos : repo[r].project # "group"
    BY TypesAre DEF Deleted
  <2> QED
    BY <2>1, <2>2, <2>3 DEF Deleted, Nodes
<1> QED
  BY <1>1, <1>3, <1>4, TypesAre, ShapeIs

LEMMA TablesShape ==
  ASSUME Tables
  PROVE  Time /\ UNCHANGED <<group, standing, change, assigned, asked, access, backfilled, events>>
  BY DEF Tables, Time

\* The shape of the tree and of the requests stays, step by step.
LEMMA CheckRightShape ==
  ASSUME Shape, NEW s \in Sessions, CheckRight(s)
  PROVE  Shape'
<1>1. /\ UNCHANGED <<group, standing, node, repo, change, assigned, asked, access, backfilled, events>>
      /\ session[s].todo # <<>> /\ Head(session[s].todo) = "right"
      /\ Ends(s, TRUE) \/ Goes(s, session[s].at, events)
  BY CheckRightIs
<1>2. Time /\ Persist
  BY <1>1, NodeKept DEF Time
<1>3. SoundAfter
  <2>1. CASE Ends(s, TRUE)
    BY <2>1, <1>2, EndsSound
  <2>2. CASE Goes(s, session[s].at, events)
    <3>1. session[s].todo \notin {AtSystem, AtDelivery}
      BY <1>1, TodoHeads
    <3> QED
      BY <2>2, <3>1, <1>1, <1>2, GoesSound
  <2> QED
    BY <1>1, <2>1, <2>2
<1> QED
  BY <1>1, <1>3, TypesAre, ShapeStill

LEMMA StepFailsShape ==
  ASSUME Shape, NEW s \in Sessions, StepFails(s)
  PROVE  Shape'
<1>1. /\ UNCHANGED <<group, standing, node, repo, change, assigned, asked, access, backfilled>>
      /\ events' = events + 1 /\ events < MaxEvents /\ Ends(s, TRUE)
  BY StepFailsIs
<1>2. Time /\ Persist
  BY <1>1, NodeKept DEF Time
<1>3. SoundAfter
  BY <1>1, <1>2, EndsSound
<1>4. events' \in 0..MaxEvents
  BY <1>1, TypesAre
<1> QED
  BY <1>1, <1>3, <1>4, ShapeStill

LEMMA BeginsShape ==
  ASSUME Shape, NEW s \in Sessions, Begins(s)
  PROVE  Shape'
<1>1. SoundAfter
  BY BeginsSound
<1>2. UNCHANGED <<group, standing, node, repo, change, assigned, asked, access, backfilled, events>>
  BY DEF Begins
<1> QED
  BY <1>1, <1>2, TypesAre, ShapeStill

LEMMA FindLinkShape ==
  ASSUME Shape, NEW s \in Sessions, FindLink(s)
  PROVE  Shape'
<1>1. /\ Tables /\ node' = node /\ repo' = repo /\ session[s].todo = AtFind
      /\ Goes(s, session[s].at, session[s].seen) \/ Ends(s, FALSE)
  BY FindLinkIs
<1>2. Time /\ Persist
  BY <1>1, NodeKept, TablesShape
<1>3. SoundAfter
  <2>1. CASE Ends(s, FALSE)
    BY <2>1, <1>2, EndsSound
  <2>2. CASE Goes(s, session[s].at, session[s].seen)
    <3>1. session[s].todo \notin {AtSystem, AtDelivery} /\ session[s].todo # <<>>
      BY <1>1, TodoHeads DEF AtFind, AtSystem, AtDelivery
    <3> QED
      BY <2>2, <3>1, <1>2, GoesSound
  <2> QED
    BY <1>1, <2>1, <2>2
<1> QED
  BY <1>1, <1>3, TablesShape, TypesAre, ShapeStill

LEMMA CreateRepoShape ==
  ASSUME Shape, NEW s \in Sessions, CreateRepo(s)
  PROVE  Shape'
<1>1. /\ RepoTables /\ session[s].todo = AtRepo
      /\ \/ Ends(s, TRUE) /\ repo' = repo
         \/ /\ Goes(s, session[s].at, session[s].seen)
            /\ RepoBecomes(session[s].name, TRUE, s, repo[session[s].name].project)
  BY CreateRepoIs
<1>2. Time /\ Persist
  BY <1>1, NodeKept DEF RepoTables, Time
<1>3. SoundAfter
  <2>1. CASE Ends(s, TRUE)
    BY <2>1, <1>2, EndsSound
  <2>2. CASE Goes(s, session[s].at, session[s].seen)
    <3>1. session[s].todo \notin {AtSystem, AtDelivery} /\ session[s].todo # <<>>
      BY <1>1, TodoHeads DEF AtRepo, AtSystem, AtDelivery
    <3> QED
      BY <2>2, <3>1, <1>2, GoesSound
  <2> QED
    BY <1>1, <2>1, <2>2
<1>4. repo' \in [Repos -> Repo] /\ \A r \in Repos : repo'[r].project = repo[r].project
  BY <1>1, TypesAre DEF RepoBecomes
<1>5. group = "deleted" => \A r \in Repos : repo'[r].project # "group"
  BY <1>4, TypesAre DEF Deleted
<1> QED
  BY <1>1, <1>3, <1>4, <1>5, ShapeRepo DEF RepoTables

LEMMA InsertProjectShape ==
  ASSUME Shape, NEW s \in Sessions, InsertProject(s)
  PROVE  Shape'
<1>1. /\ RepoTables /\ session[s].todo = AtProject
      /\ \/ Ends(s, TRUE) /\ repo' = repo
         \/ /\ group # "deleted" /\ Goes(s, session[s].at, session[s].seen)
            /\ RepoBecomes(session[s].name, repo[session[s].name].there, repo[session[s].name].by, "group")
  BY InsertProjectIs
<1>2. Time /\ Persist
  BY <1>1, NodeKept DEF RepoTables, Time
<1>3. SoundAfter
  <2>1. CASE Ends(s, TRUE)
    BY <2>1, <1>2, EndsSound
  <2>2. CASE Goes(s, session[s].at, session[s].seen)
    <3>1. session[s].todo \notin {AtSystem, AtDelivery} /\ session[s].todo # <<>>
      BY <1>1, TodoHeads DEF AtProject, AtSystem, AtDelivery
    <3> QED
      BY <2>2, <3>1, <1>2, GoesSound
  <2> QED
    BY <1>1, <2>1, <2>2
<1>4. repo' \in [Repos -> Repo]
  BY <1>1, TypesAre DEF RepoBecomes
<1>5. group = "deleted" => \A r \in Repos : repo'[r].project # "group"
  BY <1>1, TypesAre DEF Deleted
<1> QED
  BY <1>1, <1>3, <1>4, <1>5, ShapeRepo DEF RepoTables

LEMMA CreateProjectShape ==
  ASSUME Shape, NEW s \in Sessions, CreateProject(s)
  PROVE  Shape'
<1>1. /\ RepoTables /\ session[s].todo = AtForm
      /\ \/ Ends(s, TRUE) /\ repo' = repo
         \/ \E owner \in {"group", "own"} :
              /\ owner = "group" => group # "deleted"
              /\ Goes(s, session[s].at, session[s].seen)
              /\ RepoBecomes(session[s].name, TRUE, s, owner)
  BY CreateProjectIs
<1>2. Time /\ Persist
  BY <1>1, NodeKept DEF RepoTables, Time
<1>3. SoundAfter
  <2>1. CASE Ends(s, TRUE)
    BY <2>1, <1>2, EndsSound
  <2>2. CASE Goes(s, session[s].at, session[s].seen)
    <3>1. session[s].todo \notin {AtSystem, AtDelivery} /\ session[s].todo # <<>>
      BY <1>1, TodoHeads DEF AtForm, AtSystem, AtDelivery
    <3> QED
      BY <2>2, <3>1, <1>2, GoesSound
  <2> QED
    BY <1>1, <2>1, <2>2
<1>4. repo' \in [Repos -> Repo]
  BY <1>1, TypesAre DEF RepoBecomes
<1>5. group = "deleted" => \A r \in Repos : repo'[r].project # "group"
  <2>1. CASE repo' = repo
    BY <2>1, TypesAre DEF Deleted
  <2>2. CASE repo' # repo
    <3>1. PICK owner \in {"group", "own"} : /\ owner = "group" => group # "deleted"
                                            /\ RepoBecomes(session[s].name, TRUE, s, owner)
      BY <1>1, <2>2
    <3> QED
      BY <3>1, TypesAre DEF Deleted, RepoBecomes
  <2> QED
    BY <2>1, <2>2
<1> QED
  BY <1>1, <1>3, <1>4, <1>5, ShapeRepo DEF RepoTables

LEMMA SendShape ==
  ASSUME Shape, NEW s \in Sessions, SendConfiguration(s)
  PROVE  Shape'
<1>1. /\ Tables /\ node' = node /\ session[s].todo = AtSend /\ session[s].ask \in {"write", "delete"} /\ Sends(s)
      /\ repo' \in [Repos -> Repo] /\ \A q \in Repos : repo'[q].project = repo[q].project
  BY SendConfigurationIs
<1>2. SoundAfter
  BY <1>1, SendsSound, TablesShape
<1>3. group = "deleted" => \A r \in Repos : repo'[r].project # "group"
  BY <1>1, TypesAre DEF Deleted
<1> QED
  BY <1>1, <1>2, <1>3, TablesShape, ShapeRepo

LEMMA ArchiveShape ==
  ASSUME Shape, NEW s \in Sessions, Archive(s)
  PROVE  Shape'
<1>1. Tables /\ repo' = repo /\ Kept /\ (Ends(s, TRUE) \/ Ends(s, FALSE))
  BY ArchiveIs
<1>2. SoundAfter
  BY <1>1, TablesShape, KeptIs, EndsSound
<1> QED
  BY <1>1, <1>2, ShapeKept

LEMMA RenameShape ==
  ASSUME Shape, NEW s \in Sessions, Rename(s)
  PROVE  Shape'
<1>1. Tables /\ repo' = repo /\ Kept /\ (Ends(s, TRUE) \/ Ends(s, FALSE))
  BY RenameIs
<1>2. SoundAfter
  BY <1>1, TablesShape, KeptIs, EndsSound
<1> QED
  BY <1>1, <1>2, ShapeKept

LEMMA MadeIs ==
  ASSUME NEW level, NEW parent, NEW name, NEW by
  PROVE  /\ Made(level, parent, name, by).level = level /\ Made(level, parent, name, by).parent = parent
         /\ Made(level, parent, name, by).name = name /\ Made(level, parent, name, by).by = by
  BY DEF Made

LEMMA OneGrown ==
  ASSUME Shape, NEW made, Grown(<<made>>, 1)
  PROVE  /\ node' \in [Nodes -> Node] /\ Persist /\ Rows + 1 \in Nodes
         /\ \A n \in Nodes : node[n].level # "none" => node'[n] = node[n]
         /\ \A n \in Nodes : node[n].level = "none" /\ node'[n].level # "none" => n = Rows + 1
         /\ node'[Rows + 1] = made /\ node[Rows + 1].level = "none"
<1> DEFINE added == <<made>>
           one == 1
<1>1. added[1] = made
  OBVIOUS
<1>2. one \in Nat /\ 1 \in 1..one /\ Grown(added, one)
  OBVIOUS
<1>3. Rows \in Int
  BY TypesAre DEF Numbered
<1> HIDE DEF added, one
<1>4. /\ node' \in [Nodes -> Node] /\ Persist
      /\ \A n \in Nodes : node[n].level # "none" => node'[n] = node[n]
      /\ \A n \in Nodes : node[n].level = "none" /\ node'[n].level # "none" =>
           n - Rows \in 1..one /\ node'[n] = added[n - Rows]
      /\ \A i \in 1..one : /\ Rows + i \in Nodes /\ node'[Rows + i] = added[i]
                           /\ node[Rows + i].level = "none"
  BY <1>2, GrownIs
<1>5. Rows + 1 \in Nodes /\ node'[Rows + 1] = made /\ node[Rows + 1].level = "none"
  BY <1>1, <1>2, <1>4
<1>6. ASSUME NEW n \in Nodes, node[n].level = "none" /\ node'[n].level # "none"
      PROVE  n = Rows + 1
  <2>1. n - Rows \in 1..one /\ n \in Int
    BY <1>6, <1>4 DEF Nodes
  <2> QED
    BY <2>1, <1>3 DEF one
<1> QED
  BY <1>4, <1>5, <1>6

LEMMA OneRowShape ==
  ASSUME Shape, SoundAfter, NEW made, Grown(<<made>>, 1),
         Tables, repo' = repo, group # "deleted", made.level \in Levels,
         made.level = "repository" => Is(made.parent, "deliveryProject"),
         made.level = "deliveryProject" => Is(made.parent, "system")
  PROVE  Shape'
<1> DEFINE added == <<made>>
           one == 1
<1>1. \A n \in Nodes : node[n].level # "none" => node'[n] = node[n]
  BY OneGrown
<1>2. one \in Nat /\ Grown(added, one)
  OBVIOUS
<1>3. ASSUME NEW i \in 1..one
      PROVE  /\ added[i].level \in Levels
             /\ added[i].level = "repository" =>
                  added[i].parent \in Nodes /\ node'[added[i].parent].level = "deliveryProject"
             /\ added[i].level = "deliveryProject" =>
                  added[i].parent \in Nodes /\ node'[added[i].parent].level = "system"
  <2>1. i = 1
    OBVIOUS
  <2>2. added[i] = made
    BY <2>1
  <2> HIDE DEF added, one
  <2>3. made.level = "repository" => made.parent \in Nodes /\ node'[made.parent].level = "deliveryProject"
    BY <1>1 DEF Is
  <2>4. made.level = "deliveryProject" => made.parent \in Nodes /\ node'[made.parent].level = "system"
    BY <1>1 DEF Is
  <2> QED
    BY <2>2, <2>3, <2>4
<1>4. UNCHANGED <<group, standing, repo, change, assigned, asked, access, events>> /\ backfilled' \in BOOLEAN
  BY TypesAre DEF Tables
<1> HIDE DEF added, one
<1> QED
  BY <1>2, <1>3, <1>4, ShapeGrown

LEMMA StillShape ==
  ASSUME Shape, NEW s \in Sessions, NEW failed, Ends(s, failed), Tables, repo' = repo, node' = node
  PROVE  Shape'
<1>1. SoundAfter
  BY TablesShape, NodeKept, EndsSound
<1> QED
  BY <1>1, TablesShape, TypesAre, ShapeStill

LEMMA CreateSystemShape ==
  ASSUME Shape, NEW s \in Sessions, CreateSystem(s)
  PROVE  Shape'
<1>1. /\ Tables /\ repo' = repo /\ session[s].todo = AtSystem
      /\ \/ Ends(s, TRUE) /\ node' = node
         \/ /\ group # "deleted" /\ Grown(<<Made1(s, "system")>>, 1)
            /\ Goes(s, Rows + 1, session[s].seen)
  BY CreateSystemIs
<1>2. CASE Ends(s, TRUE) /\ node' = node
  BY <1>1, <1>2, StillShape
<1>3. CASE group # "deleted" /\ Grown(<<Made1(s, "system")>>, 1) /\ Goes(s, Rows + 1, session[s].seen)
  <2>1. Made1(s, "system").level = "system"
    BY MadeIs DEF Made1
  <2>2. Persist /\ Rows + 1 \in Nodes /\ node'[Rows + 1] = Made1(s, "system")
    BY <1>3, OneGrown
  <2>3. LevelAfter(Rows + 1, {"system"})
    BY <2>1, <2>2 DEF LevelAfter
  <2>4. session[s].todo # <<>> /\ session[s].todo # AtDelivery
    BY <1>1 DEF AtSystem, AtDelivery
  <2>5. SoundAfter
    BY <1>1, <1>3, <2>2, <2>3, <2>4, TablesShape, GoesSound
  <2>6. Made1(s, "system").level \in Levels
    BY <2>1 DEF Levels
  <2> QED
    BY <1>1, <1>3, <2>1, <2>5, <2>6, OneRowShape
<1> QED
  BY <1>1, <1>2, <1>3

LEMMA CreateDeliveryProjectShape ==
  ASSUME Shape, NEW s \in Sessions, CreateDeliveryProject(s)
  PROVE  Shape'
<1>1. /\ Tables /\ repo' = repo /\ session[s].todo \in {AtDelivery, AtBranch}
      /\ \/ Ends(s, TRUE) /\ node' = node
         \/ /\ group # "deleted" /\ Is(session[s].at, "system") /\ Grown(<<Made1(s, "deliveryProject")>>, 1)
            /\ session[s].todo = AtDelivery => Goes(s, Rows + 1, session[s].seen)
            /\ session[s].todo = AtBranch => Ends(s, FALSE)
  BY CreateDeliveryProjectIs
<1>2. CASE Ends(s, TRUE) /\ node' = node
  BY <1>1, <1>2, StillShape
<1>3. CASE /\ group # "deleted" /\ Is(session[s].at, "system") /\ Grown(<<Made1(s, "deliveryProject")>>, 1)
           /\ session[s].todo = AtDelivery => Goes(s, Rows + 1, session[s].seen)
           /\ session[s].todo = AtBranch => Ends(s, FALSE)
  <2>1. Made1(s, "deliveryProject").level = "deliveryProject" /\ Made1(s, "deliveryProject").parent = session[s].at
    BY MadeIs DEF Made1
  <2>2. Persist /\ Rows + 1 \in Nodes /\ node'[Rows + 1] = Made1(s, "deliveryProject")
    BY <1>3, OneGrown
  <2>3. LevelAfter(Rows + 1, {"deliveryProject"})
    BY <2>1, <2>2 DEF LevelAfter
  <2>5. SoundAfter
    <3>1. CASE session[s].todo = AtDelivery
      <4>1. session[s].todo # <<>> /\ session[s].todo # AtSystem
        BY <3>1 DEF AtSystem, AtDelivery
      <4> QED
        BY <1>1, <1>3, <3>1, <4>1, <2>2, <2>3, TablesShape, GoesSound
    <3>2. CASE session[s].todo = AtBranch
      BY <1>1, <1>3, <3>2, <2>2, TablesShape, EndsSound
    <3> QED
      BY <1>1, <3>1, <3>2
  <2>6. Made1(s, "deliveryProject").level \in Levels
    BY <2>1 DEF Levels
  <2> QED
    BY <1>1, <1>3, <2>1, <2>5, <2>6, OneRowShape
<1> QED
  BY <1>1, <1>2, <1>3

LEMMA InsertRowShape ==
  ASSUME Shape, NEW s \in Sessions, InsertRow(s)
  PROVE  Shape'
<1>1. /\ Tables /\ repo' = repo
      /\ \/ Ends(s, TRUE) /\ node' = node
         \/ /\ group # "deleted" /\ Is(session[s].at, "deliveryProject") /\ Grown(<<Made1(s, "repository")>>, 1)
            /\ Ends(s, FALSE)
  BY InsertRowIs
<1>2. CASE Ends(s, TRUE) /\ node' = node
  BY <1>1, <1>2, StillShape
<1>3. CASE /\ group # "deleted" /\ Is(session[s].at, "deliveryProject") /\ Grown(<<Made1(s, "repository")>>, 1)
           /\ Ends(s, FALSE)
  <2>1. Made1(s, "repository").level = "repository" /\ Made1(s, "repository").parent = session[s].at
    BY MadeIs DEF Made1
  <2>2. Persist
    BY <1>3, OneGrown
  <2>5. SoundAfter
    BY <1>1, <1>3, <2>2, TablesShape, EndsSound
  <2>6. Made1(s, "repository").level \in Levels
    BY <2>1 DEF Levels
  <2> QED
    BY <1>1, <1>3, <2>1, <2>5, <2>6, OneRowShape
<1> QED
  BY <1>1, <1>2, <1>3

LEMMA LinkShape ==
  ASSUME Shape, NEW s \in Sessions, Link(s)
  PROVE  Shape'
<1>1. /\ Tables /\ repo' = repo
      /\ \/ /\ group # "deleted" /\ Ends(s, FALSE)
            /\ \E added : ChainLinks(added, session[s].name, s) /\ Grown(added, 3)
         \/ node' = node /\ Ends(s, FALSE)
         \/ node' = node /\ Ends(s, TRUE)
  BY LinkIs
<1>2. CASE node' = node /\ (Ends(s, FALSE) \/ Ends(s, TRUE))
  BY <1>1, <1>2, StillShape
<1>3. CASE /\ group # "deleted" /\ Ends(s, FALSE)
           /\ \E added : ChainLinks(added, session[s].name, s) /\ Grown(added, 3)
  <2> DEFINE r == session[s].name
             three == 3
  <2>1. three \in Nat /\ 1..three = {1, 2, 3}
    OBVIOUS
  <2>2. PICK added : ChainLinks(added, r, s) /\ Grown(added, three)
    BY <1>3
  <2> HIDE DEF r, three
  <2>3. /\ added[1].level = "system" /\ added[2].level = "deliveryProject" /\ added[3].level = "repository"
        /\ added[2].parent = Rows + 1 /\ added[3].parent = Rows + 2
    BY <2>2, MadeIs DEF ChainLinks
  <2>4. /\ Persist
        /\ \A i \in 1..three : Rows + i \in Nodes /\ node'[Rows + i] = added[i]
    BY <2>1, <2>2, GrownIs
  <2>5. SoundAfter
    BY <1>1, <1>3, <2>4, TablesShape, EndsSound
  <2>6. /\ Rows + 1 \in Nodes /\ node'[Rows + 1].level = "system"
        /\ Rows + 2 \in Nodes /\ node'[Rows + 2].level = "deliveryProject"
    BY <2>1, <2>3, <2>4
  <2>7. ASSUME NEW i \in 1..three
        PROVE  /\ added[i].level \in Levels
               /\ added[i].level = "repository" =>
                    added[i].parent \in Nodes /\ node'[added[i].parent].level = "deliveryProject"
               /\ added[i].level = "deliveryProject" =>
                    added[i].parent \in Nodes /\ node'[added[i].parent].level = "system"
    BY <2>1, <2>3, <2>6 DEF Levels
  <2>8. UNCHANGED <<group, standing, repo, change, assigned, asked, access, events>> /\ backfilled' \in BOOLEAN
    BY <1>1, TypesAre DEF Tables
  <2> QED
    BY <1>3, <2>1, <2>2, <2>5, <2>7, <2>8, ShapeGrown
<1> QED
  BY <1>1, <1>2, <1>3

LEMMA ThreeRanges ==
  ASSUME NEW k \in Nat, NEW i \in 1..(k + k + k)
  PROVE  \/ i \in 1..k
         \/ \E j \in 1..k : i = k + j
         \/ \E j \in 1..k : i = k + k + j
<1>1. CASE i <= k
  BY <1>1
<1>2. CASE i > k /\ i <= k + k
  <2>1. i - k \in 1..k /\ i = k + (i - k)
    BY <1>2
  <2> QED
    BY <2>1
<1>3. CASE i > k + k
  <2>1. i - (k + k) \in 1..k /\ i = k + k + (i - (k + k))
    BY <1>3
  <2> QED
    BY <2>1
<1> QED
  BY <1>1, <1>2, <1>3

\* What the migration inserts.
LEMMA MigratedRows ==
  ASSUME Shape, NEW k \in Nat, NEW rs, NEW added, Migrates(rs, k, added), Grown(added, k + k + k)
  PROVE  /\ node' \in [Nodes -> Node] /\ Persist
         /\ \A n \in Nodes : node[n].level # "none" => node'[n] = node[n]
         /\ \A j \in 1..k : /\ Rows + j \in Nodes /\ node[Rows + j].level = "none"
                            /\ node'[Rows + j] = Made("system", 0, rs[j], "migration")
         /\ \A j \in 1..k : /\ Rows + k + j \in Nodes /\ node[Rows + k + j].level = "none"
                            /\ node'[Rows + k + j] = Made("deliveryProject", Rows + j, rs[j], "migration")
         /\ \A j \in 1..k : /\ Rows + k + k + j \in Nodes /\ node[Rows + k + k + j].level = "none"
                            /\ \E n \in Available(rs[j]) \cup {Rows + k + j} :
                                 node'[Rows + k + k + j] = Made("repository", n, rs[j], "migration")
         /\ \A n \in Nodes : node[n].level = "none" /\ node'[n].level # "none" =>
              \E j \in 1..k : n \in {Rows + j, Rows + k + j, Rows + k + k + j}
<1> DEFINE count == k + k + k
<1>1. count \in Nat /\ Rows \in Nat
  BY TypesAre DEF Numbered
<1>2. \A j \in 1..k : j \in 1..count /\ k + j \in 1..count /\ k + k + j \in 1..count
  OBVIOUS
<1>3. \A j \in 1..k : Rows + (k + j) = Rows + k + j /\ Rows + (k + k + j) = Rows + k + k + j
  BY <1>1
<1>4. \A i \in 1..count : i \in 1..k \/ (\E j \in 1..k : i = k + j) \/ (\E j \in 1..k : i = k + k + j)
  BY ThreeRanges
<1> HIDE DEF count
<1>5. /\ node' \in [Nodes -> Node] /\ Persist
      /\ \A n \in Nodes : node[n].level # "none" => node'[n] = node[n]
      /\ \A n \in Nodes : node[n].level = "none" /\ node'[n].level # "none" =>
           n - Rows \in 1..count /\ node'[n] = added[n - Rows]
      /\ \A i \in 1..count : /\ Rows + i \in Nodes /\ node'[Rows + i] = added[i]
                             /\ node[Rows + i].level = "none"
  BY <1>1, GrownIs DEF count
<1>6. ASSUME NEW j \in 1..k
      PROVE  /\ Rows + j \in Nodes /\ node[Rows + j].level = "none"
             /\ node'[Rows + j] = Made("system", 0, rs[j], "migration")
  <2>1. added[j] = Made("system", 0, rs[j], "migration")
    BY DEF Migrates
  <2> QED
    BY <2>1, <1>2, <1>5
<1>7. ASSUME NEW j \in 1..k
      PROVE  /\ Rows + k + j \in Nodes /\ node[Rows + k + j].level = "none"
             /\ node'[Rows + k + j] = Made("deliveryProject", Rows + j, rs[j], "migration")
  <2>1. added[k + j] = Made("deliveryProject", Rows + j, rs[j], "migration")
    BY DEF Migrates
  <2>2. /\ Rows + (k + j) \in Nodes /\ node'[Rows + (k + j)] = added[k + j]
        /\ node[Rows + (k + j)].level = "none"
    BY <1>2, <1>5
  <2> QED
    BY <2>1, <2>2, <1>3
<1>8. ASSUME NEW j \in 1..k
      PROVE  /\ Rows + k + k + j \in Nodes /\ node[Rows + k + k + j].level = "none"
             /\ \E n \in Available(rs[j]) \cup {Rows + k + j} :
                  node'[Rows + k + k + j] = Made("repository", n, rs[j], "migration")
  <2>1. \E n \in Available(rs[j]) \cup {Rows + k + j} :
          added[k + k + j] = Made("repository", n, rs[j], "migration")
    BY DEF Migrates
  <2>2. /\ Rows + (k + k + j) \in Nodes /\ node'[Rows + (k + k + j)] = added[k + k + j]
        /\ node[Rows + (k + k + j)].level = "none"
    BY <1>2, <1>5
  <2> QED
    BY <2>1, <2>2, <1>3
<1>9. ASSUME NEW n \in Nodes, node[n].level = "none" /\ node'[n].level # "none"
      PROVE  \E j \in 1..k : n \in {Rows + j, Rows + k + j, Rows + k + k + j}
  <2> DEFINE i == n - Rows
  <2>1. i \in 1..count
    BY <1>9, <1>5
  <2>2. n \in Int /\ n = Rows + i
    BY <1>1 DEF Nodes
  <2> HIDE DEF i
  <2>3. i \in 1..k \/ (\E j \in 1..k : i = k + j) \/ (\E j \in 1..k : i = k + k + j)
    BY <2>1, <1>4
  <2>4. CASE i \in 1..k
    BY <2>2, <2>4
  <2>5. CASE \E j \in 1..k : i = k + j
    <3>1. PICK j \in 1..k : i = k + j
      BY <2>5
    <3>2. n = Rows + k + j
      BY <3>1, <2>2, <1>3
    <3> QED
      BY <3>2
  <2>6. CASE \E j \in 1..k : i = k + k + j
    <3>1. PICK j \in 1..k : i = k + k + j
      BY <2>6
    <3>2. n = Rows + k + k + j
      BY <3>1, <2>2, <1>3
    <3> QED
      BY <3>2
  <2> QED
    BY <2>3, <2>4, <2>5, <2>6
<1> QED
  BY <1>5, <1>6, <1>7, <1>8, <1>9

LEMMA NothingToMigrate ==
  ASSUME Shape, group = "deleted"
  PROVE  NotLinked = {}
  BY TypesAre DEF Deleted, NotLinked

LEMMA BackfillShape ==
  ASSUME Shape, Backfill
  PROVE  Shape'
<1>1. /\ UNCHANGED <<group, standing, repo, change, assigned, asked, access, session, events>>
      /\ backfilled' = TRUE
      /\ \E k \in Nat : \E rs, added : Migrates(rs, k, added) /\ Grown(added, k + k + k)
  BY BackfillIs
<1>2. PICK k \in Nat : \E rs, added : Migrates(rs, k, added) /\ Grown(added, k + k + k)
  BY <1>1
<1>3. PICK rs, added : Migrates(rs, k, added) /\ Grown(added, k + k + k)
  BY <1>2
<1> DEFINE count == k + k + k
<1>4. count \in Nat /\ Grown(added, count)
  BY <1>3
<1>5. /\ Persist /\ Rows \in Nat
      /\ \A n \in Nodes : node[n].level # "none" => node'[n] = node[n]
      /\ \A j \in 1..k : Rows + j \in Nodes /\ node'[Rows + j] = Made("system", 0, rs[j], "migration")
      /\ \A j \in 1..k : /\ Rows + k + j \in Nodes
                         /\ node'[Rows + k + j] = Made("deliveryProject", Rows + j, rs[j], "migration")
  BY <1>3, MigratedRows, TypesAre DEF Numbered
<1>6. group # "deleted" \/ count = 0
  <2>1. SUFFICES ASSUME group = "deleted" PROVE k = 0
    OBVIOUS
  <2>2. NotLinked = {}
    BY <2>1, NothingToMigrate
  <2>3. rs \in [1..k -> NotLinked]
    BY <1>3 DEF Migrates
  <2>4. \A i \in 1..k : rs[i] \in NotLinked
    BY <2>3
  <2>5. 1 \notin 1..k
    BY <2>2, <2>4
  <2> QED
    BY <2>5
<1>7. ASSUME NEW i \in 1..count
      PROVE  /\ added[i].level \in Levels
             /\ added[i].level = "repository" =>
                  added[i].parent \in Nodes /\ node'[added[i].parent].level = "deliveryProject"
             /\ added[i].level = "deliveryProject" =>
                  added[i].parent \in Nodes /\ node'[added[i].parent].level = "system"
  <2>1. CASE i \in 1..k
    <3>1. added[i] = Made("system", 0, rs[i], "migration")
      BY <2>1, <1>3 DEF Migrates
    <3>2. added[i].level = "system"
      BY <3>1, MadeIs
    <3> QED
      BY <3>2 DEF Levels
  <2>2. CASE \E j \in 1..k : i = k + j
    <3>1. PICK j \in 1..k : i = k + j
      BY <2>2
    <3>2. added[i] = Made("deliveryProject", Rows + j, rs[j], "migration")
      BY <3>1, <1>3 DEF Migrates
    <3>3. added[i].level = "deliveryProject" /\ added[i].parent = Rows + j
      BY <3>2, MadeIs
    <3>4. Rows + j \in Nodes /\ node'[Rows + j].level = "system"
      BY <1>5, MadeIs
    <3> QED
      BY <3>3, <3>4 DEF Levels
  <2>3. CASE \E j \in 1..k : i = k + k + j
    <3>1. PICK j \in 1..k : i = k + k + j
      BY <2>3
    <3>2. PICK n \in Available(rs[j]) \cup {Rows + k + j} :
            added[i] = Made("repository", n, rs[j], "migration")
      BY <3>1, <1>3 DEF Migrates
    <3>3. added[i].level = "repository" /\ added[i].parent = n
      BY <3>2, MadeIs
    <3>4. n \in Nodes /\ node'[n].level = "deliveryProject"
      <4>1. CASE n \in Available(rs[j])
        BY <4>1, <1>5 DEF Available, Is
      <4>2. CASE n = Rows + k + j
        BY <4>2, <1>5, MadeIs
      <4> QED
        BY <4>1, <4>2
    <3> QED
      BY <3>3, <3>4 DEF Levels
  <2> QED
    BY <2>1, <2>2, <2>3, ThreeRanges
<1>8. SoundAfter
  <2>1. ASSUME NEW t \in Sessions PROVE RequestTyped(session[t])' /\ Placed(session[t])'
    BY <1>1, <1>5, OthersTyped, OthersPlaced DEF Time
  <2>2. Requests
    BY <1>1 DEF Requests, Shape, TreeTypeOK
  <2> QED
    BY <2>1, <2>2 DEF SoundAfter
<1>9. backfilled' \in BOOLEAN
  BY <1>1
<1> HIDE DEF count
<1> QED
  BY <1>1, <1>4, <1>6, <1>7, <1>8, <1>9, ShapeGrown

LEMMA StillTree ==
  ASSUME Shape, node' = node
  PROVE  node' \in [Nodes -> Node] /\ Numbered' /\ Tree'
<1>1. node \in [Nodes -> Node] /\ Numbered /\ Tree
  BY TypesAre
<1>2. Numbered'
  BY <1>1 DEF Numbered, Rows
<1>3. Tree'
  BY <1>1 DEF Tree, Is
<1> QED
  BY <1>1, <1>2, <1>3

LEMMA StillRequests ==
  ASSUME Shape, session' = session, node' = node, Time
  PROVE  SoundAfter
<1>1. Requests
  BY DEF Requests, Shape, TreeTypeOK
<1>2. ASSUME NEW t \in Sessions PROVE RequestTyped(session[t])' /\ Placed(session[t])'
  BY NodeKept, OthersTyped, OthersPlaced
<1> QED
  BY <1>1, <1>2 DEF SoundAfter

LEMMA RecordChangeShape ==
  ASSUME Shape, NEW s \in Sessions, RecordChange(s)
  PROVE  Shape'
<1>1. /\ UNCHANGED <<group, standing, node, repo, assigned, asked, access, backfilled, events>>
      /\ \/ Ends(s, TRUE) /\ change' = change
         \/ Ends(s, FALSE) /\ change' \in [Nodes -> [Keys -> {"none", "create", "delete"}]]
  BY RecordChangeIs
<1>2. SoundAfter
  BY <1>1, NodeKept, EndsSound DEF Time
<1>3. Numbered' /\ Tree' /\ Deleted'
  BY <1>1, StillTree, TypesAre DEF Deleted, Nodes
<1>4. change' \in [Nodes -> [Keys -> {"none", "create", "delete"}]]
  BY <1>1, TypesAre
<1> QED
  BY <1>1, <1>2, <1>3, <1>4, TypesAre, ShapeIs

LEMMA SetArchiveStatusShape ==
  ASSUME Shape, NEW s \in Sessions, SetArchiveStatus(s)
  PROVE  Shape'
<1>1. /\ UNCHANGED <<standing, node, repo, change, assigned, asked, access, backfilled, events>>
      /\ \/ group' = group /\ Ends(s, TRUE)
         \/ group # "deleted" /\ group' \in {"active", "archived"} /\ Ends(s, FALSE)
  BY SetArchiveStatusIs
<1>2. SoundAfter
  BY <1>1, NodeKept, EndsSound DEF Time
<1>3. Numbered' /\ Tree' /\ (group' = "deleted" <=> group = "deleted")
  BY <1>1, StillTree
<1>4. Deleted'
  BY <1>1, <1>3, TypesAre DEF Deleted, Nodes
<1>5. group' \in {"active", "archived", "deleted"}
  BY <1>1, TypesAre
<1> QED
  BY <1>1, <1>2, <1>3, <1>4, <1>5, TypesAre, ShapeIs

LEMMA DropTree ==
  ASSUME Shape, NEW s \in Sessions, DropGroup(s)
  PROVE  /\ Persist /\ Numbered' /\ Tree' /\ Deleted' /\ (Rows)' = Rows
         /\ \A n \in Nodes : node'[n].level \in {"none", "gone"}
         /\ \A n \in Nodes : node'[n].level = "none" <=> node[n].level = "none"
<1>1. /\ group' = "deleted" /\ node' \in [Nodes -> Node]
      /\ \A n \in Nodes : /\ node'[n].level = (IF Stored(n) THEN "gone" ELSE node[n].level)
                          /\ node'[n].parent = node[n].parent /\ node'[n].by = node[n].by
                          /\ node'[n].name = node[n].name
      /\ \A r \in Repos : repo'[r].project = (IF repo[r].project = "group" THEN "own" ELSE repo[r].project)
  BY DropGroupIs
<1>2. \A n \in Nodes : node[n].level \in Levels \cup {"none", "gone"}
  BY TypesAre DEF Node
<1>3. \A n \in Nodes : node'[n].level \in {"none", "gone"} /\ (node'[n].level = "none" <=> node[n].level = "none")
  BY <1>1, <1>2 DEF Stored, Levels
<1>4. Persist
  BY <1>1, <1>3 DEF Persist
<1>5. (Rows)' = Rows
  BY <1>3, RowsKept
<1>6. Numbered'
  BY <1>3, <1>5, TypesAre DEF Numbered, Nodes
<1>7. Tree'
  BY <1>3 DEF Tree, Is, Nodes
<1>8. Deleted'
  BY <1>1, <1>3 DEF Deleted, Nodes
<1> QED
  BY <1>3, <1>4, <1>5, <1>6, <1>7, <1>8

LEMMA DropGroupShape ==
  ASSUME Shape, NEW s \in Sessions, DropGroup(s)
  PROVE  Shape'
<1>1. /\ UNCHANGED <<access, backfilled, events>> /\ (Ends(s, TRUE) \/ Ends(s, FALSE))
      /\ group' = "deleted" /\ assigned' = {} /\ asked' = {}
      /\ node' \in [Nodes -> Node] /\ repo' \in [Repos -> Repo]
      /\ change' = [n \in Nodes |-> [k \in Keys |-> "none"]]
      /\ standing' = [u \in Users |-> IF standing[u] = "platform" THEN "platform" ELSE "outside"]
  BY DropGroupIs
<1>2. Persist /\ Numbered' /\ Tree' /\ Deleted'
  BY DropTree
<1>3. SoundAfter
  BY <1>1, <1>2, EndsSound DEF Time
<1>4. change' \in [Nodes -> [Keys -> {"none", "create", "delete"}]]
  BY <1>1
<1>5. standing' \in [Users -> Standings]
  BY <1>1 DEF Standings
<1>6. assigned' \subseteq Users \X Nodes /\ asked' \subseteq Users \X Nodes
      /\ group' \in {"active", "archived", "deleted"}
  BY <1>1
<1> QED
  BY <1>1, <1>2, <1>3, <1>4, <1>5, <1>6, TypesAre, ShapeIs

LEMMA ChangeStandingShape ==
  ASSUME Shape, ChangeStanding
  PROVE  Shape'
<1>1. /\ events < MaxEvents /\ events' = events + 1
      /\ UNCHANGED <<group, node, repo, change, assigned, asked, access, backfilled, session>>
  BY DEF ChangeStanding
<1>2. standing' \in [Users -> Standings]
  BY TypesAre DEF ChangeStanding
<1>3. SoundAfter
  BY <1>1, StillRequests DEF Time
<1>4. Numbered' /\ Tree' /\ Deleted' /\ events' \in 0..MaxEvents
  BY <1>1, StillTree, TypesAre DEF Deleted, Nodes
<1> QED
  BY <1>1, <1>2, <1>3, <1>4, TypesAre, ShapeIs

LEMMA ReassignShape ==
  ASSUME Shape, Reassign
  PROVE  Shape'
<1>1. /\ events < MaxEvents /\ events' = events + 1
      /\ UNCHANGED <<group, standing, node, repo, change, access, backfilled, session>>
  BY DEF Reassign
<1>2. assigned' \subseteq Users \X Nodes /\ asked' \subseteq Users \X Nodes
  BY TypesAre DEF Reassign
<1>3. SoundAfter
  BY <1>1, StillRequests DEF Time
<1>4. Numbered' /\ Tree' /\ Deleted' /\ events' \in 0..MaxEvents
  BY <1>1, StillTree, TypesAre DEF Deleted, Nodes
<1> QED
  BY <1>1, <1>2, <1>3, <1>4, TypesAre, ShapeIs

LEMMA SyncShape ==
  ASSUME Shape, Sync
  PROVE  Shape'
<1>1. UNCHANGED <<group, standing, node, repo, change, assigned, backfilled, session, events>>
  BY DEF Sync
<1>2. access' \subseteq Users \X Nodes /\ asked' \subseteq Users \X Nodes
  BY TypesAre DEF Sync
<1>3. SoundAfter
  BY <1>1, StillRequests DEF Time
<1>4. Numbered' /\ Tree' /\ Deleted'
  BY <1>1, StillTree, TypesAre DEF Deleted, Nodes
<1> QED
  BY <1>1, <1>2, <1>3, <1>4, TypesAre, ShapeIs

\* What every step leaves of the rights of requests that are under way.
Calm ==
  /\ group = "deleted" => group' = "deleted"
  /\ group' = "deleted" \/ events' = events + 1 \/ (standing' = standing /\ assigned' = assigned)
Alike(t) ==
  /\ session'[t].todo = session[t].todo /\ session'[t].ask = session[t].ask /\ session'[t].by = session[t].by
  /\ session'[t].at = session[t].at /\ session'[t].name = session[t].name /\ session'[t].key = session[t].key
  /\ session'[t].failed = session[t].failed /\ session'[t].seen = session[t].seen
SameAim(s) ==
  session'[s].ask = session[s].ask /\ session'[s].by = session[s].by /\ session'[s].at = session[s].at
Moved(s) ==
  /\ Persist /\ Calm /\ Time
  /\ \A t \in Sessions : t # s => Alike(t)
  /\ \/ UNCHANGED <<node, repo, change, group>>
     \/ session[s].todo # <<>> /\ Head(session[s].todo) # "right"
  /\ \/ session'[s].todo = <<>> \/ Head(session'[s].todo) = "right" \/ session'[s].ask = "form"
     \/ Entitled(s) /\ SameAim(s)
     \/ /\ session[s].todo # <<>> /\ Head(session[s].todo) # "right"
        /\ SameAim(s) /\ session'[s].seen = session[s].seen

LEMMA OthersAlike ==
  ASSUME NEW s \in Sessions, Others(s)
  PROVE  \A t \in Sessions : t # s => Alike(t)
  BY DEF Others, Alike

LEMMA EndsMoved ==
  ASSUME NEW s \in Sessions, NEW failed, Ends(s, failed), Persist, Calm, Time,
         \/ UNCHANGED <<node, repo, change, group>>
         \/ session[s].todo # <<>> /\ Head(session[s].todo) # "right"
  PROVE  Moved(s)
  BY OthersAlike DEF Ends, Moved

LEMMA GoesMoved ==
  ASSUME NEW s \in Sessions, NEW seen, Goes(s, session[s].at, seen), Persist, Calm, Time,
         session[s].todo # <<>>,
         \/ seen = session[s].seen /\ Head(session[s].todo) # "right"
         \/ UNCHANGED <<node, repo, change, group>> /\ Entitled(s)
  PROVE  Moved(s)
<1>1. SameAim(s) /\ session'[s].seen = seen /\ \A t \in Sessions : t # s => Alike(t)
  BY OthersAlike DEF Goes, SameAim
<1> QED
  BY <1>1 DEF Moved

LEMMA GoesAskingMoved ==
  ASSUME NEW s \in Sessions, NEW at, NEW seen, Goes(s, at, seen), Persist, Calm, Time,
         session[s].todo \in {AtSystem, AtDelivery}
  PROVE  Moved(s)
<1>1. session'[s].todo \in {AskDelivery, AskRepo}
  BY TodoTails DEF Goes
<1>2. Head(session'[s].todo) = "right"
  BY <1>1, TodoHeads
<1>3. session[s].todo # <<>> /\ Head(session[s].todo) # "right"
  BY TodoHeads DEF AtSystem, AtDelivery
<1>4. \A t \in Sessions : t # s => Alike(t)
  BY OthersAlike DEF Goes
<1> QED
  BY <1>2, <1>3, <1>4 DEF Moved

LEMMA TablesCalm ==
  ASSUME Tables
  PROVE  Calm /\ Time
  BY DEF Tables, Calm, Time

LEMMA CheckRightMoved ==
  ASSUME Shape, NEW s \in Sessions, CheckRight(s)
  PROVE  Moved(s)
<1>1. /\ UNCHANGED <<group, standing, node, repo, change, assigned, asked, access, backfilled, events>>
      /\ session[s].todo # <<>>
      /\ Ends(s, TRUE) \/ (Entitled(s) /\ Goes(s, session[s].at, events))
  BY CheckRightIs
<1>2. Persist /\ Calm /\ Time
  BY <1>1, NodeKept DEF Calm, Time
<1>3. UNCHANGED <<node, repo, change, group>>
  BY <1>1
<1> QED
  BY <1>1, <1>2, <1>3, EndsMoved, GoesMoved

LEMMA StepFailsMoved ==
  ASSUME Shape, NEW s \in Sessions, StepFails(s)
  PROVE  Moved(s)
<1>1. /\ UNCHANGED <<group, standing, node, repo, change, assigned, asked, access, backfilled>>
      /\ events' = events + 1 /\ events < MaxEvents /\ Ends(s, TRUE)
  BY StepFailsIs
<1>2. Persist /\ Calm /\ Time
  BY <1>1, NodeKept DEF Calm, Time
<1> QED
  BY <1>1, <1>2, EndsMoved

LEMMA BeginsMoved ==
  ASSUME Shape, NEW s \in Sessions, Begins(s)
  PROVE  Moved(s)
<1>1. /\ UNCHANGED <<group, standing, node, repo, change, assigned, asked, access, backfilled, events>>
      /\ Others(s) /\ session'[s].todo \in Firsts /\ RequestTyped(session[s])'
  BY DEF Begins
<1>2. Persist /\ Calm /\ Time
  BY <1>1, NodeKept DEF Calm, Time
<1>3. session'[s].todo = AtForm \/ Head(session'[s].todo) = "right"
  BY <1>1, TodoHeads DEF Firsts
<1>4. session'[s].todo \in Todos(session'[s].ask)
  BY <1>1 DEF RequestTyped
<1>5. session'[s].todo = AtForm => session'[s].ask = "form"
  BY <1>4, TodoAsk
<1> QED
  BY <1>1, <1>2, <1>3, <1>5, OthersAlike DEF Moved

LEMMA InsertsMoved ==
  ASSUME Shape, NEW s \in Sessions,
         CreateSystem(s) \/ CreateDeliveryProject(s) \/ InsertRow(s)
  PROVE  Moved(s)
<1>1. CASE CreateSystem(s)
  <2>1. /\ Tables /\ session[s].todo = AtSystem
        /\ \/ Ends(s, TRUE) /\ node' = node
           \/ Grown(<<Made1(s, "system")>>, 1) /\ Goes(s, Rows + 1, session[s].seen)
    BY <1>1, CreateSystemIs
  <2>2. session[s].todo # <<>> /\ Head(session[s].todo) # "right"
    BY <2>1, TodoHeads DEF AtSystem
  <2>3. Persist
    BY <2>1, NodeKept, OneGrown
  <2> QED
    BY <2>1, <2>2, <2>3, TablesCalm, EndsMoved, GoesAskingMoved
<1>2. CASE CreateDeliveryProject(s)
  <2>1. /\ Tables /\ session[s].todo \in {AtDelivery, AtBranch}
        /\ \/ Ends(s, TRUE) /\ node' = node
           \/ /\ Grown(<<Made1(s, "deliveryProject")>>, 1)
              /\ session[s].todo = AtDelivery => Goes(s, Rows + 1, session[s].seen)
              /\ session[s].todo = AtBranch => Ends(s, FALSE)
    BY <1>2, CreateDeliveryProjectIs
  <2>2. session[s].todo # <<>> /\ Head(session[s].todo) # "right"
    BY <2>1, TodoHeads, TodoLens DEF Lasts, Befores
  <2>3. Persist
    BY <2>1, NodeKept, OneGrown
  <2>4. CASE Ends(s, TRUE) \/ Ends(s, FALSE)
    BY <2>1, <2>2, <2>3, <2>4, TablesCalm, EndsMoved
  <2>5. CASE session[s].todo = AtDelivery /\ Goes(s, Rows + 1, session[s].seen)
    BY <2>1, <2>2, <2>3, <2>5, TablesCalm, GoesAskingMoved
  <2> QED
    BY <2>1, <2>4, <2>5
<1>3. CASE InsertRow(s)
  <2>1. /\ Tables /\ session[s].todo = AtRow
        /\ \/ Ends(s, TRUE) /\ node' = node
           \/ Grown(<<Made1(s, "repository")>>, 1) /\ Ends(s, FALSE)
    BY <1>3, InsertRowIs
  <2>2. session[s].todo # <<>> /\ Head(session[s].todo) # "right"
    BY <2>1, TodoHeads DEF AtRow
  <2>3. Persist
    BY <2>1, NodeKept, OneGrown
  <2> QED
    BY <2>1, <2>2, <2>3, TablesCalm, EndsMoved
<1> QED
  BY <1>1, <1>2, <1>3

LEMMA RepoMoved ==
  ASSUME Shape, NEW s \in Sessions,
         CreateRepo(s) \/ InsertProject(s) \/ CreateProject(s)
  PROVE  Moved(s)
<1>1. /\ RepoTables /\ session[s].todo \in {AtRepo, AtProject, AtForm}
      /\ Ends(s, TRUE) \/ Goes(s, session[s].at, session[s].seen)
  BY CreateRepoIs, InsertProjectIs, CreateProjectIs
<1>2. Persist /\ Calm /\ Time
  BY <1>1, NodeKept DEF RepoTables, Calm, Time
<1>3. session[s].todo # <<>> /\ Head(session[s].todo) # "right"
  BY <1>1, TodoHeads DEF AtRepo, AtProject, AtForm
<1> QED
  BY <1>1, <1>2, <1>3, EndsMoved, GoesMoved

LEMMA LinkMoved ==
  ASSUME Shape, NEW s \in Sessions, FindLink(s) \/ Link(s)
  PROVE  Moved(s)
<1>1. CASE FindLink(s)
  <2>1. /\ Tables /\ node' = node /\ session[s].todo = AtFind
        /\ Goes(s, session[s].at, session[s].seen) \/ Ends(s, FALSE)
    BY <1>1, FindLinkIs
  <2>2. session[s].todo # <<>> /\ Head(session[s].todo) # "right"
    BY <2>1, TodoHeads DEF AtFind
  <2> QED
    BY <2>1, <2>2, NodeKept, TablesCalm, EndsMoved, GoesMoved
<1>2. CASE Link(s)
  <2>1. /\ Tables /\ session[s].todo = AtLink /\ (Ends(s, FALSE) \/ Ends(s, TRUE))
        /\ node' = node \/ \E added : Grown(added, 3)
    BY <1>2, LinkIs
  <2>2. session[s].todo # <<>> /\ Head(session[s].todo) # "right"
    BY <2>1, TodoHeads DEF AtLink
  <2>3. Persist
    <3> DEFINE three == 3
    <3>1. three \in Nat /\ (node' = node \/ \E added : Grown(added, three))
      BY <2>1
    <3> HIDE DEF three
    <3> QED
      BY <3>1, NodeKept, GrownIs
  <2> QED
    BY <2>1, <2>2, <2>3, TablesCalm, EndsMoved
<1> QED
  BY <1>1, <1>2

LEMMA ConfigurationMoved ==
  ASSUME Shape, NEW s \in Sessions, SendConfiguration(s) \/ RecordChange(s)
  PROVE  Moved(s)
<1>1. CASE SendConfiguration(s)
  <2>1. Tables /\ node' = node /\ session[s].todo = AtSend /\ Sends(s)
    BY <1>1, SendConfigurationIs
  <2>2. session[s].todo # <<>> /\ Head(session[s].todo) # "right"
    BY <2>1, TodoHeads DEF AtSend
  <2>3. \A t \in Sessions : t # s => Alike(t)
    BY <2>1, SendsOthers DEF Alike
  <2>4. SameAim(s) /\ session'[s].seen = session[s].seen
    BY <2>1 DEF Sends, SameAim
  <2> QED
    BY <2>1, <2>2, <2>3, <2>4, NodeKept, TablesCalm DEF Moved
<1>2. CASE RecordChange(s)
  <2>1. /\ UNCHANGED <<group, standing, node, repo, assigned, asked, access, backfilled, events>>
        /\ session[s].todo = AtRecord /\ (Ends(s, TRUE) \/ Ends(s, FALSE))
    BY <1>2, RecordChangeIs
  <2>2. session[s].todo # <<>> /\ Head(session[s].todo) # "right"
    BY <2>1, TodoHeads DEF AtRecord
  <2>3. Persist /\ Calm /\ Time
    BY <2>1, NodeKept DEF Calm, Time
  <2> QED
    BY <2>1, <2>2, <2>3, EndsMoved
<1> QED
  BY <1>1, <1>2

LEMMA NodeMoved ==
  ASSUME Shape, NEW s \in Sessions, Archive(s) \/ Rename(s)
  PROVE  Moved(s)
<1>1. /\ Tables /\ session[s].todo \in {AtArchive, AtRename} /\ Kept /\ (Ends(s, TRUE) \/ Ends(s, FALSE))
  BY ArchiveIs, RenameIs
<1>2. session[s].todo # <<>> /\ Head(session[s].todo) # "right"
  BY <1>1, TodoHeads, TodoLens DEF Lasts
<1> QED
  BY <1>1, <1>2, KeptIs, TablesCalm, EndsMoved

LEMMA GroupMoved ==
  ASSUME Shape, NEW s \in Sessions, SetArchiveStatus(s) \/ DropGroup(s)
  PROVE  Moved(s)
<1>1. CASE SetArchiveStatus(s)
  <2>1. /\ UNCHANGED <<standing, node, repo, change, assigned, asked, access, backfilled, events>>
        /\ session[s].todo = AtStatus /\ (Ends(s, TRUE) \/ Ends(s, FALSE))
        /\ group' = group \/ group # "deleted"
    BY <1>1, SetArchiveStatusIs
  <2>2. session[s].todo # <<>> /\ Head(session[s].todo) # "right"
    BY <2>1, TodoHeads DEF AtStatus
  <2>3. Persist /\ Calm /\ Time
    BY <2>1, NodeKept DEF Calm, Time
  <2> QED
    BY <2>1, <2>2, <2>3, EndsMoved
<1>2. CASE DropGroup(s)
  <2>1. events' = events /\ session[s].todo = AtDrop /\ (Ends(s, TRUE) \/ Ends(s, FALSE)) /\ group' = "deleted"
    BY <1>2, DropGroupIs
  <2>2. session[s].todo # <<>> /\ Head(session[s].todo) # "right"
    BY <2>1, TodoHeads DEF AtDrop
  <2>3. Persist /\ Calm /\ Time
    BY <1>2, <2>1, DropTree DEF Calm, Time
  <2> QED
    BY <2>1, <2>2, <2>3, EndsMoved
<1> QED
  BY <1>1, <1>2

LEMMA BeginningMoved ==
  ASSUME Shape, NEW s \in Sessions,
         BeginCreate(s) \/ BeginChange(s) \/ BeginRename(s) \/ BeginOfGroup(s)
  PROVE  Begins(s) /\ Moved(s)
  BY BeginCreateIs, BeginChangeIs, BeginRenameIs, BeginOfGroupIs, BeginsMoved

LEMMA StepMoved ==
  ASSUME Shape, NEW s \in Sessions, Step(s)
  PROVE  Moved(s)
  BY CheckRightMoved, StepFailsMoved, InsertsMoved, RepoMoved, LinkMoved, ConfigurationMoved, NodeMoved, GroupMoved
     DEF Step

LEMMA StepShape ==
  ASSUME Shape, NEW s \in Sessions, Step(s)
  PROVE  Shape'
<1>1. CASE CheckRight(s) \/ StepFails(s) \/ FindLink(s) \/ Link(s)
  BY <1>1, CheckRightShape, StepFailsShape, FindLinkShape, LinkShape
<1>2. CASE CreateSystem(s) \/ CreateDeliveryProject(s) \/ InsertRow(s)
  BY <1>2, CreateSystemShape, CreateDeliveryProjectShape, InsertRowShape
<1>3. CASE CreateRepo(s) \/ InsertProject(s) \/ CreateProject(s) \/ SendConfiguration(s)
  BY <1>3, CreateRepoShape, InsertProjectShape, CreateProjectShape, SendShape
<1>4. CASE RecordChange(s) \/ Archive(s) \/ Rename(s) \/ SetArchiveStatus(s) \/ DropGroup(s)
  BY <1>4, RecordChangeShape, ArchiveShape, RenameShape, SetArchiveStatusShape, DropGroupShape
<1> QED
  BY <1>1, <1>2, <1>3, <1>4 DEF Step

LEMMA NextShape ==
  ASSUME Shape, TreeNext
  PROVE  Shape'
<1>1. ASSUME NEW s \in Sessions, BeginCreate(s) \/ BeginChange(s) \/ BeginRename(s) \/ BeginOfGroup(s)
      PROVE  Shape'
  BY <1>1, BeginningMoved, BeginsShape
<1>2. ASSUME NEW s \in Sessions, Step(s) PROVE Shape'
  BY <1>2, StepShape
<1>3. CASE Backfill
  BY <1>3, BackfillShape
<1>4. CASE ChangeStanding
  BY <1>4, ChangeStandingShape
<1>5. CASE Reassign
  BY <1>5, ReassignShape
<1>6. CASE Sync
  BY <1>6, SyncShape
<1> QED
  BY <1>1, <1>2, <1>3, <1>4, <1>5, <1>6 DEF TreeNext

LEMMA ShapeStutter ==
  ASSUME Shape, UNCHANGED treeVars
  PROVE  Shape'
<1>1. UNCHANGED <<group, standing, node, repo, change, assigned, asked, access, backfilled, session, events>>
  BY DEF treeVars
<1>2. TreeTypeOK' /\ Numbered' /\ Tree' /\ Deleted'
  BY <1>1 DEF Shape, TreeTypeOK, Numbered, Tree, Deleted, Rows, Is, Nodes, Node, Repo, Session, Standings, RequestKinds, Levels, Makers
<1>3. \A t \in Sessions : RequestTyped(session[t])' /\ Placed(session[t])'
  BY <1>1 DEF Shape, RequestTyped, Placed, Level
<1> QED
  BY <1>2, <1>3 DEF Shape

LEMMA IdleIs ==
  Idle = [todo |-> <<>>, ask |-> "none", by |-> Lead, at |-> 0, name |-> Linked, key |-> Nobody,
          failed |-> FALSE, clash |-> FALSE, seen |-> 0]
  BY DEF Idle

LEMMA InitNode ==
  ASSUME TreeInit
  PROVE  /\ MaxNodes \in Nat /\ MaxNodes >= 3 /\ {1, 2, 3} \subseteq Nodes
         /\ node[1] = Made("system", 0, Linked, "before")
         /\ node[2] = Made("deliveryProject", 1, Linked, "before")
         /\ node[3] = Made("repository", 2, Linked, "before")
         /\ \A n \in Nodes : n \notin {1, 2, 3} => node[n] = Unmade
         /\ node = [n \in Nodes |-> node[n]]
<1>1. MaxNodes \in Nat /\ MaxNodes >= 3 /\ {1, 2, 3} \subseteq Nodes
  BY HierarchyAssumption DEF Nodes
<1>2. node = [n \in Nodes |-> CASE n = 1 -> Made("system", 0, Linked, "before")
                                  [] n = 2 -> Made("deliveryProject", 1, Linked, "before")
                                  [] n = 3 -> Made("repository", 2, Linked, "before")
                                  [] OTHER -> Unmade]
  BY DEF TreeInit
<1> QED
  BY <1>1, <1>2

LEMMA InitShape ==
  ASSUME TreeInit
  PROVE  Shape
<1>1. Lead \in Users /\ Linked \in Repos /\ 0 \in 0..MaxEvents /\ MaxEvents \in Nat
  BY HierarchyAssumption
<1>2. ASSUME NEW s \in Sessions PROVE RequestTyped(session[s]) /\ Placed(session[s])
  <2> DEFINE v == session[s]
  <2>1. v = Idle
    BY DEF TreeInit
  <2> HIDE DEF v
  <2>2. /\ v = [todo |-> <<>>, ask |-> "none", by |-> Lead, at |-> 0, name |-> Linked, key |-> Nobody,
                failed |-> FALSE, clash |-> FALSE, seen |-> 0]
    BY <2>1, IdleIs
  <2>3. /\ v.todo = <<>> /\ v.ask = "none" /\ v.by = Lead /\ v.at = 0 /\ v.name = Linked /\ v.key = Nobody
        /\ v.failed = FALSE /\ v.clash = FALSE /\ v.seen = 0
    BY ONLY <2>2
  <2>4. v.todo \in Todos(v.ask)
    BY <2>3, EndIsLeft
  <2>5. events = 0 /\ v.seen \in 0..events
    BY <2>3 DEF TreeInit
  <2>6. v = [todo |-> v.todo, ask |-> v.ask, by |-> v.by, at |-> v.at, name |-> v.name, key |-> v.key,
             failed |-> v.failed, clash |-> v.clash, seen |-> v.seen]
    BY ONLY <2>2, <2>3
  <2>7. RequestTyped(v)
    BY <1>1, <2>3, <2>4, <2>5, <2>6 DEF RequestTyped
  <2>8. Placed(v)
    <3>1. v.todo \notin {AskSystem, AtSystem} \cup BelowSystem \cup {AskBranch, AtBranch} \cup BelowDelivery
                        \cup {AskRename, AtRename} \cup {AskArchive, AtArchive} \cup {AskStatus, AtStatus, AskDrop, AtDrop}
      BY <2>3, TodoLens DEF Lasts, Befores, BelowSystem, BelowDelivery
    <3> QED
      BY <2>3, <3>1 DEF Placed
  <2> QED
    BY <2>7, <2>8 DEF v
<1>3. ASSUME NEW n \in Nodes PROVE node[n] \in Node
  <2>1. Made("system", 0, Linked, "before") \in Node
    BY <1>1 DEF Made, Node, Levels, Makers
  <2>2. Made("deliveryProject", 1, Linked, "before") \in Node
    BY <1>1, InitNode DEF Made, Node, Levels, Makers
  <2>3. Made("repository", 2, Linked, "before") \in Node
    BY <1>1, InitNode DEF Made, Node, Levels, Makers
  <2>4. Unmade \in Node
    BY <1>1 DEF Unmade, Node, Makers
  <2> QED
    BY <2>1, <2>2, <2>3, <2>4, InitNode
<1>4. ASSUME NEW r \in Repos PROVE repo[r] \in Repo /\ (repo[r].project \in {"group", "none"})
  BY <1>1 DEF TreeInit, Repo, Makers
<1>6. ASSUME NEW s \in Sessions PROVE session[s] \in Session
  <2>1. events \in 0..MaxEvents
    BY <1>1 DEF TreeInit
  <2> QED
    BY <1>1, <1>2, <2>1, RequestIsSession
<1>7. \A n \in Nodes : node[n].level # "none" <=> n \in 1..3
  <2>1. Unmade.level = "none"
    BY DEF Unmade
  <2>2. /\ node[1].level = "system" /\ node[2].level = "deliveryProject" /\ node[3].level = "repository"
    BY InitNode, MadeIs
  <2> QED
    BY <2>1, <2>2, InitNode DEF Nodes
<1>8. Rows = 3
  <2> DEFINE three == 3
  <2>1. {n \in Nodes : node[n].level # "none"} = 1..three
    BY <1>7, InitNode DEF Nodes
  <2>2. three \in Nat /\ three >= 1
    OBVIOUS
  <2> HIDE DEF three
  <2>3. Cardinality(1..three) = three
    BY <2>2, FS_Interval
  <2>4. Rows = Cardinality({n \in Nodes : node[n].level # "none"})
    BY DEF Rows
  <2>5. Rows = three
    BY <2>1, <2>3, <2>4
  <2> QED
    BY <2>5 DEF three
<1>9. Numbered
  BY <1>7, <1>8, InitNode DEF Numbered, Nodes
<1>10. /\ node[1].level = "system" /\ node[2].level = "deliveryProject" /\ node[3].level = "repository"
       /\ node[2].parent = 1 /\ node[3].parent = 2 /\ {1, 2, 3} \subseteq Nodes
  BY InitNode, MadeIs
<1>11. Tree
  <2>1. ASSUME NEW n \in Nodes
        PROVE  /\ Is(n, "repository") => Is(node[n].parent, "deliveryProject")
               /\ Is(n, "deliveryProject") => Is(node[n].parent, "system")
    <3>1. Is(n, "repository") => n = 3
      BY <1>7, <1>10 DEF Is
    <3>2. Is(n, "deliveryProject") => n = 2
      BY <1>7, <1>10 DEF Is
    <3> QED
      BY <3>1, <3>2, <1>10 DEF Is
  <2> QED
    BY <2>1 DEF Tree
<1>12. Deleted
  <2>1. \A n \in Nodes : node[n].level # "gone"
    BY <1>7, <1>10
  <2> QED
    BY <2>1 DEF Deleted, TreeInit
<1>13. TreeTypeOK
  <2>1. group \in {"active", "archived", "deleted"} /\ backfilled \in BOOLEAN /\ events \in 0..MaxEvents
    BY <1>1 DEF TreeInit
  <2>2. standing \in [Users -> Standings]
    BY DEF TreeInit, Standings
  <2>3. node \in [Nodes -> Node]
    BY <1>3, InitNode
  <2>4. repo \in [Repos -> Repo]
    BY <1>4 DEF TreeInit
  <2>5. change \in [Nodes -> [Keys -> {"none", "create", "delete"}]]
    BY DEF TreeInit
  <2>6. assigned \subseteq Users \X Nodes /\ asked \subseteq Users \X Nodes /\ access \subseteq Users \X Nodes
    BY <1>10 DEF TreeInit
  <2>7. session \in [Sessions -> Session]
    BY <1>6 DEF TreeInit
  <2> QED
    BY <2>1, <2>2, <2>3, <2>4, <2>5, <2>6, <2>7 DEF TreeTypeOK
<1> QED
  BY <1>2, <1>9, <1>11, <1>12, <1>13 DEF Shape

-----------------------------------------------------------------------------
(* Rights.                                                                 *)

LEMMA RightsType ==
  ASSUME Shape
  PROVE  /\ \A n \in Nodes : node[n].level \in Levels \cup {"none", "gone"}
         /\ \A n \in Nodes : node[n].level = "gone" => group = "deleted"
         /\ \A s \in Sessions : session[s].seen \in 0..events /\ session[s].at \in Nodes \cup {0}
         /\ events \in Nat
<1>1. node \in [Nodes -> Node] /\ Deleted /\ events \in 0..MaxEvents
  BY DEF Shape, TreeTypeOK
<1>2. \A n \in Nodes : node[n].level \in Levels \cup {"none", "gone"}
  BY <1>1 DEF Node
<1>3. \A s \in Sessions : session[s].seen \in 0..events /\ session[s].at \in Nodes \cup {0}
  BY DEF Shape, RequestTyped
<1> QED
  BY <1>1, <1>2, <1>3 DEF Deleted

\* A right stands until somebody changes it, or the group is deleted.
LEMMA EntitledStays ==
  ASSUME Shape, Shape', Persist, group' # "deleted", standing' = standing, assigned' = assigned,
         NEW t \in Sessions, SameAim(t), Entitled(t)
  PROVE  Entitled(t)'
<1>1. \A n \in Nodes : node'[n].level # "gone"
  BY DEF Shape, Deleted, Nodes
<1>2. \A n \in Nodes : node[n].level # "none" => node'[n].level = node[n].level
  BY <1>1 DEF Persist
<1>3. \A n : Is(n, "repository") => node'[n].level = "repository"
  BY <1>2 DEF Is
<1>4. \A n : Stored(n) => node'[n].level \in Levels
  BY <1>2 DEF Stored, Levels
<1>5. session'[t].ask = session[t].ask /\ session'[t].by = session[t].by /\ session'[t].at = session[t].at
  BY DEF SameAim
<1>6. Nodes = 1..MaxNodes
  BY DEF Nodes
<1>7. CASE session[t].ask \in {"write", "delete"}
  <2>1. Is(session[t].at, "repository") /\ (Manages(session[t].by) \/ <<session[t].by, session[t].at>> \in assigned)
    BY <1>7 DEF Entitled, Visible
  <2>2. node'[session[t].at].level = "repository" /\ session[t].at \in Nodes
    BY <2>1, <1>3 DEF Is
  <2> QED
    BY <1>5, <1>7, <2>1, <2>2 DEF Entitled, Visible, Is, Manages, Nodes
<1>8. CASE session[t].ask \notin {"write", "delete"}
  <2>1. Manages(session[t].by) /\ ParentThere(t)
    BY <1>8 DEF Entitled
  <2>2. session[t].at # 0 => session[t].at \in Nodes /\ node'[session[t].at].level \in Levels
    BY <2>1, <1>4 DEF ParentThere, Stored
  <2>3. ParentThere(t)'
    BY <1>5, <2>2 DEF ParentThere, Stored, Nodes, Levels
  <2> QED
    BY <1>5, <1>8, <2>1, <2>3 DEF Entitled, Manages
<1> QED
  BY <1>7, <1>8

LEMMA RightedStays ==
  ASSUME Shape, Shape', Persist, Calm, Time, NEW t \in Sessions, Righted(t), SameAim(t),
         session'[t].seen = session[t].seen, session[t].todo # <<>>, Head(session[t].todo) # "right"
  PROVE  Righted(t)'
<1>1. SUFFICES ASSUME session'[t].ask # "form", session'[t].seen = events', group' # "deleted"
               PROVE  Entitled(t)'
  BY DEF Righted
<1>2. session[t].seen \in 0..events /\ events \in Nat
  BY RightsType
<1>3. events' = events
  BY <1>1, <1>2 DEF Time
<1>4. standing' = standing /\ assigned' = assigned /\ group # "deleted"
  BY <1>1, <1>2, <1>3 DEF Calm
<1>5. session[t].ask # "form" /\ session[t].seen = events
  BY <1>1, <1>3 DEF SameAim
<1>6. Entitled(t)
  BY <1>4, <1>5 DEF Righted
<1> QED
  BY <1>1, <1>4, <1>6, EntitledStays

LEMMA AlikeRighted ==
  ASSUME Shape, Shape', Persist, Calm, Time, NEW t \in Sessions, Righted(t), Alike(t)
  PROVE  Righted(t)'
<1>1. session'[t].todo = session[t].todo /\ SameAim(t) /\ session'[t].seen = session[t].seen
  BY DEF Alike, SameAim
<1>2. CASE session[t].todo = <<>> \/ Head(session[t].todo) = "right"
  BY <1>1, <1>2 DEF Righted
<1>3. CASE session[t].todo # <<>> /\ Head(session[t].todo) # "right"
  BY <1>1, <1>3, RightedStays
<1> QED
  BY <1>2, <1>3

LEMMA MovedRights ==
  ASSUME Shape, Shape', RightStands, NEW s \in Sessions, Moved(s),
         (standing' = standing /\ assigned' = assigned) \/ group' = "deleted" \/ session'[s].todo = <<>>
  PROVE  RightStands'
<1>1. Persist /\ Calm /\ Time /\ \A t \in Sessions : t # s => Alike(t)
  BY DEF Moved
<1>2. ASSUME NEW t \in Sessions, t # s PROVE Righted(t)'
  BY <1>1, <1>2, AlikeRighted DEF RightStands
<1>3. Righted(s)'
  <2>1. CASE session'[s].todo = <<>> \/ Head(session'[s].todo) = "right" \/ session'[s].ask = "form" \/ group' = "deleted"
    BY <2>1 DEF Righted
  <2>2. CASE Entitled(s) /\ SameAim(s) /\ group' # "deleted" /\ standing' = standing /\ assigned' = assigned
    BY <1>1, <2>2, EntitledStays DEF Righted
  <2>3. CASE /\ session[s].todo # <<>> /\ Head(session[s].todo) # "right"
             /\ SameAim(s) /\ session'[s].seen = session[s].seen
    BY <1>1, <2>3, RightedStays DEF RightStands
  <2> QED
    BY <2>1, <2>2, <2>3 DEF Moved
<1> QED
  BY <1>2, <1>3 DEF RightStands

\* A step of a request changes no right, but for the deletion of the group.
LEMMA StepRights ==
  ASSUME Shape, NEW s \in Sessions, Step(s)
  PROVE  (standing' = standing /\ assigned' = assigned) \/ group' = "deleted"
  BY DropGroupIs DEF Step, CheckRight, StepFails, CreateSystem, CreateDeliveryProject, CreateRepo,
     InsertProject, InsertRow, CreateProject, FindLink, Link, SendConfiguration, RecordChange, Archive,
     Rename, SetArchiveStatus

LEMMA Calmly ==
  ASSUME session' = session, Shape, Shape', Persist, Calm, Time, RightStands
  PROVE  RightStands'
<1>1. \A t \in Sessions : Alike(t)
  BY DEF Alike
<1> QED
  BY <1>1, AlikeRighted DEF RightStands

LEMMA ElseMoved ==
  ASSUME Shape, Backfill \/ ChangeStanding \/ Reassign \/ Sync \/ UNCHANGED treeVars
  PROVE  session' = session /\ Persist /\ Calm /\ Time
<1>1. CASE Backfill
  <2>1. /\ UNCHANGED <<group, standing, repo, change, assigned, asked, access, session, events>>
        /\ \E k \in Nat : \E rs, added : Migrates(rs, k, added) /\ Grown(added, k + k + k)
    BY <1>1, BackfillIs
  <2>2. Persist
    BY <2>1, MigratedRows
  <2> QED
    BY <2>1, <2>2 DEF Calm, Time
<1>2. CASE ChangeStanding \/ Reassign
  <2>1. /\ events < MaxEvents /\ events' = events + 1
        /\ UNCHANGED <<group, node, session>>
    BY <1>2 DEF ChangeStanding, Reassign
  <2> QED
    BY <2>1, NodeKept DEF Calm, Time
<1>3. CASE Sync \/ UNCHANGED treeVars
  <2>1. UNCHANGED <<group, standing, node, assigned, session, events>>
    BY <1>3 DEF Sync, treeVars
  <2> QED
    BY <2>1, NodeKept DEF Calm, Time
<1> QED
  BY <1>1, <1>2, <1>3

LEMMA NextRights ==
  ASSUME Shape, Shape', RightStands, [TreeNext]_treeVars
  PROVE  RightStands'
<1>1. ASSUME NEW s \in Sessions, BeginCreate(s) \/ BeginChange(s) \/ BeginRename(s) \/ BeginOfGroup(s)
      PROVE  RightStands'
  <2>1. Begins(s) /\ Moved(s)
    BY <1>1, BeginningMoved
  <2>2. standing' = standing /\ assigned' = assigned
    BY <2>1 DEF Begins
  <2> QED
    BY <2>1, <2>2, MovedRights
<1>2. ASSUME NEW s \in Sessions, Step(s) PROVE RightStands'
  BY <1>2, StepMoved, StepRights, MovedRights
<1>3. CASE Backfill \/ ChangeStanding \/ Reassign \/ Sync \/ UNCHANGED treeVars
  BY <1>3, ElseMoved, Calmly
<1> QED
  BY <1>1, <1>2, <1>3 DEF TreeNext

\* OnlyTheEntitledChange, of a step.
LEMMA NextEntitled ==
  ASSUME Shape, RightStands, [TreeNext]_treeVars, NEW s \in Sessions,
         session'[s].todo # session[s].todo, session[s].ask # "form",
         <<node, repo, change, group>>' # <<node, repo, change, group>>
  PROVE  Entitled(s) \/ session[s].seen # events \/ group = "deleted"
<1>1. ~(UNCHANGED <<node, repo, change, group>>)
  OBVIOUS
<1>2. ASSUME NEW a \in Sessions, Moved(a)
      PROVE  Entitled(s) \/ session[s].seen # events \/ group = "deleted"
  <2>1. a = s
    BY <1>2 DEF Moved, Alike
  <2>2. session[s].todo # <<>> /\ Head(session[s].todo) # "right"
    BY <1>1, <1>2, <2>1 DEF Moved
  <2> QED
    BY <2>2 DEF RightStands, Righted
<1>3. CASE Backfill \/ ChangeStanding \/ Reassign \/ Sync \/ UNCHANGED treeVars
  BY <1>3, ElseMoved
<1> QED
  BY <1>2, <1>3, StepMoved, BeginningMoved DEF TreeNext

LEMMA InitRights ==
  ASSUME TreeInit
  PROVE  RightStands
<1>1. \A s \in Sessions : session[s].todo = <<>>
  BY IdleIs DEF TreeInit
<1> QED
  BY <1>1 DEF RightStands, Righted

\* No step of a request changes the tree, a repository, its variables or the group for somebody who
\* may not, unless a right was changed or the group deleted since the request last asked.
\* (HierarchyAccessService, before each write.)
THEOREM RequestsChangeOnlyWhatTheyMay ==
  TreeSpec => OnlyTheEntitledChange
<1>1. TreeInit => Shape /\ RightStands
  BY InitShape, InitRights
<1>2. Shape /\ RightStands /\ [TreeNext]_treeVars => (Shape /\ RightStands)'
  BY NextShape, ShapeStutter, NextRights
<1>3. Shape /\ RightStands /\ [TreeNext]_treeVars =>
        \A s \in Sessions :
          /\ session'[s].todo # session[s].todo /\ session[s].ask # "form"
          /\ <<node, repo, change, group>>' # <<node, repo, change, group>>
          => Entitled(s) \/ session[s].seen # events \/ group = "deleted"
  BY NextEntitled
<1> QED
  BY <1>1, <1>2, <1>3, PTL DEF TreeSpec, OnlyTheEntitledChange

-----------------------------------------------------------------------------
(* Access, and what a list shows.                                          *)

LEMMA StepAssigned ==
  ASSUME Shape, TreeNext \/ UNCHANGED treeVars
  PROVE  \/ UNCHANGED <<assigned, asked, access>>
         \/ \E s \in Sessions : DropGroup(s)
         \/ Reassign \/ Sync
<1>1. ASSUME NEW s \in Sessions, BeginCreate(s) \/ BeginChange(s) \/ BeginRename(s) \/ BeginOfGroup(s)
      PROVE  UNCHANGED <<assigned, asked, access>>
  BY <1>1, BeginningMoved DEF Begins
<1>2. ASSUME NEW s \in Sessions, Step(s)
      PROVE  UNCHANGED <<assigned, asked, access>> \/ DropGroup(s)
  BY <1>2 DEF Step, CheckRight, StepFails, CreateSystem, CreateDeliveryProject, CreateRepo,
     InsertProject, InsertRow, CreateProject, FindLink, Link, SendConfiguration, RecordChange, Archive,
     Rename, SetArchiveStatus
<1>3. CASE Backfill \/ ChangeStanding \/ UNCHANGED treeVars
  BY <1>3 DEF Backfill, ChangeStanding, treeVars
<1> QED
  BY <1>1, <1>2, <1>3 DEF TreeNext

LEMMA NextPersists ==
  ASSUME Shape, TreeNext \/ UNCHANGED treeVars
  PROVE  Persist
<1>1. ASSUME NEW s \in Sessions, BeginCreate(s) \/ BeginChange(s) \/ BeginRename(s) \/ BeginOfGroup(s) \/ Step(s)
      PROVE  Persist
  BY <1>1, BeginningMoved, StepMoved DEF Moved
<1> QED
  BY <1>1, ElseMoved DEF TreeNext

LEMMA PairsAre ==
  ASSUME Shape
  PROVE  \A a \in access \cup assigned \cup asked : a[2] \in Nodes /\ a[1] \in Users /\ a = <<a[1], a[2]>>
  BY DEF Shape, TreeTypeOK

LEMMA NextGrants ==
  ASSUME Shape, Shape', Grants, TreeNext \/ UNCHANGED treeVars
  PROVE  Grants'
<1>1. /\ \A a \in access \cup assigned : a[2] \in Nodes /\ node[a[2]].level \in {"repository", "gone"}
      /\ \A a \in access \ (assigned \cup asked) : node[a[2]].level = "gone"
  BY PairsAre DEF Grants, StrayOnlyByDeletedGroup
<1>2. \A n \in Nodes : /\ node[n].level \in {"repository", "gone"} => node'[n].level \in {"repository", "gone"}
                       /\ node[n].level = "gone" => node'[n].level = "gone"
  BY NextPersists DEF Persist
<1>3. SUFFICES /\ \A a \in access' \cup assigned' : node'[a[2]].level \in {"repository", "gone"}
               /\ \A a \in access' \ (assigned' \cup asked') : node'[a[2]].level = "gone"
  BY DEF Grants, StrayOnlyByDeletedGroup
<1>4. CASE UNCHANGED <<assigned, asked, access>>
  BY <1>1, <1>2, <1>4
<1>5. ASSUME NEW s \in Sessions, DropGroup(s)
      PROVE  /\ \A a \in access' \cup assigned' : node'[a[2]].level \in {"repository", "gone"}
             /\ \A a \in access' \ (assigned' \cup asked') : node'[a[2]].level = "gone"
  <2>1. access' = access /\ assigned' = {} /\ asked' = {}
    BY <1>5, DropGroupIs
  <2>2. \A n \in Nodes : node'[n].level \in {"none", "gone"} /\ (node'[n].level = "none" <=> node[n].level = "none")
    BY <1>5, DropTree
  <2> QED
    BY <1>1, <2>1, <2>2
<1>6. CASE Reassign
  <2>1. PICK u \in Users, n \in Nodes :
          /\ Is(n, "repository")
          /\ assigned' = IF <<u, n>> \in assigned THEN assigned \ {<<u, n>>} ELSE assigned \cup {<<u, n>>}
          /\ asked' = asked \cup {<<u, n>>}
    BY <1>6 DEF Reassign
  <2>2. access' = access /\ node' = node
    BY <1>6 DEF Reassign
  <2>3. \A a \in assigned' : node'[a[2]].level \in {"repository", "gone"}
    BY <1>1, <2>1, <2>2 DEF Is
  <2>4. \A a \in access' \ (assigned' \cup asked') : node'[a[2]].level = "gone"
    BY <1>1, <2>1, <2>2
  <2> QED
    BY <1>1, <2>2, <2>3, <2>4
<1>7. CASE Sync
  <2>1. PICK a \in asked : /\ asked' = asked \ {a}
                           /\ access' = IF a \in assigned THEN access \cup {a} ELSE access \ {a}
    BY <1>7 DEF Sync
  <2>2. assigned' = assigned /\ node' = node
    BY <1>7 DEF Sync
  <2> QED
    BY <1>1, <2>1, <2>2
<1> QED
  BY <1>4, <1>5, <1>6, <1>7, StepAssigned

LEMMA InitGrants ==
  ASSUME TreeInit
  PROVE  Grants
<1>1. assigned = {<<u, 3>> : u \in Users \ {Lead}} /\ access = assigned
  BY DEF TreeInit
<1>2. node[3].level = "repository"
  BY InitNode, MadeIs
<1> QED
  BY <1>1, <1>2 DEF Grants, StrayOnlyByDeletedGroup

\* A list shows a user what opens: by what the tables are.
LEMMA ListShows ==
  ASSUME Shape
  PROVE  ListShowsWhatOpens
<1>1. standing \in [Users -> Standings]
  BY DEF Shape, TreeTypeOK
<1>2. ASSUME NEW u \in Users, NEW n \in Nodes, Is(n, "repository")
      PROVE  Visible(u, n) <=>
               n \in ListedTo(u, node[n].parent) \/ (standing[u] = "outside" /\ <<u, n>> \in assigned)
  <2>1. n \in Below(node[n].parent, "repository")
    BY <1>2 DEF Below
  <2>2. standing[u] \in {"platform", "lead", "member", "outside"}
    BY <1>1 DEF Standings
  <2> QED
    BY <1>2, <2>1, <2>2 DEF Visible, ListedTo, Manages
<1> QED
  BY <1>2 DEF ListShowsWhatOpens

-----------------------------------------------------------------------------
(* What is left over.                                                      *)

Stand ==
  \A n \in Nodes : node[n].level # "none" =>
    /\ node'[n].level = node[n].level /\ node'[n].parent = node[n].parent /\ node'[n].by = node[n].by
    /\ node[n].level = "repository" => node'[n].name = node[n].name
HoldsAfter(n) == \E m \in Nodes : node'[m].level = "repository" /\ node'[node'[m].parent].parent = n
LinkedAfter(r) == \E m \in Nodes : node'[m].level = "repository" /\ node'[m].name = r
MisplacedAfter(m) ==
  node'[m].level = "repository" /\ node'[m].by = "migration" /\ node'[node'[node'[m].parent].parent].by # "migration"
FailedAfter(x) == x \in Sessions /\ (session'[x].failed \/ session'[x].todo # <<>>)
Newly(n, level) == node[n].level = "none" /\ node'[n].level = level

\* Nothing of a request that ends well is left over.
Clean(s) ==
  /\ \A n \in Nodes : Is(n, "system") /\ node[n].by = s => HoldsAfter(n)
  /\ \A r \in Repos : repo[r].by = s =>
       repo[r].project # "none" /\ (repo[r].project = "group" => LinkedAfter(r))
FailedKept(s) == \A x : x # s /\ Failed(x) => FailedAfter(x)
\* What a step of s does to the tree and to the repositories.
RowsFrame ==
  /\ Stand
  /\ \A n \in Nodes : Newly(n, "system") => HoldsAfter(n) \/ FailedAfter(node'[n].by)
  /\ \A n \in Nodes : node[n].level = "none" /\ node'[n].level # "none" => node'[n].by # "migration"
  /\ \A n \in Nodes : Newly(n, "repository") =>
       RowsOf(node'[n].name) = {} /\ \A m \in Nodes : Newly(m, "repository") /\ node'[m].name = node'[n].name => m = n
RepoFrame ==
  \A r \in Repos :
    /\ repo'[r].project # "none" => repo'[r].there
    /\ \/ repo'[r].project = repo[r].project /\ repo'[r].there = repo[r].there /\ repo'[r].by = repo[r].by
       \/ FailedAfter(repo'[r].by)

LEMMA TreeIs ==
  ASSUME Shape, NEW m \in Nodes, node[m].level = "repository"
  PROVE  /\ node[m].parent \in Nodes /\ node[node[m].parent].level = "deliveryProject"
         /\ node[node[m].parent].parent \in Nodes /\ node[node[node[m].parent].parent].level = "system"
  BY DEF Shape, Tree, Is

LEMMA StandKeeps ==
  ASSUME Shape, Stand
  PROVE  /\ \A n : Holds(n) => HoldsAfter(n)
         /\ \A r : RowsOf(r) # {} => LinkedAfter(r)
         /\ \A m \in Nodes : Misplaced(m) => MisplacedAfter(m)
<1>1. ASSUME NEW m \in Nodes, node[m].level = "repository"
      PROVE  /\ node'[m].level = "repository" /\ node'[m].name = node[m].name /\ node'[m].by = node[m].by
             /\ node'[node'[m].parent].parent = SystemOf(m)
             /\ node'[node'[node'[m].parent].parent].by = node[SystemOf(m)].by
  <2>1. /\ node[m].parent \in Nodes /\ node[node[m].parent].level = "deliveryProject"
        /\ node[node[m].parent].parent \in Nodes /\ node[node[node[m].parent].parent].level = "system"
    BY <1>1, TreeIs
  <2>2. node'[m].level = "repository" /\ node'[m].name = node[m].name /\ node'[m].by = node[m].by
        /\ node'[m].parent = node[m].parent
    BY <1>1 DEF Stand
  <2>3. node'[node[m].parent].parent = node[node[m].parent].parent
    BY <2>1 DEF Stand
  <2>4. node'[node[node[m].parent].parent].by = node[node[node[m].parent].parent].by
    BY <2>1 DEF Stand
  <2> QED
    BY <2>2, <2>3, <2>4 DEF SystemOf
<1>2. ASSUME NEW n, Holds(n) PROVE HoldsAfter(n)
  BY <1>1, <1>2 DEF Holds, Is, HoldsAfter
<1>3. ASSUME NEW r, RowsOf(r) # {} PROVE LinkedAfter(r)
  BY <1>1, <1>3 DEF RowsOf, Is, LinkedAfter
<1>4. ASSUME NEW m \in Nodes, Misplaced(m) PROVE MisplacedAfter(m)
  BY <1>1, <1>4 DEF Misplaced, Is, MisplacedAfter
<1> QED
  BY <1>2, <1>3, <1>4

LEMMA LeftParts ==
  ASSUME Leftovers
  PROVE  /\ OneRow /\ Projects /\ Migrated
         /\ EmptySystemOnlyByMishap /\ UnlinkedOnlyByMishap /\ StrandedOnlyByFailure
         /\ \A s \in Sessions : Owns(s, session[s]) /\ Planted(s, session[s])
  BY DEF Leftovers

LEMMA OneRowStays ==
  ASSUME Shape, Leftovers, RowsFrame
  PROVE  OneRow'
<1>1. ASSUME NEW m \in Nodes, NEW n \in Nodes, node'[m].level = "repository", node'[n].level = "repository",
             node'[m].name = node'[n].name
      PROVE  m = n
  <2>1. CASE node[m].level # "none" /\ node[n].level # "none"
    <3>1. /\ node[m].level = "repository" /\ node[m].name = node'[m].name
          /\ node[n].level = "repository" /\ node[n].name = node'[n].name
      BY <1>1, <2>1 DEF RowsFrame, Stand
    <3> QED
      BY <1>1, <3>1, LeftParts DEF OneRow, Is
  <2>2. ASSUME NEW a \in Nodes, NEW b \in Nodes, node[a].level # "none", node[b].level = "none",
               node'[a].level = "repository", node'[b].level = "repository", node'[a].name = node'[b].name
        PROVE  FALSE
    <3>1. node[a].level = "repository" /\ node[a].name = node'[a].name
      BY <2>2 DEF RowsFrame, Stand
    <3>2. RowsOf(node'[b].name) = {}
      BY <2>2 DEF RowsFrame, Newly
    <3>3. a \in RowsOf(node'[b].name)
      BY <3>1, <2>2 DEF RowsOf, Is
    <3> QED
      BY <3>2, <3>3
  <2>3. CASE node[m].level = "none" /\ node[n].level = "none"
    BY <1>1, <2>3 DEF RowsFrame, Newly
  <2> QED
    BY <1>1, <2>1, <2>2, <2>3
<1> QED
  BY <1>1 DEF OneRow, Is, Nodes

LEMMA EmptyStays ==
  ASSUME Shape, Leftovers, RowsFrame, NEW s, FailedKept(s), FailedAfter(s) \/ Clean(s)
  PROVE  EmptySystemOnlyByMishap'
<1>1. ASSUME NEW n \in Nodes, node'[n].level = "system", ~HoldsAfter(n)
      PROVE  \/ FailedAfter(node'[n].by)
             \/ node'[n].by = "migration" /\ \E m \in Nodes : MisplacedAfter(m)
  <2>1. CASE node[n].level = "none"
    BY <1>1, <2>1 DEF RowsFrame, Newly
  <2>2. CASE node[n].level # "none"
    <3>1. Is(n, "system") /\ node'[n].by = node[n].by
      BY <1>1, <2>2 DEF RowsFrame, Stand, Is
    <3>2. ~Holds(n) /\ \A m \in Nodes : Misplaced(m) => MisplacedAfter(m)
      BY <1>1, StandKeeps DEF RowsFrame
    <3>3. Failed(node[n].by) \/ (node[n].by = "migration" /\ \E m \in Nodes : Misplaced(m))
      BY <3>1, <3>2, LeftParts DEF EmptySystemOnlyByMishap
    <3>4. node[n].by = s => FailedAfter(s)
      BY <1>1, <3>1 DEF Clean
    <3> QED
      BY <3>1, <3>2, <3>3, <3>4 DEF FailedKept
  <2> QED
    BY <2>1, <2>2
<1> QED
  BY <1>1 DEF EmptySystemOnlyByMishap, Is, Holds, SystemOf, Failed, Running, Misplaced, HoldsAfter,
     FailedAfter, MisplacedAfter, Nodes

LEMMA UnlinkedStays ==
  ASSUME Shape, Leftovers, RowsFrame, RepoFrame, NEW s, FailedKept(s), FailedAfter(s) \/ Clean(s),
         backfilled' = backfilled
  PROVE  UnlinkedOnlyByMishap' /\ StrandedOnlyByFailure'
<1>1. ASSUME NEW r \in Repos, repo'[r].project = "group", ~LinkedAfter(r)
      PROVE  FailedAfter(repo'[r].by) \/ (repo'[r].by = "before" /\ ~backfilled)
  <2>1. SUFFICES ASSUME ~FailedAfter(repo'[r].by)
                 PROVE  repo'[r].by = "before" /\ ~backfilled
    OBVIOUS
  <2>2. repo'[r].project = repo[r].project /\ repo'[r].by = repo[r].by
    BY <2>1 DEF RepoFrame
  <2>3. r \in NotLinked
    BY <1>1, <2>2, StandKeeps DEF RowsFrame, NotLinked
  <2>4. Failed(repo[r].by) \/ (repo[r].by = "before" /\ ~backfilled)
    BY <2>3, LeftParts DEF UnlinkedOnlyByMishap
  <2>5. repo[r].by = s => FailedAfter(s)
    BY <1>1, <2>2 DEF Clean
  <2> QED
    BY <2>1, <2>2, <2>4, <2>5 DEF FailedKept
<1>2. ASSUME NEW r \in Repos, repo'[r].there, repo'[r].project = "none"
      PROVE  FailedAfter(repo'[r].by)
  <2>1. SUFFICES ASSUME ~FailedAfter(repo'[r].by)
                 PROVE  FALSE
    OBVIOUS
  <2>2. repo'[r].project = repo[r].project /\ repo'[r].there = repo[r].there /\ repo'[r].by = repo[r].by
    BY <2>1 DEF RepoFrame
  <2>3. Failed(repo[r].by)
    BY <1>2, <2>2, LeftParts DEF StrandedOnlyByFailure
  <2>4. repo[r].by = s => FailedAfter(s)
    BY <1>2, <2>2 DEF Clean
  <2> QED
    BY <2>1, <2>2, <2>3, <2>4 DEF FailedKept
<1>3. \A r : r \in NotLinked' => r \in Repos /\ repo'[r].project = "group" /\ ~LinkedAfter(r)
  BY DEF NotLinked, RowsOf, Is, LinkedAfter, Nodes
<1>4. UnlinkedOnlyByMishap'
  BY <1>1, <1>3 DEF UnlinkedOnlyByMishap, Failed, Running, FailedAfter
<1>5. StrandedOnlyByFailure'
  BY <1>2 DEF StrandedOnlyByFailure, Failed, Running, FailedAfter
<1> QED
  BY <1>4, <1>5

LEMMA LeftoversStay ==
  ASSUME Shape, Leftovers, RowsFrame, RepoFrame, NEW s, FailedKept(s), FailedAfter(s) \/ Clean(s),
         backfilled' = backfilled,
         \A t \in Sessions : Owns(t, session[t])' /\ Planted(t, session[t])'
  PROVE  Leftovers'
<1>1. OneRow' /\ EmptySystemOnlyByMishap' /\ UnlinkedOnlyByMishap' /\ StrandedOnlyByFailure'
  BY OneRowStays, EmptyStays, UnlinkedStays
<1>2. Projects'
  BY DEF RepoFrame, Projects
<1>3. Migrated'
  <2>1. SUFFICES ASSUME ~backfilled, NEW n \in Nodes, node'[n].level # "none" PROVE node'[n].by # "migration"
    BY DEF Migrated, Nodes
  <2>2. CASE node[n].level = "none"
    BY <2>1, <2>2 DEF RowsFrame
  <2>3. CASE node[n].level # "none"
    BY <2>1, <2>3, LeftParts DEF RowsFrame, Stand, Migrated
  <2> QED
    BY <2>2, <2>3
<1> QED
  BY <1>1, <1>2, <1>3 DEF Leftovers

RepoFor(t) ==
  \A r \in Repos :
    /\ repo'[r].by = t => repo[r].by = t
    /\ repo[r].there /\ repo[r].by = t =>
         repo'[r].there /\ repo'[r].by = t /\ (repo[r].project # "none" => repo'[r].project # "none")
NodeFor(t) ==
  \A n \in Nodes : node'[n].level = "system" /\ node'[n].by = t => node[n].level = "system" /\ node[n].by = t
SameRepos ==
  \A r \in Repos :
    repo'[r].there = repo[r].there /\ repo'[r].project = repo[r].project /\ repo'[r].by = repo[r].by

LEMMA OwnsStays ==
  ASSUME Shape, NEW t \in Sessions, Alike(t), Owns(t, session[t]), RepoFor(t)
  PROVE  Owns(t, session[t])'
<1>1. session'[t].todo = session[t].todo /\ session'[t].ask = session[t].ask /\ session'[t].name = session[t].name
  BY DEF Alike
<1>2. session[t].name \in Repos
  BY RunningIs
<1>3. session[t].todo \in Owning => repo'[session[t].name].there /\ repo'[session[t].name].by = t
  BY <1>2 DEF Owns, RepoFor
<1>4. session[t].todo \in Owning \ {AtProject} => repo'[session[t].name].project # "none"
  BY <1>2 DEF Owns, RepoFor
<1>5. \A r \in Repos : repo'[r].by = t =>
        (session[t].todo = <<>> /\ session[t].ask # "none") \/ (session[t].todo \in Owning /\ r = session[t].name)
  BY DEF Owns, RepoFor
<1> QED
  BY <1>1, <1>3, <1>4, <1>5 DEF Owns

LEMMA PlantedStays ==
  ASSUME Shape, NEW t \in Sessions, Alike(t), Planted(t, session[t]), NodeFor(t), Persist
  PROVE  Planted(t, session[t])'
<1>1. session'[t].todo = session[t].todo /\ session'[t].ask = session[t].ask /\ session'[t].at = session[t].at
  BY DEF Alike
<1>2. session[t].todo \in BelowDelivery => node'[session[t].at].parent = node[session[t].at].parent
  <2>1. Placed(session[t])
    BY RunningIs
  <2>2. session[t].todo \in BelowDelivery => session[t].at \in Nodes /\ node[session[t].at].level # "none"
    BY <2>1 DEF Placed, Level
  <2> QED
    BY <2>2 DEF Persist
<1>3. ASSUME NEW n \in Nodes, node'[n].level = "system", node'[n].by = t
      PROVE  \/ session[t].todo = <<>> /\ session[t].ask # "none"
             \/ session[t].ask = "system" /\ session[t].todo \in BelowSystem /\ n = session[t].at
             \/ session[t].ask = "system" /\ session[t].todo \in BelowDelivery /\ n = node'[session[t].at].parent
  <2>1. Is(n, "system") /\ node[n].by = t
    BY <1>3 DEF NodeFor, Is
  <2> QED
    BY <2>1, <1>2 DEF Planted
<1> QED
  BY <1>1, <1>3 DEF Planted, Is, Nodes

LEMMA OthersOwn ==
  ASSUME Shape, Leftovers, Persist, NEW s, \A t \in Sessions : t # s => Alike(t) /\ RepoFor(t) /\ NodeFor(t)
  PROVE  \A t \in Sessions : t # s => Owns(t, session[t])' /\ Planted(t, session[t])'
  BY OwnsStays, PlantedStays, LeftParts

LEMMA EndsOwns ==
  ASSUME Shape, NEW s \in Sessions, NEW failed, Ends(s, failed), session[s].todo # <<>>
  PROVE  Owns(s, session[s])' /\ Planted(s, session[s])'
<1>1. session[s].ask # "none"
  BY RunningIs, TodoIs
<1>2. session'[s].todo = <<>> /\ session'[s].ask # "none"
  BY <1>1 DEF Ends
<1>3. <<>> \notin Owning
  BY TodoLens DEF Owning, Lasts, Befores
<1> QED
  BY <1>2, <1>3 DEF Owns, Planted

LEMMA NodeStands ==
  ASSUME Shape, node' = node \/ Kept
  PROVE  RowsFrame /\ \A t : NodeFor(t)
<1>1. \A n \in Nodes : /\ node'[n].level = node[n].level /\ node'[n].parent = node[n].parent
                       /\ node'[n].by = node[n].by /\ (node[n].level = "repository" => node'[n].name = node[n].name)
  BY DEF Kept
<1>2. Stand
  BY <1>1 DEF Stand
<1>3. \A n \in Nodes : node[n].level = "none" => node'[n].level = "none"
  BY <1>1
<1> QED
  BY <1>1, <1>2, <1>3 DEF RowsFrame, NodeFor, Newly

LEMMA ReposStand ==
  ASSUME Leftovers, SameRepos
  PROVE  RepoFrame /\ \A t : RepoFor(t)
  BY LeftParts DEF SameRepos, RepoFrame, RepoFor, Projects

LEMMA AlikeFailed ==
  ASSUME NEW s, \A t \in Sessions : t # s => Alike(t)
  PROVE  FailedKept(s)
  BY DEF FailedKept, Failed, Running, FailedAfter, Alike

LEMMA EndsFailed ==
  ASSUME NEW s \in Sessions, Ends(s, TRUE)
  PROVE  FailedAfter(s)
  BY DEF Ends, FailedAfter

LEMMA GoesFailed ==
  ASSUME NEW s \in Sessions, NEW at, NEW seen, Goes(s, at, seen)
  PROVE  FailedAfter(s)
  BY DEF Goes, FailedAfter

Elsewhere == {AtBranch, AtRecord, AtArchive, AtRename, AtStatus, AtDrop}
LEMMA ElsewhereIs ==
  \A todo \in Elsewhere : todo \notin Owning /\ todo \notin BelowSystem /\ todo \notin BelowDelivery /\ todo # <<>>
<1>1. \A todo \in Elsewhere : Last(todo) \in {"deliveryProject", "record", "archive", "rename", "status", "drop"}
  BY TodoLasts DEF Elsewhere
<1>2. \A todo \in Owning : Last(todo) \in {"row", "link"}
  BY TodoLasts DEF Owning
<1>3. \A todo \in BelowSystem \cup BelowDelivery : Last(todo) = "row"
  BY TodoLasts DEF BelowSystem, BelowDelivery
<1>4. \A todo \in Elsewhere : todo # <<>>
  BY TodoLens DEF Elsewhere, Lasts
<1> QED
  BY <1>1, <1>2, <1>3, <1>4

\* A request on another path than a creation's has made nothing.
LEMMA NothingOwned ==
  ASSUME Leftovers, NEW s \in Sessions, session[s].todo # <<>>, session[s].todo \notin Owning
  PROVE  \A r \in Repos : repo[r].by # s
  BY LeftParts DEF Owns

LEMMA NothingPlanted ==
  ASSUME Leftovers, NEW s \in Sessions, session[s].todo # <<>>,
         (session[s].todo \notin BelowSystem /\ session[s].todo \notin BelowDelivery) \/ session[s].ask # "system"
  PROVE  \A n \in Nodes : Is(n, "system") => node[n].by # s
  BY LeftParts DEF Planted

LEMMA ElsewhereClean ==
  ASSUME Leftovers, NEW s \in Sessions, session[s].todo \in Elsewhere
  PROVE  Clean(s)
  BY ElsewhereIs, NothingOwned, NothingPlanted DEF Clean

\* A step that leaves rows and repositories alone, of a request that fails,
\* goes on, or has made nothing.
LEMMA QuietLeftovers ==
  ASSUME Shape, Leftovers, NEW s \in Sessions, Persist, backfilled' = backfilled,
         \A t \in Sessions : t # s => Alike(t),
         node' = node \/ Kept, SameRepos, FailedAfter(s) \/ Clean(s),
         Owns(s, session[s])' /\ Planted(s, session[s])'
  PROVE  Leftovers'
<1>1. RowsFrame /\ RepoFrame /\ \A t : NodeFor(t) /\ RepoFor(t)
  BY NodeStands, ReposStand
<1>2. \A t \in Sessions : t # s => Owns(t, session[t])' /\ Planted(t, session[t])'
  BY <1>1, OthersOwn
<1>3. FailedKept(s)
  BY AlikeFailed
<1> QED
  BY <1>1, <1>2, <1>3, LeftoversStay

LEMMA EndsQuietly ==
  ASSUME Shape, Leftovers, NEW s \in Sessions, NEW failed, Ends(s, failed), session[s].todo # <<>>,
         Persist, backfilled' = backfilled, node' = node \/ Kept, SameRepos, failed = TRUE \/ Clean(s)
  PROVE  Leftovers'
<1>1. \A t \in Sessions : t # s => Alike(t)
  BY OthersAlike DEF Ends
<1>2. FailedAfter(s) \/ Clean(s)
  BY EndsFailed
<1> QED
  BY <1>1, <1>2, EndsOwns, QuietLeftovers

LEMMA OwningHeads ==
  /\ \A todo \in Owning : Head(todo) \in {"project", "row", "find", "link"}
  /\ \A todo \in BelowDelivery : todo # AtRow => Tail(todo) \in BelowDelivery
  /\ \A todo \in BelowSystem : todo # AtDelivery => Tail(todo) \in BelowSystem
  /\ \A todo \in BelowSystem \cup BelowDelivery : todo # <<>>
<1>1. \A todo \in Owning : Head(todo) \in {"project", "row", "find", "link"}
  BY TodoHeads DEF Owning
<1>2. \A todo \in BelowDelivery : todo # AtRow => Tail(todo) \in BelowDelivery
  BY TodoTails DEF BelowDelivery
<1>3. \A todo \in BelowSystem : todo # AtDelivery => Tail(todo) \in BelowSystem
  BY TodoTails DEF BelowSystem
<1>4. \A todo \in BelowSystem \cup BelowDelivery : todo # <<>>
  BY TodoLens DEF BelowSystem, BelowDelivery, Lasts, Befores
<1> QED
  BY <1>1, <1>2, <1>3, <1>4

LEMMA GoesPlanted ==
  ASSUME Shape, Leftovers, NEW s \in Sessions, NEW seen, Goes(s, session[s].at, seen),
         session[s].todo # <<>>, session[s].todo # AtDelivery, NodeFor(s), Persist
  PROVE  Planted(s, session[s])'
<1>1. /\ session'[s].todo = Tail(session[s].todo) /\ session'[s].todo # <<>>
      /\ session'[s].ask = session[s].ask /\ session'[s].at = session[s].at
  BY DEF Goes
<1>2. session[s].todo # AtRow
  BY <1>1, TodoTails
<1>3. /\ session[s].todo \in BelowSystem => session'[s].todo \in BelowSystem
      /\ session[s].todo \in BelowDelivery => session'[s].todo \in BelowDelivery
  BY <1>1, <1>2, OwningHeads
<1>4. session[s].todo \in BelowDelivery => node'[session[s].at].parent = node[session[s].at].parent
  <2>1. Placed(session[s])
    BY RunningIs
  <2>2. session[s].todo \in BelowDelivery => session[s].at \in Nodes /\ node[session[s].at].level # "none"
    BY <2>1 DEF Placed, Level
  <2> QED
    BY <2>2 DEF Persist
<1>5. ASSUME NEW n \in Nodes, node'[n].level = "system", node'[n].by = s
      PROVE  \/ session[s].ask = "system" /\ session[s].todo \in BelowSystem /\ n = session[s].at
             \/ session[s].ask = "system" /\ session[s].todo \in BelowDelivery /\ n = node'[session[s].at].parent
  <2>1. Is(n, "system") /\ node[n].by = s
    BY <1>5 DEF NodeFor, Is
  <2> QED
    BY <2>1, <1>4, LeftParts DEF Planted
<1> QED
  BY <1>1, <1>3, <1>5 DEF Planted, Is, Nodes

LEMMA NotOwning ==
  ASSUME NEW s \in Sessions, session'[s].todo \notin Owning, \A r \in Repos : repo'[r].by # s
  PROVE  Owns(s, session[s])'
  BY DEF Owns

LEMMA CheckRightLeft ==
  ASSUME Shape, Leftovers, NEW s \in Sessions, CheckRight(s)
  PROVE  Leftovers'
<1>1. /\ UNCHANGED <<group, standing, node, repo, change, assigned, asked, access, backfilled, events>>
      /\ session[s].todo # <<>> /\ Head(session[s].todo) = "right"
      /\ Ends(s, TRUE) \/ Goes(s, session[s].at, events)
  BY CheckRightIs
<1>2. Persist /\ SameRepos
  BY <1>1, NodeKept DEF SameRepos
<1>3. CASE Ends(s, TRUE)
  BY <1>1, <1>2, <1>3, EndsQuietly
<1>4. CASE Goes(s, session[s].at, events)
  <2>1. \A t \in Sessions : t # s => Alike(t)
    BY <1>4, OthersAlike DEF Goes
  <2>2. session[s].todo \notin Owning /\ session[s].todo # AtDelivery
    BY <1>1, OwningHeads, TodoHeads
  <2>3. Planted(s, session[s])'
    BY <1>1, <1>2, <1>4, <2>2, NodeStands, GoesPlanted
  <2>4. session[s].todo \in Befores
    BY <1>1, <1>4, GoesIsRunning
  <2>5. session'[s].todo \notin Owning
    <3>1. SUFFICES ASSUME Tail(session[s].todo) \in Owning PROVE FALSE
      BY <1>4 DEF Goes
    <3>2. session[s].todo \in {AtRepo, AtProject, AtForm, AtFind}
      BY <2>4, <3>1, TodoWas
    <3> QED
      BY <1>1, <3>2, TodoHeads
  <2>6. Owns(s, session[s])'
    BY <1>1, <2>2, <2>5, NothingOwned, NotOwning
  <2> QED
    BY <1>1, <1>2, <1>4, <2>1, <2>3, <2>6, GoesFailed, QuietLeftovers
<1> QED
  BY <1>1, <1>3, <1>4

LEMMA StepFailsLeft ==
  ASSUME Shape, Leftovers, NEW s \in Sessions, StepFails(s)
  PROVE  Leftovers'
<1>1. /\ UNCHANGED <<group, standing, node, repo, change, assigned, asked, access, backfilled>>
      /\ session[s].todo # <<>> /\ Ends(s, TRUE)
  BY StepFailsIs
<1> QED
  BY <1>1, NodeKept, EndsQuietly DEF SameRepos

LEMMA BeginsLeft ==
  ASSUME Shape, Leftovers, NEW s \in Sessions, Begins(s)
  PROVE  Leftovers'
<1>1. /\ UNCHANGED <<group, standing, node, repo, change, assigned, asked, access, backfilled, events>>
      /\ Others(s) /\ session[s].ask = "none" /\ session[s].todo = <<>>
      /\ session'[s].todo \in Firsts /\ session'[s].todo = Path(session'[s].ask) /\ session'[s].ask \in RequestKinds
  BY DEF Begins
<1>2. Persist /\ SameRepos
  BY <1>1, NodeKept DEF SameRepos
<1>3. \A t \in Sessions : t # s => Alike(t)
  BY <1>1, OthersAlike
<1>4. session'[s].todo \notin Owning /\ session'[s].todo # <<>>
  <2>1. \A todo \in Firsts : Head(todo) \in {"right", "form"}
    BY TodoHeads DEF Firsts
  <2> QED
    BY <1>1, <2>1, OwningHeads, PathIs
<1>5. <<>> \notin Owning /\ <<>> \notin BelowSystem /\ <<>> \notin BelowDelivery
  <2>1. <<>> \notin Owning
    BY TodoLens DEF Owning, Lasts, Befores
  <2> QED
    BY <2>1, OwningHeads
<1>6. \A r \in Repos : repo[r].by # s
  BY <1>1, <1>5, LeftParts DEF Owns
<1>7. \A n \in Nodes : Is(n, "system") => node[n].by # s
  BY <1>1, <1>5, LeftParts DEF Planted
<1>8. Owns(s, session[s])'
  BY <1>1, <1>4, <1>6, NotOwning
<1>9. Planted(s, session[s])'
  BY <1>1, <1>7 DEF Planted, Is, Nodes
<1>10. FailedAfter(s)
  BY <1>4 DEF FailedAfter
<1> QED
  BY <1>1, <1>2, <1>3, <1>8, <1>9, <1>10, QuietLeftovers

LEMMA FindLinkLeft ==
  ASSUME Shape, Leftovers, NEW s \in Sessions, FindLink(s)
  PROVE  Leftovers'
<1>1. /\ Tables /\ node' = node /\ repo' = repo /\ session[s].todo = AtFind /\ session[s].ask = "form"
      /\ \/ /\ repo[session[s].name].project = "group" /\ Goes(s, session[s].at, session[s].seen)
         \/ /\ ~(repo[session[s].name].project = "group" /\ RowsOf(session[s].name) = {})
            /\ Ends(s, FALSE)
  BY FindLinkIs
<1>2. Persist /\ SameRepos /\ backfilled' = backfilled
  BY <1>1, NodeKept DEF SameRepos, Tables
<1>3. session[s].todo \in Owning \ {AtProject} /\ session[s].todo # <<>> /\ session[s].todo # AtDelivery
  BY <1>1, TodoHeads, TodoLens DEF Owning, Befores
<1>4. Owns(s, session[s]) /\ session[s].name \in Repos
  BY LeftParts, RunningIs
<1>5. CASE Ends(s, FALSE) /\ ~(repo[session[s].name].project = "group" /\ RowsOf(session[s].name) = {})
  <2>1. \A n \in Nodes : Is(n, "system") => node[n].by # s
    BY <1>1, <1>3, NothingPlanted
  <2>2. RowsOf(session[s].name) # {} => LinkedAfter(session[s].name)
    BY <1>1, NodeStands, StandKeeps DEF RowsFrame
  <2>3. \A r \in Repos : repo[r].by = s => r = session[s].name
    BY <1>3, <1>4 DEF Owns
  <2>4. Clean(s)
    BY <1>3, <1>4, <1>5, <2>1, <2>2, <2>3 DEF Clean, Owns
  <2> QED
    BY <1>1, <1>2, <1>3, <1>5, <2>4, EndsQuietly
<1>6. CASE repo[session[s].name].project = "group" /\ Goes(s, session[s].at, session[s].seen)
  <2>1. \A t \in Sessions : t # s => Alike(t)
    BY <1>6, OthersAlike DEF Goes
  <2>2. session'[s].todo = AtLink /\ session'[s].name = session[s].name
    BY <1>1, <1>6, TodoTails DEF Goes
  <2>3. Planted(s, session[s])'
    BY <1>1, <1>2, <1>3, <1>6, NodeStands, GoesPlanted
  <2>4. AtLink \in Owning
    BY DEF Owning
  <2>5. Owns(s, session[s])'
    BY <1>1, <1>3, <1>4, <1>6, <2>2, <2>4 DEF Owns
  <2> QED
    BY <1>1, <1>2, <1>6, <2>1, <2>3, <2>5, GoesFailed, QuietLeftovers
<1> QED
  BY <1>1, <1>5, <1>6

LEMMA RepoMadeLeft ==
  ASSUME Shape, Leftovers, NEW s \in Sessions, NEW project, RepoTables,
         Goes(s, session[s].at, session[s].seen), session[s].todo \in {AtRepo, AtForm},
         ~repo[session[s].name].there, RepoBecomes(session[s].name, TRUE, s, project),
         session[s].todo = AtForm => project # "none"
  PROVE  Leftovers'
<1>1. node' = node /\ Persist /\ backfilled' = backfilled
  BY NodeKept DEF RepoTables
<1>2. \A t \in Sessions : t # s => Alike(t)
  BY OthersAlike DEF Goes
<1>3. FailedAfter(s) /\ FailedKept(s)
  BY <1>2, GoesFailed, AlikeFailed
<1>4. session[s].name \in Repos
  BY RunningIs
<1>5. RepoFrame
  BY <1>3, LeftParts DEF RepoFrame, RepoBecomes, Projects
<1>6. \A t : t # s => RepoFor(t)
  BY <1>4 DEF RepoFor, RepoBecomes
<1>7. session[s].todo \notin Owning /\ session[s].todo # <<>> /\ session[s].todo # AtDelivery
  <2>1. Head(session[s].todo) \in {"repo", "form"}
    BY TodoHeads
  <2>2. session[s].todo # <<>>
    BY TodoLens DEF Befores
  <2> QED
    BY <2>1, <2>2, OwningHeads, TodoHeads
<1>8. \A r \in Repos : repo[r].by # s
  BY <1>7, NothingOwned
<1>9. Planted(s, session[s])'
  BY <1>1, <1>7, NodeStands, GoesPlanted
<1>10. Owns(s, session[s])'
  <2>1. session'[s].name = session[s].name /\ session'[s].todo \in {AtProject, AtFind}
        /\ (session'[s].todo # AtProject => session[s].todo = AtForm)
    BY TodoTails DEF Goes
  <2>2. session'[s].todo \in Owning
    BY <2>1 DEF Owning
  <2>3. repo'[session[s].name].there /\ repo'[session[s].name].by = s /\ repo'[session[s].name].project = project
    BY DEF RepoBecomes
  <2>4. \A r \in Repos : repo'[r].by = s => r = session[s].name
    BY <1>8 DEF RepoBecomes
  <2> QED
    BY <2>1, <2>2, <2>3, <2>4 DEF Owns
<1>11. RowsFrame /\ \A t : NodeFor(t)
  BY <1>1, NodeStands
<1>12. \A t \in Sessions : t # s => Owns(t, session[t])' /\ Planted(t, session[t])'
  BY <1>1, <1>2, <1>6, <1>11, OthersOwn
<1> QED
  BY <1>1, <1>3, <1>5, <1>9, <1>10, <1>11, <1>12, LeftoversStay

LEMMA CreatesLeft ==
  ASSUME Shape, Leftovers, NEW s \in Sessions, CreateRepo(s) \/ CreateProject(s)
  PROVE  Leftovers'
<1>1. CASE CreateRepo(s)
  <2>1. /\ RepoTables /\ session[s].todo = AtRepo
        /\ \/ Ends(s, TRUE) /\ repo' = repo
           \/ /\ ~repo[session[s].name].there /\ Goes(s, session[s].at, session[s].seen)
              /\ RepoBecomes(session[s].name, TRUE, s, repo[session[s].name].project)
    BY <1>1, CreateRepoIs
  <2>2. session[s].todo # <<>> /\ session[s].todo # AtForm
    BY <2>1, TodoHeads, TodoLens DEF Befores
  <2>3. CASE Ends(s, TRUE) /\ repo' = repo
    BY <2>1, <2>2, <2>3, NodeKept, EndsQuietly DEF RepoTables, SameRepos
  <2> QED
    BY <2>1, <2>2, <2>3, RepoMadeLeft
<1>2. CASE CreateProject(s)
  <2>1. /\ RepoTables /\ session[s].todo = AtForm
        /\ \/ Ends(s, TRUE) /\ repo' = repo
           \/ \E owner \in {"group", "own"} :
                /\ ~repo[session[s].name].there
                /\ Goes(s, session[s].at, session[s].seen)
                /\ RepoBecomes(session[s].name, TRUE, s, owner)
    BY <1>2, CreateProjectIs
  <2>2. session[s].todo # <<>>
    BY <2>1, TodoLens DEF Befores
  <2>3. CASE Ends(s, TRUE) /\ repo' = repo
    BY <2>1, <2>2, <2>3, NodeKept, EndsQuietly DEF RepoTables, SameRepos
  <2>4. ASSUME NEW owner \in {"group", "own"}, ~repo[session[s].name].there,
               Goes(s, session[s].at, session[s].seen), RepoBecomes(session[s].name, TRUE, s, owner)
        PROVE  Leftovers'
    <3>1. owner # "none"
      BY <2>4
    <3> QED
      BY <2>1, <2>4, <3>1, RepoMadeLeft
  <2> QED
    BY <2>1, <2>3, <2>4
<1> QED
  BY <1>1, <1>2

LEMMA InsertProjectLeft ==
  ASSUME Shape, Leftovers, NEW s \in Sessions, InsertProject(s)
  PROVE  Leftovers'
<1>1. /\ RepoTables /\ session[s].todo = AtProject
      /\ \/ Ends(s, TRUE) /\ repo' = repo
         \/ /\ Goes(s, session[s].at, session[s].seen)
            /\ RepoBecomes(session[s].name, repo[session[s].name].there, repo[session[s].name].by, "group")
  BY InsertProjectIs
<1>2. node' = node /\ Persist /\ backfilled' = backfilled
  BY <1>1, NodeKept DEF RepoTables
<1>3. session[s].todo # <<>> /\ session[s].todo \in Owning /\ session[s].todo # AtDelivery
  BY <1>1, TodoHeads, TodoLens DEF Befores, Owning
<1>4. CASE Ends(s, TRUE) /\ repo' = repo
  BY <1>2, <1>3, <1>4, EndsQuietly DEF SameRepos
<1>5. CASE /\ Goes(s, session[s].at, session[s].seen)
           /\ RepoBecomes(session[s].name, repo[session[s].name].there, repo[session[s].name].by, "group")
  <2>1. \A t \in Sessions : t # s => Alike(t)
    BY <1>5, OthersAlike DEF Goes
  <2>2. FailedAfter(s) /\ FailedKept(s)
    BY <1>5, <2>1, GoesFailed, AlikeFailed
  <2>3. session[s].name \in Repos /\ repo[session[s].name].there /\ repo[session[s].name].by = s
        /\ \A r \in Repos : repo[r].by = s => r = session[s].name
    BY <1>3, RunningIs, LeftParts DEF Owns
  <2>4. /\ \A q \in Repos : q # session[s].name => repo'[q] = repo[q]
        /\ repo'[session[s].name].there /\ repo'[session[s].name].by = s /\ repo'[session[s].name].project = "group"
    BY <1>5, <2>3 DEF RepoBecomes
  <2>5. RepoFrame
    BY <2>2, <2>4, LeftParts DEF RepoFrame, Projects
  <2>6. \A t : t # s => RepoFor(t)
    BY <2>3, <2>4 DEF RepoFor
  <2>7. Planted(s, session[s])'
    BY <1>2, <1>3, <1>5, NodeStands, GoesPlanted
  <2>8. Owns(s, session[s])'
    <3>1. session'[s].name = session[s].name /\ session'[s].todo = AtRow
      BY <1>1, <1>5, TodoTails DEF Goes
    <3>2. session'[s].todo \in Owning
      BY <3>1 DEF Owning
    <3>3. \A r \in Repos : repo'[r].by = s => r = session[s].name
      BY <2>3, <2>4
    <3> QED
      BY <2>4, <3>1, <3>2, <3>3 DEF Owns
  <2>9. RowsFrame /\ \A t : NodeFor(t)
    BY <1>2, NodeStands
  <2>10. \A t \in Sessions : t # s => Owns(t, session[t])' /\ Planted(t, session[t])'
    BY <1>2, <2>1, <2>6, <2>9, OthersOwn
  <2> QED
    BY <1>2, <2>2, <2>5, <2>7, <2>8, <2>9, <2>10, LeftoversStay
<1> QED
  BY <1>1, <1>4, <1>5

LEMMA OneRowFrame ==
  ASSUME Shape, NEW s \in Sessions, NEW made, Grown(<<made>>, 1), made.by = s,
         made.level = "system" => FailedAfter(s),
         made.level = "repository" => RowsOf(made.name) = {}
  PROVE  RowsFrame /\ Persist /\ \A t : t # s => NodeFor(t)
<1> DEFINE new == Rows + 1
<1>1. /\ Persist /\ new \in Nodes
      /\ \A n \in Nodes : node[n].level # "none" => node'[n] = node[n]
      /\ \A n \in Nodes : node[n].level = "none" /\ node'[n].level # "none" => n = new
      /\ node'[new] = made
  BY OneGrown
<1> HIDE DEF new
<1>2. s # "migration"
  BY HierarchyAssumption
<1>3. Stand
  BY <1>1 DEF Stand
<1>4. \A n \in Nodes : node[n].level = "none" /\ node'[n].level # "none" => n = new /\ node'[n] = made
  BY <1>1
<1>5. RowsFrame
  <2>1. \A n \in Nodes : Newly(n, "system") => FailedAfter(node'[n].by)
    BY <1>4 DEF Newly
  <2>2. \A n \in Nodes : node[n].level = "none" /\ node'[n].level # "none" => node'[n].by # "migration"
    BY <1>2, <1>4
  <2>3. ASSUME NEW n \in Nodes, Newly(n, "repository")
        PROVE  RowsOf(node'[n].name) = {} /\ \A m \in Nodes : Newly(m, "repository") /\ node'[m].name = node'[n].name => m = n
    BY <2>3, <1>4 DEF Newly
  <2> QED
    BY <1>3, <2>1, <2>2, <2>3 DEF RowsFrame
<1>6. ASSUME NEW t, t # s PROVE NodeFor(t)
  <2>1. ASSUME NEW n \in Nodes, node'[n].level = "system", node'[n].by = t
        PROVE  node[n].level = "system" /\ node[n].by = t
    <3>1. node[n].level # "none"
      BY <1>4, <1>6, <2>1
    <3> QED
      BY <1>1, <2>1, <3>1
  <2> QED
    BY <2>1 DEF NodeFor
<1> QED
  BY <1>1, <1>5, <1>6

LEMMA InsertHeads ==
  /\ AtSystem \notin Owning /\ AtSystem \notin BelowSystem /\ AtSystem \notin BelowDelivery /\ AtSystem # <<>>
  /\ AtDelivery \notin Owning /\ AtDelivery \in BelowSystem /\ AtDelivery \notin BelowDelivery /\ AtDelivery # <<>>
  /\ AtRow \in Owning \ {AtProject} /\ AtRow \notin BelowSystem /\ AtRow \in BelowDelivery /\ AtRow # <<>>
  /\ AtLink \in Owning \ {AtProject} /\ AtLink \notin BelowSystem /\ AtLink \notin BelowDelivery /\ AtLink # <<>>
  /\ AskDelivery \notin Owning /\ AskDelivery \in BelowSystem
  /\ AskRepo \notin Owning /\ AskRepo \in BelowDelivery /\ AtBranch \in Elsewhere /\ AtBranch # <<>>
<1>1. \A todo \in BelowSystem : Head(todo) \in {"right", "deliveryProject"}
  BY TodoHeads DEF BelowSystem
<1>2. \A todo \in BelowDelivery : Head(todo) \in {"right", "repo", "project", "row"}
  BY TodoHeads DEF BelowDelivery
<1>3. AtSystem # <<>> /\ AtDelivery # <<>> /\ AtRow # <<>> /\ AtLink # <<>> /\ AtBranch # <<>>
  BY TodoLens DEF Lasts, Befores
<1>4. AtSystem \notin Owning /\ AtSystem \notin BelowSystem /\ AtSystem \notin BelowDelivery
  BY <1>1, <1>2, OwningHeads, TodoHeads
<1>5. AtDelivery \notin Owning /\ AtDelivery \in BelowSystem /\ AtDelivery \notin BelowDelivery
  BY <1>2, OwningHeads, TodoHeads DEF BelowSystem
<1>6. AtRow \in Owning \ {AtProject} /\ AtRow \notin BelowSystem /\ AtRow \in BelowDelivery
  <2>1. AtRow \notin BelowSystem /\ AtRow # AtProject
    BY <1>1, TodoHeads
  <2> QED
    BY <2>1 DEF Owning, BelowDelivery
<1>7. AtLink \in Owning \ {AtProject} /\ AtLink \notin BelowSystem /\ AtLink \notin BelowDelivery
  <2>1. AtLink \notin BelowSystem /\ AtLink \notin BelowDelivery /\ AtLink # AtProject
    BY <1>1, <1>2, TodoHeads
  <2> QED
    BY <2>1 DEF Owning
<1>8. AskDelivery \notin Owning /\ AskDelivery \in BelowSystem
  BY OwningHeads, TodoHeads DEF BelowSystem
<1>9. AskRepo \notin Owning /\ AskRepo \in BelowDelivery /\ AtBranch \in Elsewhere
  BY OwningHeads, TodoHeads DEF BelowDelivery, Elsewhere
<1> QED
  BY <1>3, <1>4, <1>5, <1>6, <1>7, <1>8, <1>9

LEMMA MadeFields ==
  ASSUME NEW s, NEW level
  PROVE  /\ Made1(s, level).by = s /\ Made1(s, level).level = level
         /\ Made1(s, level).parent = session[s].at /\ Made1(s, level).name = session[s].name
  BY MadeIs DEF Made1

\* A row is made by a step of s, which leaves the repositories alone.
LEMMA RowLeft ==
  ASSUME Shape, Leftovers, NEW s \in Sessions, Tables, repo' = repo, RowsFrame, Persist,
         \A t : t # s => NodeFor(t), \A t \in Sessions : t # s => Alike(t),
         FailedAfter(s) \/ Clean(s), Owns(s, session[s])', Planted(s, session[s])'
  PROVE  Leftovers'
<1>1. RepoFrame /\ \A t : RepoFor(t)
  BY ReposStand DEF SameRepos
<1>2. \A t \in Sessions : t # s => Owns(t, session[t])' /\ Planted(t, session[t])'
  BY <1>1, OthersOwn
<1>3. FailedKept(s) /\ backfilled' = backfilled
  BY AlikeFailed DEF Tables
<1> QED
  BY <1>1, <1>2, <1>3, LeftoversStay

LEMMA StillLeft ==
  ASSUME Shape, Leftovers, NEW s \in Sessions, Ends(s, TRUE), session[s].todo # <<>>,
         Tables, repo' = repo, node' = node
  PROVE  Leftovers'
<1>1. SameRepos /\ backfilled' = backfilled /\ Persist
  BY NodeKept DEF SameRepos, Tables
<1> QED
  BY <1>1, EndsQuietly

LEMMA CreateSystemLeft ==
  ASSUME Shape, Leftovers, NEW s \in Sessions, CreateSystem(s)
  PROVE  Leftovers'
<1>1. /\ Tables /\ repo' = repo /\ session[s].todo = AtSystem /\ session[s].ask = "system"
      /\ \/ Ends(s, TRUE) /\ node' = node
         \/ /\ Grown(<<Made1(s, "system")>>, 1) /\ Goes(s, Rows + 1, session[s].seen)
  BY CreateSystemIs
<1>2. session[s].todo # <<>>
  BY <1>1, InsertHeads
<1>3. CASE Ends(s, TRUE) /\ node' = node
  BY <1>1, <1>2, <1>3, StillLeft
<1>4. CASE Grown(<<Made1(s, "system")>>, 1) /\ Goes(s, Rows + 1, session[s].seen)
  <2>1. \A t \in Sessions : t # s => Alike(t)
    BY <1>4, OthersAlike DEF Goes
  <2>2. FailedAfter(s)
    BY <1>4, GoesFailed
  <2>3. RowsFrame /\ Persist /\ \A t : t # s => NodeFor(t)
    BY <1>4, <2>2, MadeFields, OneRowFrame
  <2>4. session'[s].todo = AskDelivery /\ session'[s].at = Rows + 1 /\ session'[s].ask = "system"
    BY <1>1, <1>4, TodoTails DEF Goes
  <2>5. Owns(s, session[s])'
    BY <1>1, <1>2, <2>4, InsertHeads, NothingOwned, NotOwning
  <2>6. \A n \in Nodes : Is(n, "system") => node[n].by # s
    BY <1>1, <1>2, InsertHeads, NothingPlanted
  <2>7. ASSUME NEW n \in Nodes, node'[n].level = "system", node'[n].by = s PROVE n = Rows + 1
    <3>1. /\ node[n].level # "none" => node'[n] = node[n]
          /\ node[n].level = "none" => n = Rows + 1
      BY <1>4, <2>7, OneGrown
    <3> QED
      BY <2>6, <2>7, <3>1 DEF Is
  <2>8. Planted(s, session[s])'
    BY <2>4, <2>7, InsertHeads DEF Planted, Is, Nodes
  <2> QED
    BY <1>1, <2>1, <2>2, <2>3, <2>5, <2>8, RowLeft
<1> QED
  BY <1>1, <1>3, <1>4

LEMMA CreateDeliveryProjectLeft ==
  ASSUME Shape, Leftovers, NEW s \in Sessions, CreateDeliveryProject(s)
  PROVE  Leftovers'
<1>1. /\ Tables /\ repo' = repo /\ session[s].todo \in {AtDelivery, AtBranch}
      /\ \/ Ends(s, TRUE) /\ node' = node
         \/ /\ Grown(<<Made1(s, "deliveryProject")>>, 1)
            /\ session[s].todo = AtDelivery => Goes(s, Rows + 1, session[s].seen)
            /\ session[s].todo = AtBranch => Ends(s, FALSE)
  BY CreateDeliveryProjectIs
<1>2. session[s].todo # <<>>
  BY <1>1, InsertHeads
<1>3. CASE Ends(s, TRUE) /\ node' = node
  BY <1>1, <1>2, <1>3, StillLeft
<1>4. CASE Grown(<<Made1(s, "deliveryProject")>>, 1)
  <2>1. RowsFrame /\ Persist /\ \A t : t # s => NodeFor(t)
    BY <1>4, MadeFields, OneRowFrame
  <2>2. CASE session[s].todo = AtBranch /\ Ends(s, FALSE)
    <3>1. \A t \in Sessions : t # s => Alike(t)
      BY <2>2, OthersAlike DEF Ends
    <3>2. Clean(s)
      BY <2>2, InsertHeads, ElsewhereClean
    <3> QED
      BY <1>1, <1>2, <2>1, <2>2, <3>1, <3>2, EndsOwns, RowLeft
  <2>3. CASE session[s].todo = AtDelivery /\ Goes(s, Rows + 1, session[s].seen)
    <3>1. \A t \in Sessions : t # s => Alike(t)
      BY <2>3, OthersAlike DEF Goes
    <3>2. FailedAfter(s)
      BY <2>3, GoesFailed
    <3>3. session'[s].todo = AskRepo /\ session'[s].at = Rows + 1 /\ session'[s].ask = session[s].ask
      BY <2>3, TodoTails DEF Goes
    <3>4. session[s].ask = "system"
      BY <2>3, InsertHeads, RunningIs, TodoAsk
    <3>5. Owns(s, session[s])'
      BY <1>1, <1>2, <2>3, <3>3, InsertHeads, NothingOwned, NotOwning
    <3>6. \A n \in Nodes : Is(n, "system") /\ node[n].by = s => n = session[s].at
      BY <1>2, <2>3, InsertHeads, LeftParts DEF Planted
    <3>7. node'[Rows + 1].parent = session[s].at
      BY <1>4, OneGrown, MadeFields
    <3>8. ASSUME NEW n \in Nodes, node'[n].level = "system", node'[n].by = s PROVE n = session[s].at
      <4>1. /\ node[n].level # "none" => node'[n] = node[n]
            /\ node[n].level = "none" => node'[n] = Made1(s, "deliveryProject")
        BY <1>4, <3>8, OneGrown
      <4>2. Made1(s, "deliveryProject").level = "deliveryProject"
        BY MadeFields
      <4> QED
        BY <3>6, <3>8, <4>1, <4>2 DEF Is
    <3>9. Planted(s, session[s])'
      BY <3>3, <3>4, <3>7, <3>8, InsertHeads DEF Planted, Is, Nodes
    <3> QED
      BY <1>1, <2>1, <3>1, <3>2, <3>5, <3>9, RowLeft
  <2> QED
    BY <1>1, <1>2, <2>2, <2>3, <1>3
<1> QED
  BY <1>1, <1>3, <1>4

LEMMA InsertRowLeft ==
  ASSUME Shape, Leftovers, NEW s \in Sessions, InsertRow(s)
  PROVE  Leftovers'
<1>1. /\ Tables /\ repo' = repo /\ session[s].todo = AtRow
      /\ \/ Ends(s, TRUE) /\ node' = node
         \/ /\ Is(session[s].at, "deliveryProject") /\ RowsOf(session[s].name) = {}
            /\ Grown(<<Made1(s, "repository")>>, 1) /\ Ends(s, FALSE)
  BY InsertRowIs
<1>2. session[s].todo # <<>>
  BY <1>1, InsertHeads
<1>3. CASE Ends(s, TRUE) /\ node' = node
  BY <1>1, <1>2, <1>3, StillLeft
<1>4. CASE /\ Is(session[s].at, "deliveryProject") /\ RowsOf(session[s].name) = {}
           /\ Grown(<<Made1(s, "repository")>>, 1) /\ Ends(s, FALSE)
  <2> DEFINE new == Rows + 1
  <2>1. RowsFrame /\ Persist /\ \A t : t # s => NodeFor(t)
    BY <1>4, MadeFields, OneRowFrame
  <2>2. \A t \in Sessions : t # s => Alike(t)
    BY <1>4, OthersAlike DEF Ends
  <2>3. /\ new \in Nodes /\ node'[new].level = "repository" /\ node'[new].parent = session[s].at
        /\ node'[new].name = session[s].name /\ node'[session[s].at] = node[session[s].at]
    BY <1>4, OneGrown, MadeFields DEF Is
  <2> HIDE DEF new
  <2>4. LinkedAfter(session[s].name)
    BY <2>3 DEF LinkedAfter
  <2>5. HoldsAfter(node[session[s].at].parent)
    BY <2>3 DEF HoldsAfter
  <2>6. \A n \in Nodes : Is(n, "system") /\ node[n].by = s => n = node[session[s].at].parent
    BY <1>1, <1>2, InsertHeads, LeftParts DEF Planted
  <2>7. /\ repo[session[s].name].project # "none"
        /\ \A r \in Repos : repo[r].by = s => r = session[s].name
    BY <1>1, <1>2, InsertHeads, LeftParts DEF Owns
  <2>8. Clean(s)
    BY <2>4, <2>5, <2>6, <2>7 DEF Clean
  <2> QED
    BY <1>1, <1>2, <1>4, <2>1, <2>2, <2>8, EndsOwns, RowLeft
<1> QED
  BY <1>1, <1>3, <1>4

LEMMA ChainFrame ==
  ASSUME Shape, NEW s \in Sessions, NEW r, NEW added, ChainLinks(added, r, s), Grown(added, 3),
         RowsOf(r) = {}
  PROVE  RowsFrame /\ Persist /\ (\A t : t # s => NodeFor(t)) /\ LinkedAfter(r)
<1> DEFINE three == 3
           one == Rows + 1
           two == Rows + 2
           last == Rows + 3
<1>1. three \in Nat /\ {1, 2, 3} = 1..three /\ Grown(added, three) /\ Rows \in Int
  BY TypesAre DEF Numbered
<1>2. \A n \in Nodes : n - Rows \in {1, 2, 3} => n \in {one, two, last}
  BY <1>1 DEF Nodes
<1> HIDE DEF three
<1>3. /\ Persist
      /\ \A n \in Nodes : node[n].level # "none" => node'[n] = node[n]
      /\ \A n \in Nodes : node[n].level = "none" /\ node'[n].level # "none" => n - Rows \in 1..three
      /\ \A i \in 1..three : Rows + i \in Nodes /\ node'[Rows + i] = added[i]
  BY <1>1, GrownIs
<1>4. /\ one \in Nodes /\ node'[one] = added[1]
      /\ two \in Nodes /\ node'[two] = added[2]
      /\ last \in Nodes /\ node'[last] = added[3]
  BY <1>1, <1>3
<1>5. /\ added[1] = Made("system", 0, r, s) /\ added[2] = Made("deliveryProject", one, r, s)
      /\ added[3] = Made("repository", two, r, s)
  BY DEF ChainLinks
<1> HIDE DEF one, two, last
<1>6. /\ node'[one].level = "system" /\ node'[one].by = s
      /\ node'[two].level = "deliveryProject" /\ node'[two].parent = one /\ node'[two].by = s
      /\ node'[last].level = "repository" /\ node'[last].parent = two /\ node'[last].by = s /\ node'[last].name = r
  BY <1>4, <1>5, MadeIs
<1>7. HoldsAfter(one) /\ LinkedAfter(r)
  BY <1>4, <1>6 DEF HoldsAfter, LinkedAfter
<1>8. \A n \in Nodes : node[n].level = "none" /\ node'[n].level # "none" => n \in {one, two, last}
  BY <1>1, <1>2, <1>3
<1>9. s # "migration"
  BY HierarchyAssumption
<1>10. RowsFrame
  <2>1. Stand
    BY <1>3 DEF Stand
  <2>2. \A n \in Nodes : Newly(n, "system") => HoldsAfter(n)
    BY <1>6, <1>7, <1>8 DEF Newly
  <2>3. \A n \in Nodes : node[n].level = "none" /\ node'[n].level # "none" => node'[n].by # "migration"
    BY <1>6, <1>8, <1>9
  <2>4. \A n \in Nodes : Newly(n, "repository") => n = last
    BY <1>6, <1>8 DEF Newly
  <2> QED
    BY <1>6, <2>1, <2>2, <2>3, <2>4 DEF RowsFrame
<1>11. ASSUME NEW t, t # s PROVE NodeFor(t)
  <2>1. ASSUME NEW n \in Nodes, node'[n].level = "system", node'[n].by = t
        PROVE  node[n].level = "system" /\ node[n].by = t
    <3>1. node[n].level # "none"
      BY <1>6, <1>8, <1>11, <2>1
    <3> QED
      BY <1>3, <2>1, <3>1
  <2> QED
    BY <2>1 DEF NodeFor
<1> QED
  BY <1>3, <1>7, <1>10, <1>11

LEMMA LinkLeft ==
  ASSUME Shape, Leftovers, NEW s \in Sessions, Link(s)
  PROVE  Leftovers'
<1>1. /\ Tables /\ repo' = repo /\ session[s].todo = AtLink /\ session[s].ask = "form"
      /\ \/ /\ RowsOf(session[s].name) = {} /\ Ends(s, FALSE)
            /\ \E added : ChainLinks(added, session[s].name, s) /\ Grown(added, 3)
         \/ /\ group = "deleted" \/ RowsOf(session[s].name) # {}
            /\ node' = node /\ Ends(s, FALSE)
         \/ node' = node /\ Ends(s, TRUE)
  BY LinkIs
<1>2. session[s].todo # <<>> /\ session[s].todo \in Owning \ {AtProject} /\ session[s].name \in Repos
  BY <1>1, InsertHeads, RunningIs
<1>3. \A n \in Nodes : Is(n, "system") => node[n].by # s
  BY <1>1, <1>2, NothingPlanted
<1>4. /\ repo[session[s].name].project # "none"
      /\ \A r \in Repos : repo[r].by = s => r = session[s].name
  BY <1>2, LeftParts DEF Owns
<1>5. CASE node' = node /\ Ends(s, TRUE)
  BY <1>1, <1>2, <1>5, StillLeft
<1>6. CASE (group = "deleted" \/ RowsOf(session[s].name) # {}) /\ node' = node /\ Ends(s, FALSE)
  <2>1. repo[session[s].name].project = "group" => LinkedAfter(session[s].name)
    <3>1. group = "deleted" => repo[session[s].name].project # "group"
      BY <1>2, TypesAre DEF Deleted
    <3>2. RowsOf(session[s].name) # {} => LinkedAfter(session[s].name)
      BY <1>6, NodeStands, StandKeeps DEF RowsFrame
    <3> QED
      BY <1>6, <3>1, <3>2
  <2>2. Clean(s)
    BY <1>3, <1>4, <2>1 DEF Clean
  <2>3. SameRepos /\ backfilled' = backfilled /\ Persist
    BY <1>1, <1>6, NodeKept DEF SameRepos, Tables
  <2> QED
    BY <1>2, <1>6, <2>2, <2>3, EndsQuietly
<1>7. CASE /\ RowsOf(session[s].name) = {} /\ Ends(s, FALSE)
           /\ \E added : ChainLinks(added, session[s].name, s) /\ Grown(added, 3)
  <2>1. RowsFrame /\ Persist /\ (\A t : t # s => NodeFor(t)) /\ LinkedAfter(session[s].name)
    BY <1>7, ChainFrame
  <2>2. Clean(s)
    BY <1>3, <1>4, <2>1 DEF Clean
  <2>3. \A t \in Sessions : t # s => Alike(t)
    BY <1>7, OthersAlike DEF Ends
  <2> QED
    BY <1>1, <1>2, <1>7, <2>1, <2>2, <2>3, EndsOwns, RowLeft
<1> QED
  BY <1>1, <1>5, <1>6, <1>7

LEMMA SendLeft ==
  ASSUME Shape, Leftovers, NEW s \in Sessions, SendConfiguration(s)
  PROVE  Leftovers'
<1>1. /\ Tables /\ node' = node /\ session[s].todo = AtSend /\ Sends(s)
      /\ \A q \in Repos : repo'[q].there = repo[q].there /\ repo'[q].by = repo[q].by /\ repo'[q].project = repo[q].project
  BY SendConfigurationIs
<1>2. SameRepos /\ Persist /\ backfilled' = backfilled
  BY <1>1, NodeKept DEF SameRepos, Tables
<1>3. \A t \in Sessions : t # s => Alike(t)
  BY <1>1, SendsOthers DEF Alike
<1>4. session[s].todo # <<>> /\ session[s].todo \notin Owning /\ session[s].todo \notin BelowSystem
      /\ session[s].todo \notin BelowDelivery
  <2>1. session[s].todo # <<>> /\ Last(session[s].todo) = "record"
    BY <1>1, TodoLens, TodoLasts DEF Befores
  <2>2. \A todo \in Owning : Last(todo) \in {"row", "link"}
    BY TodoLasts DEF Owning
  <2>3. \A todo \in BelowSystem \cup BelowDelivery : Last(todo) = "row"
    BY TodoLasts DEF BelowSystem, BelowDelivery
  <2> QED
    BY <2>1, <2>2, <2>3
<1>5. session'[s].todo = AtRecord /\ AtRecord \in Elsewhere
  BY <1>1 DEF Sends, Elsewhere
<1>6. Owns(s, session[s])'
  BY <1>1, <1>4, <1>5, ElsewhereIs, NothingOwned, NotOwning
<1>7. Planted(s, session[s])'
  <2>1. \A n \in Nodes : Is(n, "system") => node[n].by # s
    BY <1>4, NothingPlanted
  <2> QED
    BY <1>1, <2>1 DEF Planted, Is, Nodes
<1>8. FailedAfter(s)
  BY <1>5, ElsewhereIs DEF FailedAfter
<1> QED
  BY <1>1, <1>2, <1>3, <1>6, <1>7, <1>8, QuietLeftovers

LEMMA ElsewhereLeft ==
  ASSUME Shape, Leftovers, NEW s \in Sessions,
         RecordChange(s) \/ Archive(s) \/ Rename(s) \/ SetArchiveStatus(s)
  PROVE  Leftovers'
<1>1. /\ repo' = repo /\ backfilled' = backfilled /\ (node' = node \/ Kept) /\ (Ends(s, TRUE) \/ Ends(s, FALSE))
      /\ session[s].todo \in {AtRecord, AtArchive, AtRename, AtStatus}
  BY RecordChangeIs, ArchiveIs, RenameIs, SetArchiveStatusIs DEF Tables
<1>2. session[s].todo \in Elsewhere
  BY <1>1 DEF Elsewhere
<1>3. session[s].todo # <<>> /\ Clean(s)
  BY <1>2, ElsewhereIs, ElsewhereClean
<1>4. SameRepos
  BY <1>1 DEF SameRepos
<1>5. Persist
  BY <1>1, NodeKept, KeptIs
<1> QED
  BY <1>1, <1>3, <1>4, <1>5, EndsQuietly

LEMMA DropGroupLeft ==
  ASSUME Shape, Leftovers, NEW s \in Sessions, DropGroup(s)
  PROVE  Leftovers'
<1>1. /\ backfilled' = backfilled /\ session[s].todo = AtDrop /\ (Ends(s, TRUE) \/ Ends(s, FALSE))
      /\ \A n \in Nodes : node'[n].by = node[n].by
      /\ \A r \in Repos : /\ repo'[r].there = repo[r].there /\ repo'[r].by = repo[r].by
                          /\ repo'[r].project = (IF repo[r].project = "group" THEN "own" ELSE repo[r].project)
  BY DropGroupIs
<1>2. /\ Persist
      /\ \A n \in Nodes : node'[n].level \in {"none", "gone"} /\ (node'[n].level = "none" <=> node[n].level = "none")
  BY DropTree
<1>3. \A t \in Sessions : t # s => Alike(t)
  BY <1>1, OthersAlike DEF Ends
<1>4. AtDrop \in Elsewhere
  BY DEF Elsewhere
<1>5. Clean(s) /\ session[s].todo # <<>>
  BY <1>1, <1>4, ElsewhereIs, ElsewhereClean
<1>6. \A r \in Repos : /\ repo'[r].project # "group" /\ (repo'[r].project = "none" <=> repo[r].project = "none")
  BY <1>1
<1>7. \A t : RepoFor(t) /\ NodeFor(t)
  <2>1. \A t : RepoFor(t)
    BY <1>1, <1>6 DEF RepoFor
  <2>2. \A t : NodeFor(t)
    BY <1>2 DEF NodeFor
  <2> QED
    BY <2>1, <2>2
<1>8. \A t \in Sessions : Owns(t, session[t])' /\ Planted(t, session[t])'
  BY <1>1, <1>2, <1>3, <1>5, <1>7, OthersOwn, EndsOwns
<1>9. OneRow' /\ EmptySystemOnlyByMishap'
  BY <1>2 DEF OneRow, EmptySystemOnlyByMishap, Is, Nodes
<1>10. Projects'
  BY <1>1, <1>6, LeftParts DEF Projects
<1>11. Migrated'
  BY <1>1, <1>2, LeftParts DEF Migrated, Nodes
<1>12. UnlinkedOnlyByMishap'
  BY <1>6 DEF UnlinkedOnlyByMishap, NotLinked
<1>13. StrandedOnlyByFailure'
  <2>1. ASSUME NEW r \in Repos, repo'[r].there, repo'[r].project = "none"
        PROVE  FailedAfter(repo'[r].by)
    <3>1. Failed(repo[r].by) /\ repo'[r].by = repo[r].by /\ repo[r].project = "none"
      BY <1>1, <1>6, <2>1, LeftParts DEF StrandedOnlyByFailure
    <3>2. repo[r].by # s
      BY <3>1, <1>5 DEF Clean
    <3> QED
      BY <1>3, <3>1, <3>2, AlikeFailed DEF FailedKept
  <2> QED
    BY <2>1 DEF StrandedOnlyByFailure, Failed, Running, FailedAfter
<1> QED
  BY <1>8, <1>9, <1>10, <1>11, <1>12, <1>13 DEF Leftovers

LEMMA SameLeft ==
  ASSUME Leftovers, UNCHANGED <<node, repo, session, backfilled>>
  PROVE  Leftovers'
<1>1. OneRow' /\ Projects' /\ Migrated'
  BY LeftParts DEF OneRow, Projects, Migrated, Is, Nodes
<1>2. EmptySystemOnlyByMishap'
  BY LeftParts DEF EmptySystemOnlyByMishap, Is, Holds, SystemOf, Failed, Running, Misplaced, Nodes
<1>3. UnlinkedOnlyByMishap' /\ StrandedOnlyByFailure'
  BY LeftParts DEF UnlinkedOnlyByMishap, StrandedOnlyByFailure, NotLinked, RowsOf, Is, Failed, Running,
     Nodes
<1>4. \A t \in Sessions : Owns(t, session[t])' /\ Planted(t, session[t])'
  BY LeftParts DEF Owns, Planted, Is, Nodes
<1> QED
  BY <1>1, <1>2, <1>3, <1>4 DEF Leftovers

LEMMA BackfillLeft ==
  ASSUME Shape, Leftovers, Backfill
  PROVE  Leftovers'
<1>1. /\ UNCHANGED <<group, standing, repo, change, assigned, asked, access, session, events>>
      /\ ~backfilled /\ backfilled' = TRUE
      /\ \E k \in Nat : \E rs, added : Migrates(rs, k, added) /\ Grown(added, k + k + k)
  BY BackfillIs
<1>2. PICK k \in Nat : \E rs, added : Migrates(rs, k, added) /\ Grown(added, k + k + k)
  BY <1>1
<1>3. PICK rs, added : Migrates(rs, k, added) /\ Grown(added, k + k + k)
  BY <1>2
<1> DEFINE system(j) == Rows + j
           delivery(j) == Rows + k + j
           row(j) == Rows + k + k + j
<1>4. /\ Persist
      /\ \A n \in Nodes : node[n].level # "none" => node'[n] = node[n]
      /\ \A j \in 1..k : /\ system(j) \in Nodes
                         /\ node'[system(j)] = Made("system", 0, rs[j], "migration")
      /\ \A j \in 1..k : /\ delivery(j) \in Nodes
                         /\ node'[delivery(j)] = Made("deliveryProject", system(j), rs[j], "migration")
      /\ \A j \in 1..k : /\ row(j) \in Nodes
                         /\ \E n \in Available(rs[j]) \cup {delivery(j)} :
                              node'[row(j)] = Made("repository", n, rs[j], "migration")
      /\ \A n \in Nodes : node[n].level = "none" /\ node'[n].level # "none" =>
           \E j \in 1..k : n \in {system(j), delivery(j), row(j)}
  BY <1>3, MigratedRows
<1> HIDE DEF system, delivery, row
<1>5. /\ \A j \in 1..k : /\ node'[system(j)].level = "system" /\ node'[system(j)].by = "migration"
                         /\ node'[delivery(j)].level = "deliveryProject" /\ node'[delivery(j)].parent = system(j)
                         /\ node'[row(j)].level = "repository" /\ node'[row(j)].by = "migration"
                         /\ node'[row(j)].name = rs[j]
                         /\ node'[row(j)].parent \in Available(rs[j]) \cup {delivery(j)}
  BY <1>4, MadeIs
<1>6. /\ \A j \in 1..k : rs[j] \in NotLinked
      /\ \A i, j \in 1..k : rs[i] = rs[j] => i = j
      /\ \A r \in NotLinked : \E j \in 1..k : rs[j] = r
  BY <1>3 DEF Migrates
<1>7. Stand
  BY <1>4 DEF Stand
<1>8. \A n \in Nodes : node[n].level # "none" => node[n].by # "migration"
  BY <1>1, LeftParts DEF Migrated
<1>9. \A n \in Nodes : Newly(n, "repository") => \E j \in 1..k : n = row(j)
  BY <1>4, <1>5 DEF Newly
<1>10. \A n \in Nodes : Newly(n, "system") => \E j \in 1..k : n = system(j)
  BY <1>4, <1>5 DEF Newly
<1>11. OneRow'
  <2>1. ASSUME NEW a \in Nodes, NEW b \in Nodes, node'[a].level = "repository", Newly(b, "repository"),
               node'[a].name = node'[b].name
        PROVE  a = b
    <3>1. PICK j \in 1..k : b = row(j)
      BY <2>1, <1>9
    <3>2. node'[b].name = rs[j] /\ RowsOf(rs[j]) = {}
      BY <3>1, <1>5, <1>6 DEF NotLinked
    <3>3. CASE node[a].level # "none"
      <4>1. a \in RowsOf(rs[j])
        BY <2>1, <3>2, <3>3, <1>4 DEF RowsOf, Is
      <4> QED
        BY <4>1, <3>2
    <3>4. CASE node[a].level = "none"
      <4>1. PICK i \in 1..k : a = row(i)
        BY <2>1, <3>4, <1>9 DEF Newly
      <4>2. rs[i] = rs[j]
        BY <2>1, <3>2, <4>1, <1>5
      <4> QED
        BY <3>1, <4>1, <4>2, <1>6
    <3> QED
      BY <3>3, <3>4
  <2>2. ASSUME NEW m \in Nodes, NEW n \in Nodes, node'[m].level = "repository", node'[n].level = "repository",
               node'[m].name = node'[n].name
        PROVE  m = n
    <3>1. CASE node[m].level = "none" \/ node[n].level = "none"
      BY <2>1, <2>2, <3>1 DEF Newly
    <3>2. CASE node[m].level # "none" /\ node[n].level # "none"
      <4>1. node'[m] = node[m] /\ node'[n] = node[n]
        BY <3>2, <1>4
      <4> QED
        BY <4>1, <2>2, LeftParts DEF OneRow, Is
    <3> QED
      BY <3>1, <3>2
  <2> QED
    BY <2>2 DEF OneRow, Is, Nodes
<1>12. EmptySystemOnlyByMishap'
  <2>1. ASSUME NEW n \in Nodes, node'[n].level = "system", ~HoldsAfter(n)
        PROVE  \/ FailedAfter(node'[n].by)
               \/ node'[n].by = "migration" /\ \E m \in Nodes : MisplacedAfter(m)
    <3>1. CASE node[n].level # "none"
      <4>1. node'[n] = node[n] /\ Is(n, "system")
        BY <2>1, <3>1, <1>4 DEF Is
      <4>2. ~Holds(n)
        BY <2>1, <1>7, StandKeeps
      <4>3. Failed(node[n].by)
        BY <3>1, <4>1, <4>2, <1>8, LeftParts DEF EmptySystemOnlyByMishap
      <4> QED
        BY <1>1, <4>1, <4>3 DEF Failed, Running, FailedAfter
    <3>2. CASE node[n].level = "none"
      <4>1. PICK j \in 1..k : n = system(j)
        BY <2>1, <3>2, <1>10 DEF Newly
      <4> DEFINE m == row(j)
                 p == node'[m].parent
      <4>2. m \in Nodes /\ node'[m].level = "repository" /\ node'[m].by = "migration"
            /\ p \in Available(rs[j]) \cup {delivery(j)}
        BY <1>4, <1>5
      <4>3. node'[delivery(j)].parent = n
        BY <4>1, <1>5
      <4> HIDE DEF m
      <4>4. p # delivery(j)
        BY <2>1, <4>2, <4>3 DEF HoldsAfter
      <4>5. Is(p, "deliveryProject")
        BY <4>2, <4>4 DEF Available
      <4>6. node'[p] = node[p] /\ Is(node[p].parent, "system")
        BY <4>5, <1>4, TypesAre DEF Is, Tree
      <4>7. node'[node[p].parent].by # "migration"
        BY <4>6, <1>4, <1>8 DEF Is
      <4>8. MisplacedAfter(m)
        BY <4>2, <4>6, <4>7 DEF MisplacedAfter
      <4> QED
        BY <4>1, <4>2, <4>8, <1>5
    <3> QED
      BY <3>1, <3>2
  <2> QED
    BY <2>1 DEF EmptySystemOnlyByMishap, Is, Holds, SystemOf, Failed, Running, Misplaced, HoldsAfter,
       FailedAfter, MisplacedAfter, Nodes
<1>13. UnlinkedOnlyByMishap'
  <2>1. ASSUME NEW r \in Repos, repo'[r].project = "group" PROVE LinkedAfter(r)
    <3>1. CASE RowsOf(r) # {}
      BY <3>1, <1>7, StandKeeps
    <3>2. CASE RowsOf(r) = {}
      <4>1. PICK j \in 1..k : rs[j] = r
        BY <1>1, <2>1, <3>2, <1>6 DEF NotLinked
      <4>2. row(j) \in Nodes /\ node'[row(j)].level = "repository" /\ node'[row(j)].name = r
        BY <4>1, <1>4, <1>5
      <4> QED
        BY <4>2 DEF LinkedAfter
    <3> QED
      BY <3>1, <3>2
  <2>2. \A r : r \in NotLinked' => r \in Repos /\ repo'[r].project = "group" /\ ~LinkedAfter(r)
    BY DEF NotLinked, RowsOf, Is, LinkedAfter, Nodes
  <2> QED
    BY <2>1, <2>2 DEF UnlinkedOnlyByMishap
<1>14. StrandedOnlyByFailure' /\ Projects' /\ Migrated'
  BY <1>1, LeftParts DEF StrandedOnlyByFailure, Projects, Migrated, Failed, Running
<1>15. \A t \in Sessions : Owns(t, session[t])' /\ Planted(t, session[t])'
  <2>1. ASSUME NEW t \in Sessions PROVE Alike(t) /\ RepoFor(t) /\ NodeFor(t)
    <3>1. Alike(t) /\ RepoFor(t)
      BY <1>1 DEF Alike, RepoFor
    <3>2. t # "migration"
      BY HierarchyAssumption
    <3>3. NodeFor(t)
      BY <3>2, <1>4, <1>5, <1>10 DEF NodeFor, Newly
    <3> QED
      BY <3>1, <3>3
  <2> QED
    BY <2>1, <1>4, OwnsStays, PlantedStays, LeftParts
<1> QED
  BY <1>11, <1>12, <1>13, <1>14, <1>15 DEF Leftovers

LEMMA NextLeft ==
  ASSUME Shape, Leftovers, TreeNext \/ UNCHANGED treeVars
  PROVE  Leftovers'
<1>1. ASSUME NEW s \in Sessions, BeginCreate(s) \/ BeginChange(s) \/ BeginRename(s) \/ BeginOfGroup(s)
      PROVE  Leftovers'
  BY <1>1, BeginningMoved, BeginsLeft
<1>2. ASSUME NEW s \in Sessions, Step(s) PROVE Leftovers'
  <2>1. CASE CheckRight(s) \/ StepFails(s) \/ FindLink(s) \/ Link(s) \/ InsertProject(s)
    BY <2>1, CheckRightLeft, StepFailsLeft, FindLinkLeft, LinkLeft, InsertProjectLeft
  <2>2. CASE CreateSystem(s) \/ CreateDeliveryProject(s) \/ InsertRow(s) \/ CreateRepo(s) \/ CreateProject(s)
    BY <2>2, CreateSystemLeft, CreateDeliveryProjectLeft, InsertRowLeft, CreatesLeft
  <2>3. CASE SendConfiguration(s) \/ DropGroup(s)
    BY <2>3, SendLeft, DropGroupLeft
  <2>4. CASE RecordChange(s) \/ Archive(s) \/ Rename(s) \/ SetArchiveStatus(s)
    BY <2>4, ElsewhereLeft
  <2> QED
    BY <1>2, <2>1, <2>2, <2>3, <2>4 DEF Step
<1>3. CASE ChangeStanding \/ Reassign \/ Sync \/ UNCHANGED treeVars
  <2>1. UNCHANGED <<node, repo, session, backfilled>>
    BY <1>3 DEF ChangeStanding, Reassign, Sync, treeVars
  <2> QED
    BY <2>1, SameLeft
<1> QED
  BY <1>1, <1>2, <1>3, BackfillLeft DEF TreeNext

LEMMA InitLeft ==
  ASSUME TreeInit
  PROVE  Leftovers
<1>1. /\ \A r \in Repos : /\ repo[r].there <=> r \in {Linked, Unlinked}
                          /\ repo[r].by = "before"
                          /\ repo[r].project = IF r \in {Linked, Unlinked} THEN "group" ELSE "none"
      /\ ~backfilled /\ \A s \in Sessions : session[s] = Idle
  BY DEF TreeInit
<1>2. /\ {1, 2, 3} \subseteq Nodes
      /\ node[1].level = "system" /\ node[2].level = "deliveryProject" /\ node[3].level = "repository"
      /\ node[2].parent = 1 /\ node[3].parent = 2
      /\ \A n \in Nodes : node[n].by = "before" /\ (n \notin {1, 2, 3} => node[n].level = "none")
  <2>1. Unmade.level = "none" /\ Unmade.by = "before"
    BY DEF Unmade
  <2> QED
    BY <2>1, InitNode, MadeIs
<1>3. OneRow /\ Migrated
  BY <1>2 DEF OneRow, Migrated, Is
<1>4. Projects /\ StrandedOnlyByFailure
  BY <1>1 DEF Projects, StrandedOnlyByFailure
<1>5. EmptySystemOnlyByMishap
  <2>1. SystemOf(3) = 1 /\ Is(3, "repository")
    BY <1>2 DEF SystemOf, Is
  <2>2. Holds(1)
    BY <1>2, <2>1 DEF Holds
  <2>3. \A n \in Nodes : Is(n, "system") => n = 1
    BY <1>2 DEF Is
  <2> QED
    BY <2>2, <2>3 DEF EmptySystemOnlyByMishap
<1>6. UnlinkedOnlyByMishap
  BY <1>1 DEF UnlinkedOnlyByMishap, NotLinked
<1>7. ASSUME NEW s \in Sessions PROVE Owns(s, session[s]) /\ Planted(s, session[s])
  <2>1. s # "before" /\ session[s].todo = <<>>
    BY <1>1, IdleIs, HierarchyAssumption
  <2>2. <<>> \notin Owning
    BY TodoLens DEF Owning, Lasts, Befores
  <2> QED
    BY <1>1, <1>2, <2>1, <2>2 DEF Owns, Planted
<1> QED
  BY <1>3, <1>4, <1>5, <1>6, <1>7 DEF Leftovers

-----------------------------------------------------------------------------
(* Variables: what is listed, and what is at GitHub.                       *)

\* What a step that neither sends nor notes a variable leaves of them.
NamesNew ==
  Stand /\ \A n \in Nodes : Newly(n, "repository") => RowsOf(node'[n].name) = {}
NamesFrame ==
  \A n \in Nodes : node'[n].level = "repository" =>
    \/ node[n].level = "repository" /\ node'[n].name = node[n].name
    \/ node[n].level = "none" /\ repo[node'[n].name].set = {}
SameSets == \A r \in Repos : repo'[r].set = repo[r].set
Turn(t) ==
  \A n \in Nodes, k \in Keys :
    /\ Open(t, n, k)' => Open(t, n, k) /\ session'[t].clash = session[t].clash /\ session'[t].ask = session[t].ask
    /\ About(t, n, k) /\ (session[t].failed \/ session[t].clash) =>
         About(t, n, k)' /\ (session'[t].failed \/ session'[t].clash)
    /\ Open(t, n, k) => Open(t, n, k)' \/ (About(t, n, k)' /\ session'[t].failed)

LEMMA AboutIs ==
  ASSUME Shape, NEW s \in Sessions, NEW n, NEW k, About(s, n, k)
  PROVE  /\ n \in Nodes /\ node[n].level \in {"repository", "gone"} /\ session[s].at = n /\ session[s].key = k
         /\ k \in Keys /\ session[s].ask \in {"write", "delete"}
         /\ session[s].todo # <<>> => session[s].name = node[n].name
<1>1. Placed(session[s])
  BY RunningIs
<1> QED
  BY <1>1 DEF About, Placed, Level

LEMMA VariablesAre ==
  ASSUME Variables, NEW n \in Nodes, NEW k \in Keys
  PROVE  /\ \A s, t \in Sessions : s # t /\ Open(s, n, k) /\ Open(t, n, k) => session[s].clash
         /\ node[n].level = "repository" /\ Clear(n, k) =>
              /\ \A s \in Sessions : Open(s, n, k) => (k \in repo[node[n].name].set <=> session[s].ask = "write")
              /\ (\A s \in Sessions : ~Open(s, n, k)) => (change[n][k] = "create" <=> k \in repo[node[n].name].set)
  BY DEF Variables, Is, CurrentNames

\* The same, of the next state.
LEMMA VariablesNext ==
  ASSUME \A n \in Nodes, k \in Keys :
           /\ \A s, t \in Sessions : s # t /\ Open(s, n, k)' /\ Open(t, n, k)' => session'[s].clash
           /\ node'[n].level = "repository" /\ Clear(n, k)' =>
                /\ \A s \in Sessions : Open(s, n, k)' => (k \in repo'[node'[n].name].set <=> session'[s].ask = "write")
                /\ (\A s \in Sessions : ~Open(s, n, k)') => (change'[n][k] = "create" <=> k \in repo'[node'[n].name].set)
  PROVE  Variables'
  BY DEF Variables, Is, CurrentNames, Nodes

LEMMA ClearWas ==
  ASSUME NEW n \in Nodes, NEW k \in Keys, \A t \in Sessions : Turn(t), Clear(n, k)'
  PROVE  /\ Clear(n, k)
         /\ (\A s \in Sessions : ~Open(s, n, k)') => \A s \in Sessions : ~Open(s, n, k)
<1>1. \A t \in Sessions : About(t, n, k)' => ~session'[t].failed /\ ~session'[t].clash
  BY DEF Clear
<1>2. Clear(n, k)
  BY <1>1 DEF Clear, Turn
<1>3. ASSUME \A s \in Sessions : ~Open(s, n, k)', NEW s \in Sessions, Open(s, n, k) PROVE FALSE
  BY <1>1, <1>3 DEF Turn
<1> QED
  BY <1>2, <1>3

LEMMA VariablesStay ==
  ASSUME Shape, Shape', Variables, Bare, NamesFrame, SameSets, change' = change, \A t \in Sessions : Turn(t)
  PROVE  Variables'
<1>1. ASSUME NEW n \in Nodes, NEW k \in Keys, NEW s \in Sessions, NEW t \in Sessions, s # t,
             Open(s, n, k)', Open(t, n, k)'
      PROVE  session'[s].clash
  BY <1>1, VariablesAre DEF Turn
<1>2. ASSUME NEW n \in Nodes, NEW k \in Keys, node'[n].level = "repository", Clear(n, k)'
      PROVE  /\ \A s \in Sessions : Open(s, n, k)' => (k \in repo'[node'[n].name].set <=> session'[s].ask = "write")
             /\ (\A s \in Sessions : ~Open(s, n, k)') => (change'[n][k] = "create" <=> k \in repo'[node'[n].name].set)
  <2>1. /\ Clear(n, k)
        /\ (\A s \in Sessions : ~Open(s, n, k)') => \A s \in Sessions : ~Open(s, n, k)
    BY <1>2, ClearWas
  <2>2. node'[n].name \in Repos
    <3>1. node' \in [Nodes -> Node]
      BY DEF Shape, TreeTypeOK, Nodes, Node, Levels, Makers
    <3> QED
      BY <3>1 DEF Node
  <2>3. repo'[node'[n].name].set = repo[node'[n].name].set
    BY <2>2 DEF SameSets
  <2>4. CASE node[n].level = "repository" /\ node'[n].name = node[n].name
    <3>1. /\ \A s \in Sessions : Open(s, n, k) => (k \in repo[node[n].name].set <=> session[s].ask = "write")
          /\ (\A s \in Sessions : ~Open(s, n, k)) => (change[n][k] = "create" <=> k \in repo[node[n].name].set)
      BY <2>1, <2>4, VariablesAre
    <3>2. \A s \in Sessions : Open(s, n, k)' => Open(s, n, k) /\ session'[s].ask = session[s].ask
      BY DEF Turn
    <3> QED
      BY <2>1, <2>3, <2>4, <3>1, <3>2
  <2>5. CASE node[n].level = "none" /\ repo[node'[n].name].set = {}
    <3>1. \A s \in Sessions : ~Open(s, n, k)
      BY <2>5, AboutIs DEF Open
    <3>2. \A s \in Sessions : ~Open(s, n, k)'
      BY <3>1 DEF Turn
    <3>3. change[n][k] = "none"
      BY <2>5 DEF Bare
    <3> QED
      BY <2>3, <2>5, <3>2, <3>3
  <2> QED
    BY <1>2, <2>4, <2>5 DEF NamesFrame
<1> QED
  BY <1>1, <1>2, VariablesNext

LEMMA NamesAre ==
  ASSUME Shape, Shape', Bare, NamesNew, group = "deleted" => group' = "deleted"
  PROVE  NamesFrame
<1>1. ASSUME NEW n \in Nodes, node'[n].level = "repository"
      PROVE  \/ node[n].level = "repository" /\ node'[n].name = node[n].name
             \/ node[n].level = "none" /\ repo[node'[n].name].set = {}
  <2>1. CASE node[n].level # "none"
    BY <1>1, <2>1 DEF NamesNew, Stand
  <2>2. CASE node[n].level = "none"
    <3>1. RowsOf(node'[n].name) = {}
      BY <1>1, <2>2 DEF NamesNew, Newly
    <3>2. group' # "deleted"
      BY <1>1 DEF Shape, Deleted, Nodes
    <3>3. node' \in [Nodes -> Node]
      BY DEF Shape, TreeTypeOK, Nodes, Node, Levels, Makers
    <3>4. node'[n].name \in Repos
      BY <3>3 DEF Node
    <3> QED
      BY <2>2, <3>1, <3>2, <3>4 DEF Bare
  <2> QED
    BY <2>1, <2>2
<1> QED
  BY <1>1 DEF NamesFrame

LEMMA SameTurn ==
  ASSUME NEW t, session'[t] = session[t]
  PROVE  Turn(t)
  BY DEF Turn, Open, About

LEMMA EndsTurn ==
  ASSUME Shape, NEW s \in Sessions, NEW failed, Ends(s, failed), session[s].todo # <<>>,
         failed = TRUE \/ session[s].todo # AtRecord
  PROVE  \A t \in Sessions : Turn(t)
<1>1. ~session[s].failed
  BY RunningIs DEF RequestTyped
<1>2. AtRecord # <<>>
  BY TodoLens DEF Lasts
<1>3. ASSUME NEW n \in Nodes, NEW k \in Keys
      PROVE  /\ ~Open(s, n, k)'
             /\ About(s, n, k) => About(s, n, k)'
             /\ Open(s, n, k) => session'[s].failed
  BY <1>2 DEF Ends, Open, About
<1>4. session'[s].clash = session[s].clash
  BY DEF Ends
<1>5. Turn(s)
  BY <1>1, <1>3, <1>4 DEF Turn, Open
<1> QED
  BY <1>5, SameTurn DEF Ends, Others

LEMMA GoesTurn ==
  ASSUME Shape, NEW s \in Sessions, NEW at, NEW seen, Goes(s, at, seen), session[s].todo # <<>>,
         session[s].todo # AtSend, session[s].ask \in {"write", "delete"} => at = session[s].at
  PROVE  \A t \in Sessions : Turn(t)
<1>1. ~session[s].failed
  BY RunningIs DEF RequestTyped
<1>2. session[s].todo \in Befores /\ session'[s].todo = Tail(session[s].todo)
  BY GoesIsRunning
<1>3. session'[s].todo # AtRecord
  BY <1>2, TodoWas
<1>4. session[s].todo # AtRecord
  BY <1>2, TodoLens DEF Lasts
<1>5. session'[s].ask = session[s].ask /\ session'[s].key = session[s].key /\ session'[s].clash = session[s].clash
      /\ session'[s].at = at
  BY DEF Goes
<1>6. Turn(s)
  BY <1>1, <1>3, <1>4, <1>5 DEF Turn, Open, About
<1> QED
  BY <1>6, SameTurn DEF Goes, Others

LEMMA BeginsTurn ==
  ASSUME Shape, NEW s \in Sessions, Begins(s)
  PROVE  \A t \in Sessions : Turn(t)
<1>1. session[s].ask = "none" /\ session'[s].todo # AtRecord /\ Others(s)
  BY TodoHeads DEF Begins, Firsts
<1>2. Turn(s)
  BY <1>1 DEF Turn, Open, About
<1> QED
  BY <1>1, <1>2, SameTurn DEF Others

LEMMA BareStays ==
  ASSUME Shape, Shape', Bare, Persist, group = "deleted" => group' = "deleted",
         \A r \in Repos : repo'[r].set # {} => repo[r].set # {} \/ LinkedAfter(r) \/ group' = "deleted",
         \A n \in Nodes, k \in Keys : node'[n].level = "none" => change'[n][k] \in {"none", change[n][k]}
  PROVE  Bare'
<1>1. ASSUME NEW r \in Repos, repo'[r].set # {}, group' # "deleted" PROVE LinkedAfter(r)
  <2>1. CASE repo[r].set # {}
    <3>1. PICK m \in Nodes : node[m].level = "repository" /\ node[m].name = r
      BY <1>1, <2>1 DEF Bare, RowsOf, Is
    <3>2. node'[m].level # "gone"
      BY <1>1 DEF Shape, Deleted, Nodes
    <3>3. node'[m].level = "repository" /\ node'[m].name = r
      BY <3>1, <3>2 DEF Persist
    <3> QED
      BY <3>3 DEF LinkedAfter
  <2> QED
    BY <1>1, <2>1
<1>2. ASSUME NEW n \in Nodes, NEW k \in Keys, node'[n].level = "none" PROVE change'[n][k] = "none"
  <2>1. node[n].level = "none"
    BY <1>2 DEF Persist
  <2> QED
    BY <1>2, <2>1 DEF Bare
<1> QED
  BY <1>1, <1>2 DEF Bare, LinkedAfter, RowsOf, Is, Nodes

\* The steps that leave alone what is sent and what is noted.
Idling == {AtSystem, AtDelivery, AtBranch, AtRow, AtRepo, AtProject, AtForm, AtFind, AtLink, AtArchive, AtRename,
           AtStatus, AtDrop}

LEMMA IdlingIs ==
  \A todo \in Idling : todo # AtSend /\ todo # AtRecord /\ todo # <<>>
<1>1. \A todo \in Idling : todo \in Lasts \cup Befores
  BY DEF Idling, Lasts, Befores
<1>2. \A todo \in Idling : Head(todo) \notin {"send", "record"}
  BY TodoHeads DEF Idling
<1> QED
  BY <1>1, <1>2, TodoLens, TodoHeads

LEMMA QuietVariables ==
  ASSUME Shape, Shape', Variables, Bare, NEW s, Moved(s), RowsFrame, SameSets, change' = change,
         \A t \in Sessions : Turn(t)
  PROVE  Variables' /\ Bare'
<1>1. Persist /\ (group = "deleted" => group' = "deleted")
  BY DEF Moved, Calm
<1>2. NamesNew
  BY DEF RowsFrame, NamesNew
<1>3. NamesFrame
  BY <1>1, <1>2, NamesAre
<1>4. Variables'
  BY <1>3, VariablesStay
<1>5. \A r \in Repos : repo'[r].set # {} => repo[r].set # {} \/ LinkedAfter(r) \/ group' = "deleted"
  BY DEF SameSets
<1>6. Bare'
  BY <1>1, <1>5, BareStays
<1> QED
  BY <1>4, <1>6

LEMMA SameRepo ==
  ASSUME repo' = repo
  PROVE  SameSets
  BY DEF SameSets

LEMMA SetsKept ==
  ASSUME Shape, NEW r \in Repos, NEW there, NEW by, NEW project, RepoBecomes(r, there, by, project)
  PROVE  SameSets
<1>1. ASSUME NEW q \in Repos PROVE repo'[q].set = repo[q].set
  BY DEF RepoBecomes
<1> QED
  BY <1>1 DEF SameSets

LEMMA CheckRightVariables ==
  ASSUME Shape, Shape', Variables, Bare, NEW s \in Sessions, CheckRight(s)
  PROVE  Variables' /\ Bare'
<1>1. /\ UNCHANGED <<group, standing, node, repo, change, assigned, asked, access, backfilled, events>>
      /\ session[s].todo # <<>> /\ Head(session[s].todo) = "right"
      /\ Ends(s, TRUE) \/ Goes(s, session[s].at, events)
  BY CheckRightIs
<1>2. session[s].todo # AtSend
  BY <1>1, TodoHeads
<1>3. \A t \in Sessions : Turn(t)
  <2>1. CASE Ends(s, TRUE)
    BY <1>1, <2>1, EndsTurn
  <2>2. CASE Goes(s, session[s].at, events)
    BY <1>1, <1>2, <2>2, GoesTurn
  <2> QED
    BY <1>1, <2>1, <2>2
<1> QED
  BY <1>1, <1>3, CheckRightMoved, NodeStands, SameRepo, QuietVariables

LEMMA StepFailsVariables ==
  ASSUME Shape, Shape', Variables, Bare, NEW s \in Sessions, StepFails(s)
  PROVE  Variables' /\ Bare'
<1>1. /\ UNCHANGED <<group, standing, node, repo, change, assigned, asked, access, backfilled>>
      /\ session[s].todo # <<>> /\ Ends(s, TRUE)
  BY StepFailsIs
<1>2. \A t \in Sessions : Turn(t)
  BY <1>1, EndsTurn
<1> QED
  BY <1>1, <1>2, StepFailsMoved, NodeStands, SameRepo, QuietVariables

\* A step of a request that does not configure.
LEMMA IdlingTurn ==
  ASSUME Shape, NEW s \in Sessions, session[s].todo \in Idling, NEW at, NEW seen,
         Ends(s, TRUE) \/ Ends(s, FALSE) \/ Goes(s, at, seen),
         session[s].ask \notin {"write", "delete"}
  PROVE  \A t \in Sessions : Turn(t)
<1>1. session[s].todo # AtSend /\ session[s].todo # AtRecord /\ session[s].todo # <<>>
  BY IdlingIs
<1>2. CASE Ends(s, TRUE)
  BY <1>1, <1>2, EndsTurn
<1>3. CASE Ends(s, FALSE)
  BY <1>1, <1>3, EndsTurn
<1>4. CASE Goes(s, at, seen)
  BY <1>1, <1>4, GoesTurn
<1> QED
  BY <1>2, <1>3, <1>4

LEMMA RepoVariables ==
  ASSUME Shape, Shape', Variables, Bare, NEW s \in Sessions,
         CreateRepo(s) \/ InsertProject(s) \/ CreateProject(s)
  PROVE  Variables' /\ Bare'
<1>1. session[s].name \in Repos
  BY RunningIs
<1>2. /\ RepoTables /\ session[s].todo \in {AtRepo, AtProject, AtForm}
      /\ session[s].ask \in {"system", "repository", "form"}
      /\ Ends(s, TRUE) \/ Goes(s, session[s].at, session[s].seen)
      /\ SameSets
  <2>1. CASE CreateRepo(s)
    BY <1>1, <2>1, CreateRepoIs, SameRepo, SetsKept
  <2>2. CASE InsertProject(s)
    BY <1>1, <2>2, InsertProjectIs, SameRepo, SetsKept
  <2>3. CASE CreateProject(s)
    BY <1>1, <2>3, CreateProjectIs, SameRepo, SetsKept
  <2> QED
    BY <2>1, <2>2, <2>3
<1>3. session[s].todo \in Idling /\ session[s].ask \notin {"write", "delete"}
  BY <1>2 DEF Idling
<1>4. \A t \in Sessions : Turn(t)
  BY <1>2, <1>3, IdlingTurn
<1>5. node' = node /\ change' = change
  BY <1>2 DEF RepoTables
<1> QED
  BY <1>2, <1>4, <1>5, RepoMoved, NodeStands, QuietVariables

LEMMA NodeVariables ==
  ASSUME Shape, Shape', Variables, Bare, NEW s \in Sessions,
         Archive(s) \/ Rename(s) \/ FindLink(s)
  PROVE  Variables' /\ Bare'
<1>1. /\ Tables /\ repo' = repo /\ session[s].todo \in {AtArchive, AtRename, AtFind}
      /\ session[s].ask \in {"archive", "rename", "form"} /\ (Kept \/ node' = node)
      /\ Ends(s, TRUE) \/ Ends(s, FALSE) \/ Goes(s, session[s].at, session[s].seen)
  BY ArchiveIs, RenameIs, FindLinkIs
<1>2. session[s].todo \in Idling /\ session[s].ask \notin {"write", "delete"}
  BY <1>1 DEF Idling
<1>3. \A t \in Sessions : Turn(t)
  BY <1>1, <1>2, IdlingTurn
<1>4. Moved(s)
  BY NodeMoved, LinkMoved
<1>5. change' = change
  BY <1>1 DEF Tables
<1> QED
  BY <1>1, <1>3, <1>4, <1>5, NodeStands, SameRepo, QuietVariables

LEMMA StatusVariables ==
  ASSUME Shape, Shape', Variables, Bare, NEW s \in Sessions, SetArchiveStatus(s)
  PROVE  Variables' /\ Bare'
<1>1. /\ UNCHANGED <<standing, node, repo, change, assigned, asked, access, backfilled, events>>
      /\ session[s].todo = AtStatus /\ session[s].ask \in {"close", "reopen"}
      /\ Ends(s, TRUE) \/ Ends(s, FALSE)
  BY SetArchiveStatusIs
<1>2. session[s].todo \in Idling /\ session[s].ask \notin {"write", "delete"}
  BY <1>1 DEF Idling
<1>3. \A t \in Sessions : Turn(t)
  BY <1>1, <1>2, IdlingTurn
<1> QED
  BY <1>1, <1>3, GroupMoved, NodeStands, SameRepo, QuietVariables

LEMMA InsertVariables ==
  ASSUME Shape, Shape', Variables, Bare, NEW s \in Sessions,
         CreateSystem(s) \/ CreateDeliveryProject(s) \/ InsertRow(s)
  PROVE  Variables' /\ Bare'
<1> DEFINE new == Rows + 1
<1>1. /\ Tables /\ repo' = repo /\ session[s].todo \in {AtSystem, AtDelivery, AtBranch, AtRow}
      /\ session[s].ask \in {"system", "deliveryProject", "repository"}
      /\ Ends(s, TRUE) \/ Ends(s, FALSE) \/ Goes(s, new, session[s].seen)
  BY CreateSystemIs, CreateDeliveryProjectIs, InsertRowIs
<1>2. RowsFrame
  <2>1. CASE CreateSystem(s)
    <3>1. \/ node' = node
          \/ Grown(<<Made1(s, "system")>>, 1) /\ Goes(s, new, session[s].seen)
      BY <2>1, CreateSystemIs
    <3>2. CASE Grown(<<Made1(s, "system")>>, 1) /\ Goes(s, new, session[s].seen)
      <4>1. FailedAfter(s)
        BY <3>2, GoesFailed
      <4> QED
        BY <3>2, <4>1, MadeFields, OneRowFrame
    <3> QED
      BY <3>1, <3>2, NodeStands
  <2>2. CASE CreateDeliveryProject(s)
    <3>1. node' = node \/ Grown(<<Made1(s, "deliveryProject")>>, 1)
      BY <2>2, CreateDeliveryProjectIs
    <3> QED
      BY <3>1, MadeFields, OneRowFrame, NodeStands
  <2>3. CASE InsertRow(s)
    <3>1. \/ node' = node
          \/ Grown(<<Made1(s, "repository")>>, 1) /\ RowsOf(session[s].name) = {}
      BY <2>3, InsertRowIs
    <3> QED
      BY <3>1, MadeFields, OneRowFrame, NodeStands
  <2> QED
    BY <2>1, <2>2, <2>3
<1> HIDE DEF new
<1>3. session[s].todo \in Idling /\ session[s].ask \notin {"write", "delete"}
  BY <1>1 DEF Idling
<1>4. \A t \in Sessions : Turn(t)
  BY <1>1, <1>3, IdlingTurn
<1>5. change' = change
  BY <1>1 DEF Tables
<1> QED
  BY <1>1, <1>2, <1>4, <1>5, InsertsMoved, SameRepo, QuietVariables

LEMMA LinkVariables ==
  ASSUME Shape, Shape', Variables, Bare, NEW s \in Sessions, Link(s)
  PROVE  Variables' /\ Bare'
<1> DEFINE r == session[s].name
<1>1. /\ Tables /\ repo' = repo /\ session[s].todo = AtLink /\ session[s].ask = "form"
      /\ Ends(s, TRUE) \/ Ends(s, FALSE)
      /\ \/ node' = node
         \/ RowsOf(r) = {} /\ \E added : ChainLinks(added, r, s) /\ Grown(added, 3)
  BY LinkIs
<1> HIDE DEF r
<1>2. RowsFrame
  <2>1. ASSUME RowsOf(r) = {}, NEW added, ChainLinks(added, r, s), Grown(added, 3) PROVE RowsFrame
    BY <2>1, ChainFrame
  <2> QED
    BY <1>1, <2>1, NodeStands
<1>3. session[s].todo \in Idling /\ session[s].ask \notin {"write", "delete"}
  BY <1>1 DEF Idling
<1>4. \A t \in Sessions : Turn(t)
  BY <1>1, <1>3, IdlingTurn
<1>5. change' = change
  BY <1>1 DEF Tables
<1> QED
  BY <1>1, <1>2, <1>4, <1>5, LinkMoved, SameRepo, QuietVariables

LEMMA BeginsVariables ==
  ASSUME Shape, Shape', Variables, Bare, NEW s \in Sessions, Begins(s), Moved(s)
  PROVE  Variables' /\ Bare'
<1>1. UNCHANGED <<node, repo, change>>
  BY DEF Begins
<1>2. \A t \in Sessions : Turn(t)
  BY BeginsTurn
<1> QED
  BY <1>1, <1>2, NodeStands, SameRepo, QuietVariables

\* What is no request's step.
LEMMA CalmVariables ==
  ASSUME Shape, Shape', Variables, Bare,
         Backfill \/ ChangeStanding \/ Reassign \/ Sync \/ UNCHANGED treeVars
  PROVE  Variables' /\ Bare'
<1>1. session' = session /\ Persist /\ Calm
  BY ElseMoved
<1>2. repo' = repo /\ change' = change
  BY DEF Backfill, ChangeStanding, Reassign, Sync, treeVars
<1>3. \A t \in Sessions : Turn(t)
  BY <1>1, SameTurn
<1>4. NamesNew
  <2>1. CASE Backfill
    <3>1. \E k \in Nat : \E rs, added : Migrates(rs, k, added) /\ Grown(added, k + k + k)
      BY <2>1, BackfillIs
    <3>2. PICK k \in Nat : \E rs, added : Migrates(rs, k, added) /\ Grown(added, k + k + k)
      BY <3>1
    <3>3. PICK rs, added : Migrates(rs, k, added) /\ Grown(added, k + k + k)
      BY <3>2
    <3> DEFINE system(j) == Rows + j
               delivery(j) == Rows + k + j
               row(j) == Rows + k + k + j
    <3>4. /\ \A n \in Nodes : node[n].level # "none" => node'[n] = node[n]
          /\ \A j \in 1..k : node'[system(j)] = Made("system", 0, rs[j], "migration")
          /\ \A j \in 1..k : node'[delivery(j)] = Made("deliveryProject", system(j), rs[j], "migration")
          /\ \A j \in 1..k : \E n \in Available(rs[j]) \cup {delivery(j)} :
                               node'[row(j)] = Made("repository", n, rs[j], "migration")
          /\ \A n \in Nodes : node[n].level = "none" /\ node'[n].level # "none" =>
               \E j \in 1..k : n \in {system(j), delivery(j), row(j)}
      BY <3>3, MigratedRows
    <3> HIDE DEF system, delivery, row
    <3>5. \A j \in 1..k : /\ node'[system(j)].level = "system" /\ node'[delivery(j)].level = "deliveryProject"
                          /\ node'[row(j)].name = rs[j]
      BY <3>4, MadeIs
    <3>6. \A n \in Nodes : Newly(n, "repository") => \E j \in 1..k : node'[n].name = rs[j]
      BY <3>4, <3>5 DEF Newly
    <3>7. \A j \in 1..k : RowsOf(rs[j]) = {}
      BY <3>3 DEF Migrates, NotLinked
    <3>8. Stand
      BY <3>4 DEF Stand
    <3> QED
      BY <3>6, <3>7, <3>8 DEF NamesNew
  <2>2. CASE ~Backfill
    <3>1. node' = node
      BY <2>2 DEF ChangeStanding, Reassign, Sync, treeVars
    <3> QED
      BY <3>1, NodeStands DEF RowsFrame, NamesNew
  <2> QED
    BY <2>1, <2>2
<1>5. NamesFrame
  BY <1>1, <1>4, NamesAre DEF Calm
<1>6. Variables'
  BY <1>2, <1>3, <1>5, SameRepo, VariablesStay
<1>7. Bare'
  BY <1>1, <1>2, BareStays DEF Calm
<1> QED
  BY <1>6, <1>7

\* Whoever crosses a request is about the same variable, has sent it, and has not noted it.
LEMMA CrossingIs ==
  ASSUME Shape, NEW s \in Sessions, session[s].ask \in {"write", "delete"}, NEW t \in Sessions, t # s
  PROVE  t \in Crossing(s) <=> Open(t, session[s].at, session[s].key)
<1>1. AtStep(t, "record") <=> session[t].todo = AtRecord
  <2>1. session[t].todo = AtRecord => AtStep(t, "record")
    BY TodoHeads, TodoLens DEF AtStep, Lasts
  <2>2. AtStep(t, "record") => session[t].todo = AtRecord
    BY AtIs, TodoIs
  <2> QED
    BY <2>1, <2>2
<1> QED
  BY <1>1 DEF Crossing, SameKey, Open, About

LEMMA SendVariables ==
  ASSUME Shape, Shape', Leftovers, Variables, Bare, NEW s \in Sessions, SendConfiguration(s)
  PROVE  Variables' /\ Bare'
<1> DEFINE a == session[s].at
           key == session[s].key
           r == session[s].name
<1>1. /\ Tables /\ node' = node /\ session[s].todo = AtSend /\ session[s].ask \in {"write", "delete"}
      /\ Sends(s)
      /\ \A q \in Repos : q # r => repo'[q] = repo[q]
      /\ repo'[r].set = IF session[s].ask = "write" THEN repo[r].set \cup {key} ELSE repo[r].set \ {key}
  BY SendConfigurationIs
<1>2. change' = change /\ group' = group
  BY <1>1 DEF Tables
<1>3. a \in Nodes /\ key \in Keys /\ node[a].level \in {"repository", "gone"} /\ r = node[a].name
  <2>1. session[s].todo # <<>>
    BY <1>1, TodoLens DEF Befores
  <2>2. About(s, a, key)
    BY <1>1 DEF About
  <2> QED
    BY <2>1, <2>2, AboutIs
<1>4. \A n, k : About(s, n, k)' <=> n = a /\ k = key
  BY <1>1 DEF About, Sends
<1>5. \A n, k : Open(s, n, k)' <=> n = a /\ k = key
  BY <1>1, <1>4 DEF Open, Sends
<1>6. \A n, k : About(s, n, k) <=> n = a /\ k = key
  BY <1>1 DEF About
<1>7. ASSUME NEW t \in Sessions, t # s
      PROVE  /\ \A n, k : About(t, n, k)' <=> About(t, n, k)
             /\ \A n, k : Open(t, n, k)' <=> Open(t, n, k)
             /\ session'[t].ask = session[t].ask /\ session'[t].failed = session[t].failed
             /\ session[t].clash => session'[t].clash
             /\ Open(t, a, key) => session'[t].clash /\ session'[s].clash
  <2>1. /\ session'[t].todo = session[t].todo /\ session'[t].ask = session[t].ask /\ session'[t].at = session[t].at
        /\ session'[t].key = session[t].key /\ session'[t].failed = session[t].failed
        /\ t \in Crossing(s) => session'[t].clash = TRUE
        /\ t \notin Crossing(s) => session'[t] = session[t]
    BY <1>1, <1>7, SendsOthers
  <2>2. t \in Crossing(s) <=> Open(t, a, key)
    BY <1>1, <1>7, CrossingIs
  <2>3. Open(t, a, key) => session'[s].clash
    BY <1>1, <2>2 DEF Sends
  <2>4. session[t].clash => session'[t].clash
    BY <2>1
  <2>5. \A n, k : About(t, n, k)' <=> About(t, n, k)
    BY <2>1 DEF About
  <2>6. \A n, k : Open(t, n, k)' <=> Open(t, n, k)
    BY <2>1, <2>5 DEF Open
  <2> QED
    BY <2>1, <2>2, <2>3, <2>4, <2>5, <2>6
<1>8. session'[s].ask = session[s].ask /\ session'[s].failed = FALSE /\ session[s].failed = FALSE
      /\ (session[s].clash => session'[s].clash)
  <2>1. session[s].todo # <<>>
    BY <1>1, TodoLens DEF Befores
  <2>2. RequestTyped(session[s]) /\ RequestTyped(session[s])'
    BY <1>1, RunningIs DEF Sends
  <2>3. ~session'[s].failed /\ session'[s].failed \in BOOLEAN /\ session[s].failed = FALSE
    BY <1>1, <2>1, <2>2 DEF Sends, RequestTyped
  <2> QED
    BY <1>1, <2>3 DEF Sends
<1> HIDE DEF a, key, r
<1>9. ASSUME NEW n \in Nodes, NEW k \in Keys, NEW x \in Sessions, NEW y \in Sessions, x # y,
             Open(x, n, k)', Open(y, n, k)'
      PROVE  session'[x].clash
  <2>1. CASE x = s
    BY <1>5, <1>7, <1>9, <2>1
  <2>2. CASE y = s
    BY <1>5, <1>7, <1>9, <2>2
  <2>3. CASE x # s /\ y # s
    <3>1. Open(x, n, k) /\ Open(y, n, k)
      BY <1>7, <1>9, <2>3
    <3>2. session[x].clash
      BY <1>9, <3>1, VariablesAre
    <3> QED
      BY <1>7, <2>3, <3>2
  <2> QED
    BY <2>1, <2>2, <2>3
<1>10. ASSUME NEW n \in Nodes, NEW k \in Keys, node'[n].level = "repository", Clear(n, k)'
       PROVE  /\ \A x \in Sessions : Open(x, n, k)' => (k \in repo'[node'[n].name].set <=> session'[x].ask = "write")
              /\ (\A x \in Sessions : ~Open(x, n, k)') => (change'[n][k] = "create" <=> k \in repo'[node'[n].name].set)
  <2>1. \A x \in Sessions : About(x, n, k)' => ~session'[x].failed /\ ~session'[x].clash
    BY <1>10 DEF Clear
  <2>2. CASE n = a /\ k = key
    <3>1. ~session'[s].clash
      BY <1>4, <2>1, <2>2
    <3>2. ASSUME NEW x \in Sessions, Open(x, n, k)' PROVE x = s
      BY <1>7, <2>2, <3>1, <3>2
    <3>3. k \in repo'[node'[n].name].set <=> session[s].ask = "write"
      BY <1>1, <1>3, <2>2
    <3>4. Open(s, n, k)'
      BY <1>5, <2>2
    <3> QED
      BY <1>8, <3>2, <3>3, <3>4
  <2>3. CASE ~(n = a /\ k = key)
    <3>1. k \in repo'[node'[n].name].set <=> k \in repo[node[n].name].set
      <4>1. node[n].name \in Repos /\ node'[n].name = node[n].name
        <5>1. node \in [Nodes -> Node]
          BY TypesAre
        <5> QED
          BY <5>1, <1>1 DEF Node
      <4>2. CASE node[n].name # r
        BY <1>1, <4>1, <4>2
      <4>3. CASE node[n].name = r
        <5>1. node[n].level = "repository"
          BY <1>1, <1>10
        <5>2. node[a].level = "repository"
          <6>1. node[a].level # "gone"
            BY <5>1, <1>3, TypesAre DEF Deleted
          <6> QED
            BY <6>1, <1>3
        <5>3. n = a
          BY <1>3, <4>3, <5>1, <5>2, LeftParts DEF OneRow, Is
        <5>4. k # key
          BY <2>3, <5>3
        <5> QED
          BY <1>1, <4>1, <4>3, <5>4
      <4> QED
        BY <4>2, <4>3
    <3>2. \A x \in Sessions : Open(x, n, k)' <=> Open(x, n, k)
      <4>1. ~Open(s, n, k)' /\ ~Open(s, n, k)
        BY <1>5, <1>6, <2>3 DEF Open
      <4> QED
        BY <1>7, <4>1
    <3>3. \A x \in Sessions : session'[x].ask = session[x].ask
      BY <1>7, <1>8
    <3>4. Clear(n, k)
      <4>1. ASSUME NEW x \in Sessions, About(x, n, k) PROVE ~session[x].failed /\ ~session[x].clash
        <5>1. x # s
          BY <1>6, <2>3, <4>1
        <5> QED
          BY <1>7, <2>1, <4>1, <5>1
      <4> QED
        BY <4>1 DEF Clear
    <3>5. /\ \A x \in Sessions : Open(x, n, k) => (k \in repo[node[n].name].set <=> session[x].ask = "write")
          /\ (\A x \in Sessions : ~Open(x, n, k)) => (change[n][k] = "create" <=> k \in repo[node[n].name].set)
      BY <1>1, <1>10, <3>4, VariablesAre
    <3> QED
      BY <1>2, <3>1, <3>2, <3>3, <3>5
  <2> QED
    BY <2>2, <2>3
<1>11. Variables'
  BY <1>9, <1>10, VariablesNext
<1>12. \A q \in Repos : repo'[q].set # {} => repo[q].set # {} \/ LinkedAfter(q) \/ group' = "deleted"
  <2>1. CASE node[a].level = "repository"
    <3>1. LinkedAfter(r)
      BY <1>1, <1>3, <2>1 DEF LinkedAfter
    <3> QED
      BY <1>1, <3>1
  <2>2. CASE node[a].level = "gone"
    BY <1>2, <1>3, <2>2, TypesAre DEF Deleted
  <2> QED
    BY <1>3, <2>1, <2>2
<1>13. Bare'
  BY <1>1, <1>2, <1>12, NodeKept, BareStays
<1> QED
  BY <1>11, <1>13

LEMMA RecordVariables ==
  ASSUME Shape, Shape', Variables, Bare, NEW s \in Sessions, RecordChange(s)
  PROVE  Variables' /\ Bare'
<1> DEFINE a == session[s].at
           key == session[s].key
<1>1. /\ UNCHANGED <<group, standing, node, repo, assigned, asked, access, backfilled, events>>
      /\ session[s].todo = AtRecord /\ session[s].ask \in {"write", "delete"}
      /\ \/ Ends(s, TRUE) /\ change' = change
         \/ /\ Ends(s, FALSE) /\ Stored(a)
            /\ \A n \in Nodes, k \in Keys :
                 change'[n][k] = IF n = a /\ k = key
                                 THEN (IF session[s].ask = "write" THEN "create" ELSE "delete") ELSE change[n][k]
  BY RecordChangeIs
<1>2. session[s].todo # <<>>
  BY <1>1, TodoLens DEF Lasts
<1>3. CASE Ends(s, TRUE) /\ change' = change
  <2>1. \A t \in Sessions : Turn(t)
    BY <1>2, <1>3, EndsTurn
  <2> QED
    BY <1>1, <1>3, <2>1, ConfigurationMoved, NodeStands, SameRepo, QuietVariables
<1>4. CASE /\ Ends(s, FALSE) /\ Stored(a)
           /\ \A n \in Nodes, k \in Keys :
                change'[n][k] = IF n = a /\ k = key
                                THEN (IF session[s].ask = "write" THEN "create" ELSE "delete") ELSE change[n][k]
  <2>1. \A n, k : /\ About(s, n, k) <=> n = a /\ k = key
                  /\ Open(s, n, k) <=> n = a /\ k = key
    BY <1>1 DEF Open, About
  <2>2. \A n, k : About(s, n, k)' <=> n = a /\ k = key
    BY <1>1, <1>4 DEF Ends, About
  <2>3. \A n, k : ~Open(s, n, k)'
    BY <1>4, TodoLens DEF Ends, Open, Lasts
  <2>4. session'[s].clash = session[s].clash /\ ~session[s].failed
    BY <1>2, <1>4, RunningIs DEF Ends, RequestTyped
  <2>5. ASSUME NEW t \in Sessions, t # s
        PROVE  /\ session'[t] = session[t]
               /\ \A n, k : (About(t, n, k)' <=> About(t, n, k)) /\ (Open(t, n, k)' <=> Open(t, n, k))
    <3>1. session'[t] = session[t]
      BY <1>4, <2>5 DEF Ends, Others
    <3> QED
      BY <3>1 DEF About, Open
  <2>6. Stored(a)
    BY <1>4
  <2>7. \A n \in Nodes, k \in Keys :
          change'[n][k] = IF n = a /\ k = key
                          THEN (IF session[s].ask = "write" THEN "create" ELSE "delete") ELSE change[n][k]
    BY <1>4
  <2> HIDE DEF a, key
  <2>8. ASSUME NEW n \in Nodes, NEW k \in Keys, NEW x \in Sessions, NEW y \in Sessions, x # y,
               Open(x, n, k)', Open(y, n, k)'
        PROVE  session'[x].clash
    <3>1. x # s /\ y # s
      BY <2>3, <2>8
    <3>2. Open(x, n, k) /\ Open(y, n, k) /\ session'[x] = session[x]
      BY <2>5, <2>8, <3>1
    <3> QED
      BY <2>8, <3>2, VariablesAre
  <2>9. ASSUME NEW n \in Nodes, NEW k \in Keys, node'[n].level = "repository", Clear(n, k)'
        PROVE  /\ \A x \in Sessions : Open(x, n, k)' => (k \in repo'[node'[n].name].set <=> session'[x].ask = "write")
               /\ (\A x \in Sessions : ~Open(x, n, k)') => (change'[n][k] = "create" <=> k \in repo'[node'[n].name].set)
    <3>1. \A x \in Sessions : About(x, n, k)' => ~session'[x].failed /\ ~session'[x].clash
      BY <2>9 DEF Clear
    <3>2. Clear(n, k)
      <4>1. ASSUME NEW x \in Sessions, About(x, n, k) PROVE ~session[x].failed /\ ~session[x].clash
        <5>1. CASE x = s
          BY <2>1, <2>2, <2>4, <3>1, <4>1, <5>1
        <5>2. CASE x # s
          BY <2>5, <3>1, <4>1, <5>2
        <5> QED
          BY <5>1, <5>2
      <4> QED
        BY <4>1 DEF Clear
    <3>3. /\ \A x, y \in Sessions : x # y /\ Open(x, n, k) /\ Open(y, n, k) => session[x].clash
          /\ \A x \in Sessions : Open(x, n, k) => (k \in repo[node[n].name].set <=> session[x].ask = "write")
          /\ (\A x \in Sessions : ~Open(x, n, k)) => (change[n][k] = "create" <=> k \in repo[node[n].name].set)
      BY <1>1, <2>9, <3>2, VariablesAre
    <3>4. node' = node /\ repo' = repo
      BY <1>1
    <3>5. CASE n = a /\ k = key
      <4>1. Open(s, n, k) /\ About(s, n, k)
        BY <2>1, <3>5
      <4>2. ~session[s].clash
        BY <4>1, <3>2 DEF Clear
      <4>3. \A x \in Sessions : ~Open(x, n, k)'
        BY <2>3, <2>5, <3>3, <4>1, <4>2
      <4>4. k \in repo[node[n].name].set <=> session[s].ask = "write"
        BY <3>3, <4>1
      <4>5. change'[n][k] = "create" <=> session[s].ask = "write"
        BY <2>7, <3>5
      <4> QED
        BY <3>4, <4>3, <4>4, <4>5
    <3>6. CASE ~(n = a /\ k = key)
      <4>1. change'[n][k] = change[n][k]
        BY <2>7, <3>6
      <4>2. ~Open(s, n, k) /\ ~Open(s, n, k)'
        BY <2>1, <2>3, <3>6
      <4>3. \A x \in Sessions : (Open(x, n, k)' <=> Open(x, n, k)) /\ (Open(x, n, k) => session'[x].ask = session[x].ask)
        BY <2>5, <4>2
      <4> QED
        BY <3>3, <3>4, <4>1, <4>3
    <3> QED
      BY <3>5, <3>6
  <2>10. Variables'
    BY <2>8, <2>9, VariablesNext
  <2>11. \A n \in Nodes, k \in Keys : node'[n].level = "none" => change'[n][k] \in {"none", change[n][k]}
    <3>1. node[a].level # "none"
      BY <2>6 DEF Stored, Levels
    <3> QED
      BY <1>1, <2>7, <3>1
  <2>12. Bare'
    BY <1>1, <2>11, NodeKept, BareStays
  <2> QED
    BY <2>10, <2>12
<1> QED
  BY <1>1, <1>3, <1>4

LEMMA DropVariables ==
  ASSUME Shape, Variables, NEW s \in Sessions, DropGroup(s)
  PROVE  Variables' /\ Bare'
<1>1. /\ session[s].todo = AtDrop /\ group' = "deleted"
      /\ Ends(s, TRUE) \/ Ends(s, FALSE)
      /\ change' = [n \in Nodes |-> [k \in Keys |-> "none"]]
      /\ session[s].ask = "group"
  BY DropGroupIs
<1>2. session[s].todo \in Idling /\ session[s].ask \notin {"write", "delete"}
  BY <1>1 DEF Idling
<1>3. \A t \in Sessions : Turn(t)
  BY <1>1, <1>2, IdlingTurn
<1>4. \A n \in Nodes : node'[n].level \in {"none", "gone"}
  BY DropTree
<1>5. ASSUME NEW n \in Nodes, NEW k \in Keys, NEW x \in Sessions, NEW y \in Sessions, x # y,
             Open(x, n, k)', Open(y, n, k)'
      PROVE  session'[x].clash
  BY <1>3, <1>5, VariablesAre DEF Turn
<1>6. Variables'
  BY <1>4, <1>5, VariablesNext
<1>7. \A n \in Nodes, k \in Keys : change'[n][k] = "none"
  BY <1>1
<1>8. Bare'
  BY <1>1, <1>7 DEF Bare, Nodes
<1> QED
  BY <1>6, <1>8

LEMMA NextVariables ==
  ASSUME Shape, Shape', Leftovers, Variables, Bare, TreeNext \/ UNCHANGED treeVars
  PROVE  Variables' /\ Bare'
<1>1. ASSUME NEW s \in Sessions, BeginCreate(s) \/ BeginChange(s) \/ BeginRename(s) \/ BeginOfGroup(s)
      PROVE  Variables' /\ Bare'
  BY <1>1, BeginningMoved, BeginsVariables
<1>2. ASSUME NEW s \in Sessions, Step(s) PROVE Variables' /\ Bare'
  <2>1. CASE CheckRight(s) \/ StepFails(s) \/ Link(s) \/ SetArchiveStatus(s) \/ DropGroup(s)
    BY <2>1, CheckRightVariables, StepFailsVariables, LinkVariables, StatusVariables, DropVariables
  <2>2. CASE CreateSystem(s) \/ CreateDeliveryProject(s) \/ InsertRow(s)
    BY <2>2, InsertVariables
  <2>3. CASE CreateRepo(s) \/ InsertProject(s) \/ CreateProject(s)
    BY <2>3, RepoVariables
  <2>4. CASE Archive(s) \/ Rename(s) \/ FindLink(s)
    BY <2>4, NodeVariables
  <2>5. CASE SendConfiguration(s) \/ RecordChange(s)
    BY <2>5, SendVariables, RecordVariables
  <2> QED
    BY <1>2, <2>1, <2>2, <2>3, <2>4, <2>5 DEF Step
<1>3. CASE Backfill \/ ChangeStanding \/ Reassign \/ Sync \/ UNCHANGED treeVars
  BY <1>3, CalmVariables
<1> QED
  BY <1>1, <1>2, <1>3 DEF TreeNext

LEMMA InitVariables ==
  ASSUME TreeInit
  PROVE  Variables /\ Bare
<1>1. /\ \A s \in Sessions : session[s].ask = "none"
      /\ \A r \in Repos : repo[r].set = {}
      /\ \A n \in Nodes, k \in Keys : change[n][k] = "none"
  <2>1. \A s \in Sessions : session[s] = Idle
    BY DEF TreeInit
  <2>2. \A s \in Sessions : session[s].ask = "none"
    BY <2>1, IdleIs
  <2> QED
    BY <2>2 DEF TreeInit
<1>2. \A n \in Nodes : node[n].name \in Repos
  <2>1. node \in [Nodes -> Node]
    BY InitShape DEF Shape, TreeTypeOK
  <2> QED
    BY <2>1 DEF Node
<1>3. \A s \in Sessions : \A n, k : ~Open(s, n, k)
  BY <1>1 DEF Open, About
<1>4. Variables
  BY <1>1, <1>2, <1>3 DEF Variables, CurrentNames
<1>5. Bare
  BY <1>1 DEF Bare
<1> QED
  BY <1>4, <1>5

LEMMA ListedThere ==
  ASSUME Variables
  PROVE  ListedIsThere
<1>1. SUFFICES ASSUME NEW n \in Nodes, NEW k \in Keys, Is(n, "repository"),
                      \A s \in Sessions : About(s, n, k) => ~Failed(s) /\ ~session[s].clash
               PROVE  k \in CurrentNames(n) <=> k \in repo[node[n].name].set
  BY DEF ListedIsThere, About
<1>2. Clear(n, k)
  BY <1>1 DEF Clear, Failed
<1>3. \A s \in Sessions : ~Open(s, n, k)
  BY <1>1, TodoLens DEF Open, Failed, Running, Lasts
<1> QED
  BY <1>1, <1>2, <1>3 DEF Variables

LEMMA AtMostOne ==
  ASSUME NEW S, \A x, y \in S : x = y
  PROVE  Cardinality(S) <= 1
<1>1. CASE S = {}
  BY <1>1, FS_EmptySet
<1>2. CASE S # {}
  <2>1. PICK x : x \in S
    BY <1>2
  <2>2. S = {x}
    BY <2>1
  <2> QED
    BY <2>2, FS_Singleton
<1> QED
  BY <1>1, <1>2

LEMMA OneEach ==
  ASSUME OneRow
  PROVE  OneRowPerProject
<1>1. SUFFICES ASSUME NEW r \in Repos PROVE Cardinality(RowsOf(r)) <= 1
  BY DEF OneRowPerProject
<1> DEFINE added == RowsOf(r)
<1>2. \A x, y \in added : x = y
  BY DEF OneRow, RowsOf, Is
<1> HIDE DEF added
<1>3. Cardinality(added) <= 1
  BY <1>2, AtMostOne
<1> QED
  BY <1>3 DEF added

TreeParts == Shape /\ Leftovers /\ Variables /\ Bare /\ Grants

LEMMA NextParts ==
  ASSUME TreeParts, [TreeNext]_treeVars
  PROVE  TreeParts'
<1>1. Shape'
  BY NextShape, ShapeStutter DEF TreeParts
<1>2. Leftovers' /\ Variables' /\ Bare' /\ Grants'
  BY <1>1, NextLeft, NextVariables, NextGrants DEF TreeParts
<1> QED
  BY <1>1, <1>2 DEF TreeParts

LEMMA InitParts ==
  ASSUME TreeInit
  PROVE  TreeParts
  BY InitShape, InitLeft, InitVariables, InitGrants DEF TreeParts

\* What is left over in the tree or at GitHub was left by a request that failed, or by two rows the migration could
\* not tell apart, and a project has one row, whatever the order of forms, links, creations and the migration.
\* (createRepository, ensureLink, the migration.)
THEOREM LeftoversAreMishaps ==
  TreeSpec => []LeftoversOnlyByMishap
<1>1. TreeInit => TreeParts
  BY InitParts
<1>2. TreeParts /\ [TreeNext]_treeVars => TreeParts'
  BY NextParts
<1>3. TreeParts => LeftoversOnlyByMishap
  BY OneEach DEF TreeParts, Shape, Leftovers, LeftoversOnlyByMishap
<1> QED
  BY <1>1, <1>2, <1>3, PTL DEF TreeSpec

\* The variables, repositories and assignments the console lists are those that are there and that open, unless a
\* request about one failed half-way or two of them crossed.  (RepoConfigBrokerService, HierarchyAccessService.)
THEOREM ListsAreSo ==
  TreeSpec => []ShownIsSo
<1>1. TreeInit => TreeParts
  BY InitParts
<1>2. TreeParts /\ [TreeNext]_treeVars => TreeParts'
  BY NextParts
<1>3. TreeParts => ShownIsSo
  BY ListedThere, ListShows DEF TreeParts, Grants, ShownIsSo
<1> QED
  BY <1>1, <1>2, <1>3, PTL DEF TreeSpec

=============================================================================
