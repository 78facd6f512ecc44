---- MODULE GroupMembersProofs ----
(***************************************************************************)
(* Type correctness of GroupMembers; that a transfer leaves one lead; what *)
(* can take the last owner from a group; and what can leave a removed      *)
(* member with an assignment.                                              *)
(***************************************************************************)
EXTENDS GroupMembers, FiniteSetTheorems, TLAPS

-----------------------------------------------------------------------------
(* Type correctness.                                                       *)

LEMMA InitTypes == Init => TypeOK
  BY StartAssumption DEF Init, TypeOK, Owners

LEMMA BusyTypes ==
  ASSUME TypeOK, NEW s \in Sessions, ~At(s, "idle")
  PROVE  session[s] \in Session /\ Target(s) \in Users
  BY DEF TypeOK, At, Target, Session, Resting

\* What the statements do to sessions and locks.
LEMMA GotoTypes ==
  ASSUME TypeOK, NEW s \in Sessions, ~At(s, "idle"), NEW pc \in Pcs, Goto(s, pc)
  PROVE  session' \in [Sessions -> Session \cup {Resting}]
<1>1. [session[s] EXCEPT !.pc = pc] \in Session
  BY BusyTypes DEF Session
<1> QED
  BY <1>1 DEF Goto, TypeOK

LEMMA RestTypes ==
  ASSUME TypeOK, NEW s \in Sessions, Rest(s)
  PROVE  session' \in [Sessions -> Session \cup {Resting}]
  BY DEF Rest, TypeOK

LEMMA FinishTypes ==
  ASSUME TypeOK, NEW s \in Sessions, ~At(s, "idle"), NEW pc \in Pcs \cup {"idle"}, Finish(s, pc)
  PROVE  session' \in [Sessions -> Session \cup {Resting}]
         /\ lock' \in [Users -> Sessions \cup {NoOne}]
<1>1. pc # "idle" => [session[s] EXCEPT !.pc = pc, !.pending = {}, !.hits = {}, !.counted = {}] \in Session
  BY BusyTypes DEF Session
<1>2. session' \in [Sessions -> Session \cup {Resting}]
  BY <1>1 DEF Finish, TypeOK
<1>3. lock' \in [Users -> Sessions \cup {NoOne}]
  BY DEF Finish, Released, TypeOK
<1> QED
  BY <1>2, <1>3

LEMMA RequestTypes ==
  ASSUME TypeOK, NEW s \in Sessions, NEW kind \in RequestKinds, NEW target \in Users,
         NEW role \in Roles, NEW pc \in Pcs, NEW pending \in SUBSET Users,
         Request(s, kind, target, role, pc, pending)
  PROVE  TypeOK'
<1>1. [pc |-> pc, kind |-> kind, target |-> target, role |-> role,
       pending |-> pending, hits |-> {}, counted |-> {}, todo |-> {}] \in Session
  BY DEF Session
<1> QED
  BY <1>1 DEF Request, TypeOK

LEMMA SetRoleTypes ==
  ASSUME member \in [Users -> Member], NEW u \in Users, NEW role \in Roles
  PROVE  [member EXCEPT ![u].role = role] \in [Users -> Member]
<1>1. [member[u] EXCEPT !.role = role] \in Member
  BY DEF Member
<1> QED
  BY <1>1

LEMMA SetStatusTypes ==
  ASSUME member \in [Users -> Member], NEW u \in Users
  PROVE  [member EXCEPT ![u].status = "removed"] \in [Users -> Member]
<1>1. [member[u] EXCEPT !.status = "removed"] \in Member
  BY DEF Member
<1> QED
  BY <1>1

LEMMA OwnersTypes == Owners \subseteq Users
  BY DEF Owners

LEMMA GuardedTypes == ASSUME TypeOK, NEW s \in Sessions, GuardedStep(s) PROVE TypeOK'
<1>1. ASSUME NEW u \in Users, BeginGuarded(s, u) PROVE TypeOK'
  <2>1. CASE Request(s, "promote", u, "admin", "lock", Owners)
    BY <2>1, RequestTypes, OwnersTypes DEF RequestKinds, Roles, Pcs
  <2>2. ASSUME NEW role \in Roles \ {"admin"}, Request(s, "demote", u, role, "lock", Owners)
        PROVE  TypeOK'
    BY <2>2, RequestTypes, OwnersTypes DEF RequestKinds, Pcs
  <2>3. CASE Request(s, "remove", u, member[u].role, "lock", Owners)
    <3>1. member[u].role \in Roles
      BY DEF TypeOK, Member
    <3> QED
      BY <2>3, <3>1, RequestTypes, OwnersTypes DEF RequestKinds, Pcs
  <2> QED
    BY <1>1, <2>1, <2>2, <2>3 DEF BeginGuarded
<1>2. CASE OwnersLocked(s)
  BY <1>2, GotoTypes DEF OwnersLocked, TypeOK, Pcs, At
<1>3. CASE ReadTarget(s)
  <2>1. session' \in [Sessions -> Session \cup {Resting}]
    BY <1>3, GotoTypes DEF ReadTarget, Pcs, At
  <2>2. lock' \in [Users -> Sessions \cup {NoOne}]
    BY <1>3 DEF ReadTarget, TypeOK
  <2> QED
    BY <1>3, <2>1, <2>2 DEF ReadTarget, TypeOK
<1>4. CASE CountOwners(s)
  <2>1. CASE Finish(s, "idle")
    BY <1>4, <2>1, FinishTypes DEF CountOwners, TypeOK, At
  <2>2. CASE /\ session' = [session EXCEPT ![s].pc = "write", ![s].counted = Owners]
             /\ UNCHANGED lock
    <3>1. session[s] \in Session
      BY <1>4, BusyTypes DEF CountOwners, At
    <3>2. [session[s] EXCEPT !.pc = "write", !.counted = Owners] \in Session
      BY <3>1, OwnersTypes DEF Session, Pcs
    <3> QED
      BY <1>4, <2>2, <3>2 DEF CountOwners, TypeOK
  <2> QED
    BY <1>4, <2>1, <2>2 DEF CountOwners
<1>5. CASE ChangeRole(s)
  <2>1. session[s].role \in Roles /\ Target(s) \in Users
    BY <1>5, BusyTypes DEF ChangeRole, At, Session
  <2> QED
    BY <1>5, <2>1, FinishTypes, SetRoleTypes DEF ChangeRole, TypeOK, At
<1>6. CASE MarkRemoved(s)
  <2>1. Target(s) \in Users
    BY <1>6, BusyTypes DEF MarkRemoved, At
  <2> QED
    BY <1>6, <2>1, FinishTypes, SetStatusTypes DEF MarkRemoved, TypeOK, Pcs, At
<1>7. CASE ListAssigned(s)
  <2>1. session[s] \in Session /\ held[Target(s)] \in SUBSET Repos
    BY <1>7, BusyTypes DEF ListAssigned, TypeOK, At
  <2>2. [session[s] EXCEPT !.todo = held[Target(s)], !.pc = "revoke"] \in Session
    BY <2>1 DEF Session, Pcs
  <2> QED
    BY <1>7, <2>2 DEF ListAssigned, TypeOK
<1>8. CASE RevokeNext(s)
  <2>1. session[s] \in Session /\ Target(s) \in Users
    BY <1>8, BusyTypes DEF RevokeNext, At
  <2>2. ASSUME NEW r \in session[s].todo,
               held' = [held EXCEPT ![Target(s)] = @ \ {r}],
               session' = [session EXCEPT ![s].todo = @ \ {r}]
        PROVE  TypeOK'
    <3>1. [session[s] EXCEPT !.todo = @ \ {r}] \in Session
      BY <2>1 DEF Session
    <3>2. session' \in [Sessions -> Session \cup {Resting}]
      BY <2>2, <3>1 DEF TypeOK
    <3>3. held' \in [Users -> SUBSET Repos]
      BY <2>1, <2>2 DEF TypeOK
    <3> QED
      BY <1>8, <3>2, <3>3 DEF RevokeNext, TypeOK
  <2>3. CASE Rest(s) /\ UNCHANGED held
    BY <1>8, <2>3, RestTypes DEF RevokeNext, TypeOK
  <2> QED
    BY <1>8, <2>2, <2>3 DEF RevokeNext
<1> QED
  BY <1>1, <1>2, <1>3, <1>4, <1>5, <1>6, <1>7, <1>8 DEF GuardedStep

LEMMA TransferTypes == ASSUME TypeOK, NEW s \in Sessions, TransferStep(s) PROVE TypeOK'
<1>1. ASSUME NEW u \in Users, BeginTransfer(s, u) PROVE TypeOK'
  BY <1>1, RequestTypes DEF BeginTransfer, RequestKinds, Roles, Pcs
<1>2. CASE MembersLocked(s)
  BY <1>2, GotoTypes DEF MembersLocked, TypeOK, Pcs, At
<1>3. CASE CheckNewLead(s)
  <2>1. session[s] \in Session /\ Target(s) \in Users
    BY <1>3, BusyTypes DEF CheckNewLead, At
  <2>2. CASE Finish(s, "idle")
    BY <1>3, <2>2, FinishTypes DEF CheckNewLead, TypeOK, At
  <2>3. CASE session' = [session EXCEPT ![s].pc = "update", ![s].hits = {},
                                        ![s].pending = Owners \cup {Target(s)}] /\ UNCHANGED lock
    <3>1. [session[s] EXCEPT !.pc = "update", !.hits = {},
                             !.pending = Owners \cup {Target(s)}] \in Session
      BY <2>1, OwnersTypes DEF Session, Pcs
    <3> QED
      BY <1>3, <2>3, <3>1 DEF CheckNewLead, TypeOK
  <2> QED
    BY <1>3, <2>2, <2>3 DEF CheckNewLead
<1>4. CASE TransferLead(s)
  <2>1. Target(s) \in Users
    BY <1>4, BusyTypes DEF TransferLead, At
  <2>2. \A u \in Users, role \in Roles : [member[u] EXCEPT !.role = role] \in Member
    BY DEF TypeOK, Member
  <2>3. member' \in [Users -> Member]
    BY <1>4, <2>2 DEF TransferLead, TypeOK, Roles
  <2> QED
    BY <1>4, <2>1, <2>3, FinishTypes DEF TransferLead, TypeOK, At
<1> QED
  BY <1>1, <1>2, <1>3, <1>4 DEF TransferStep

LEMMA UpsertTypes == ASSUME TypeOK, NEW s \in Sessions, AddStep(s) \/ AssignStep(s) PROVE TypeOK'
<1>1. ASSUME NEW u \in Users, BeginAdd(s, u) PROVE TypeOK'
  BY <1>1, RequestTypes DEF BeginAdd, RequestKinds, Pcs
<1>2. CASE AddMemberDirect(s)
  <2>1. session[s] \in Session /\ Target(s) \in Users
    BY <1>2, BusyTypes DEF AddMemberDirect, At
  <2>2. [role |-> session[s].role, status |-> "active"] \in Member
    BY <2>1 DEF Session, Member
  <2> QED
    BY <1>2, <2>1, <2>2, RestTypes DEF AddMemberDirect, TypeOK
<1>3. ASSUME NEW u \in Users, NEW r \in Repos, BeginAssign(s, u, r) PROVE TypeOK'
  <2>1. [Resting EXCEPT !.pc = "assign", !.kind = "assign", !.target = u, !.todo = {r}] \in Session
    BY DEF Resting, Session, Pcs, RequestKinds, Roles
  <2> QED
    BY <1>3, <2>1 DEF BeginAssign, TypeOK
<1>4. CASE CreateOrReset(s)
  <2>1. session[s] \in Session /\ Target(s) \in Users
    BY <1>4, BusyTypes DEF CreateOrReset, At
  <2>2. held' \in [Users -> SUBSET Repos]
    BY <1>4, <2>1 DEF CreateOrReset, TypeOK, Session
  <2> QED
    BY <1>4, <2>2, RestTypes DEF CreateOrReset, TypeOK
<1> QED
  BY <1>1, <1>2, <1>3, <1>4 DEF AddStep, AssignStep

\* A session that waits for rows is not idle, and stays one that waits.
LEMMA ClaimTypes == ASSUME TypeOK, NEW s \in Sessions, ClaimRow(s) PROVE TypeOK'
<1>1. PICK u \in session[s].pending :
        /\ lock' = IF Matches(s, u) THEN [lock EXCEPT ![u] = s] ELSE lock
        /\ session' = [session EXCEPT ![s].pending = @ \ {u},
                                      ![s].hits = IF Matches(s, u) THEN @ \cup {u} ELSE @]
        /\ UNCHANGED <<member, owner, held>>
  BY DEF ClaimRow
<1>2. session[s] \in Session
  BY <1>1 DEF TypeOK, Resting
<1>3. u \in Users
  BY <1>2 DEF Session
<1>4. [session[s] EXCEPT !.pending = @ \ {u},
                         !.hits = IF Matches(s, u) THEN @ \cup {u} ELSE @] \in Session
  BY <1>2, <1>3 DEF Session
<1>5. session' \in [Sessions -> Session \cup {Resting}]
  BY <1>1, <1>4 DEF TypeOK
<1>6. lock' \in [Users -> Sessions \cup {NoOne}]
  BY <1>1 DEF TypeOK
<1> QED
  BY <1>1, <1>5, <1>6 DEF TypeOK

LEMMA FailureTypes == ASSUME TypeOK, NEW s \in Sessions, Abort(s) \/ CutShort(s) PROVE TypeOK'
<1>1. CASE Abort(s)
  BY <1>1, FinishTypes DEF Abort, InTransaction, TypeOK, At
<1>2. CASE CutShort(s)
  BY <1>2, RestTypes DEF CutShort, TypeOK
<1> QED
  BY <1>1, <1>2

\* Every reachable state of the member table, its locks and its requests is well
\* typed; in particular no request runs without a target.  (GroupsRepository.)
THEOREM GroupTypesHold == Spec => []TypeOK
<1>1. TypeOK /\ [Next]_vars => TypeOK'
  <2> SUFFICES ASSUME TypeOK, [Next]_vars PROVE TypeOK'
    OBVIOUS
  <2>1. ASSUME NEW s \in Sessions,
               \/ GuardedStep(s) \/ TransferStep(s) \/ AddStep(s) \/ AssignStep(s)
               \/ ClaimRow(s) \/ Abort(s) \/ CutShort(s)
        PROVE  TypeOK'
    BY <2>1, GuardedTypes, TransferTypes, UpsertTypes, ClaimTypes, FailureTypes
  <2>2. CASE UNCHANGED vars
    BY <2>2 DEF vars, TypeOK
  <2> QED
    BY <2>1, <2>2 DEF Next
<1> QED
  BY <1>1, InitTypes, PTL DEF Spec

-----------------------------------------------------------------------------
(* What the steps of a request leave alone.                                *)

SessionStep(s) ==
  \/ GuardedStep(s) \/ TransferStep(s) \/ AddStep(s) \/ AssignStep(s)
  \/ ClaimRow(s) \/ Abort(s) \/ CutShort(s)

\* A request leaves the others' progress and locks alone.
LeavesOthers(s) ==
  \A t \in Sessions \ {s} :
    /\ session'[t] = session[t]
    /\ \A u \in Users : lock'[u] = t <=> lock[u] = t

LEMMA FinishLeaves ==
  ASSUME TypeOK, NEW s \in Sessions, NEW pc, Finish(s, pc)
  PROVE  LeavesOthers(s)
  BY GroupAssumption DEF GroupAssumption, Finish, Released, LeavesOthers, TypeOK

LEMMA StepLeaves ==
  ASSUME TypeOK, NEW s \in Sessions, SessionStep(s)
  PROVE  LeavesOthers(s)
<1> USE DEF LeavesOthers, TypeOK
<1>0. NoOne \notin Sessions
  BY GroupAssumption
<1>1. CASE GuardedStep(s)
  <2>1. ASSUME NEW u \in Users, BeginGuarded(s, u) PROVE LeavesOthers(s)
    BY <2>1 DEF BeginGuarded, Request
  <2>2. CASE OwnersLocked(s)
    BY <2>2 DEF OwnersLocked, Goto
  <2>3. CASE ReadTarget(s)
    BY <2>3, <1>0 DEF ReadTarget, Goto
  <2>4. CASE CountOwners(s)
    BY <2>4, FinishLeaves DEF CountOwners, Goto
  <2>5. CASE ChangeRole(s) \/ MarkRemoved(s)
    BY <2>5, FinishLeaves DEF ChangeRole, MarkRemoved
  <2>6. CASE ListAssigned(s) \/ RevokeNext(s)
    BY <2>6 DEF ListAssigned, RevokeNext, Rest
  <2> QED
    BY <1>1, <2>1, <2>2, <2>3, <2>4, <2>5, <2>6 DEF GuardedStep
<1>2. CASE TransferStep(s)
  BY <1>2, FinishLeaves
  DEF TransferStep, BeginTransfer, Request, MembersLocked, Goto, CheckNewLead, TransferLead
<1>3. CASE AddStep(s) \/ AssignStep(s)
  BY <1>3
  DEF AddStep, AssignStep, BeginAdd, AddMemberDirect, BeginAssign, CreateOrReset, Request, Rest
<1>4. CASE ClaimRow(s)
  BY <1>4, <1>0 DEF ClaimRow
<1>5. CASE Abort(s) \/ CutShort(s)
  BY <1>5, FinishLeaves DEF Abort, CutShort, Rest
<1> QED
  BY <1>1, <1>2, <1>3, <1>4, <1>5 DEF SessionStep

LEMMA SameOwners == ASSUME UNCHANGED member PROVE Owners' = Owners
  BY DEF Owners, Active

\* The steps that write to the member table.
LEMMA Writers ==
  ASSUME NEW s, SessionStep(s), ~ChangeRole(s), ~MarkRemoved(s), ~TransferLead(s), ~AddMemberDirect(s)
  PROVE  UNCHANGED member
  BY DEF SessionStep, GuardedStep, TransferStep, AddStep, AssignStep, BeginGuarded, Request,
         OwnersLocked, ReadTarget, CountOwners, ListAssigned, RevokeNext, BeginTransfer,
         MembersLocked, CheckNewLead, BeginAdd, BeginAssign, CreateOrReset, ClaimRow, Abort, CutShort

LEMMA AnotherOwner ==
  ASSUME GroupAssumption, NEW u, Cardinality(Owners) > 1
  PROVE  \E v \in Owners : v # u
<1>1. IsFiniteSet(Owners)
  BY OwnersTypes, FS_Subset DEF GroupAssumption
<1> SUFFICES ASSUME Owners \subseteq {u} PROVE FALSE
  OBVIOUS
<1>2. Cardinality({u}) = 1 /\ IsFiniteSet({u})
  BY FS_Singleton
<1>3. Cardinality(Owners) <= 1
  BY <1>2, FS_Subset
<1>4. Cardinality(Owners) \in Nat
  BY <1>1, FS_CardinalityType
<1> QED
  BY <1>3, <1>4

-----------------------------------------------------------------------------
(* Transfers, among any other requests.  A row that one transaction holds is *)
(* changed by no other, so what a transfer has learnt of the rows it holds    *)
(* stays true until it writes them.                                          *)

\* A role change or a removal holds the row it is about to write, a transfer
\* those it has found; and no owner it holds escapes its UPDATE.
Holds(s) ==
  /\ session[s].pc \in {"count", "write"} => lock[Target(s)] = s
  /\ At(s, "update") =>
       /\ \A u \in session[s].hits : lock[u] = s
       /\ \A u \in Users : lock[u] = s /\ (u \in Owners \/ u = Target(s)) =>
            Active(u) /\ u \in session[s].pending \cup session[s].hits

AllHold == \A s \in Sessions : Holds(s)

HInv == TypeOK /\ AllHold

LEMMA HeldRowsRest ==
  ASSUME HInv, NEW s \in Sessions, SessionStep(s), NEW u \in Users, lock[u] \notin {s, NoOne}
  PROVE  member'[u] = member[u]
<1>1. CASE ChangeRole(s) \/ MarkRemoved(s)
  <2>1. lock[Target(s)] = s
    BY <1>1 DEF ChangeRole, MarkRemoved, HInv, AllHold, Holds, At
  <2> QED
    BY <1>1, <2>1 DEF ChangeRole, MarkRemoved, HInv, TypeOK
<1>2. CASE TransferLead(s)
  <2>1. u \notin session[s].hits
    BY <1>2 DEF TransferLead, HInv, AllHold, Holds
  <2> QED
    BY <1>2, <2>1 DEF TransferLead
<1>3. CASE AddMemberDirect(s)
  BY <1>3 DEF AddMemberDirect, HInv, TypeOK
<1>4. CASE UNCHANGED member
  BY <1>4
<1> QED
  BY <1>1, <1>2, <1>3, <1>4, Writers

LEMMA OthersStillHold ==
  ASSUME HInv, NEW s \in Sessions, SessionStep(s), NEW t \in Sessions \ {s}
  PROVE  Holds(t)'
<1>1. /\ session'[t] = session[t]
      /\ \A u \in Users : lock'[u] = t <=> lock[u] = t
  BY StepLeaves DEF HInv, LeavesOthers
<1>2. \A u \in Users : lock[u] = t => member'[u] = member[u]
  BY HeldRowsRest, GroupAssumption DEF GroupAssumption
<1>3. Holds(t)
  BY DEF HInv, AllHold
<1>4. session[t].pc \in {"count", "write", "update"} =>
        Target(t) \in Users /\ session[t].hits \subseteq Users
  <2> SUFFICES ASSUME session[t].pc \in {"count", "write", "update"}
               PROVE  Target(t) \in Users /\ session[t].hits \subseteq Users
    OBVIOUS
  <2>1. session[t] \in Session /\ Target(t) \in Users
    BY BusyTypes DEF HInv, At
  <2> QED
    BY <2>1 DEF Session
<1>5. session[t].pc \in {"count", "write"} => lock'[Target(t)] = t
  BY <1>1, <1>3, <1>4 DEF Holds
<1>6. At(t, "update") => \A u \in session[t].hits : lock'[u] = t
  BY <1>1, <1>3, <1>4 DEF Holds, At
<1>7. \A u \in Users : lock'[u] = t => ((u \in Owners)' <=> u \in Owners) /\ (Active(u)' <=> Active(u))
  BY <1>1, <1>2 DEF Owners, Active
<1>8. At(t, "update") =>
        \A u \in Users : lock'[u] = t /\ ((u \in Owners)' \/ u = Target(t)) =>
          Active(u)' /\ u \in session[t].pending \cup session[t].hits
  BY <1>1, <1>3, <1>7 DEF Holds
<1>9. At(t, "update")' <=> At(t, "update")
  BY <1>1 DEF At
<1> QED
  BY <1>1, <1>5, <1>6, <1>8, <1>9 DEF Holds, Target

\* Where a step leads that leaves nothing to hold.
LEMMA NothingToHold ==
  ASSUME NEW s \in Sessions, session'[s].pc \notin {"count", "write", "update"}
  PROVE  Holds(s)'
  BY DEF Holds, At

LEMMA FinishHolds ==
  ASSUME TypeOK, NEW s \in Sessions, NEW pc \in {"idle", "list"}, Finish(s, pc)
  PROVE  Holds(s)'
<1>1. session'[s].pc \notin {"count", "write", "update"}
  BY DEF Finish, Resting, TypeOK
<1> QED
  BY <1>1, NothingToHold

LEMMA ClaimHolds ==
  ASSUME HInv, NEW s \in Sessions, ClaimRow(s)
  PROVE  Holds(s)'
<1>1. PICK u \in session[s].pending :
        /\ lock' = IF Matches(s, u) THEN [lock EXCEPT ![u] = s] ELSE lock
        /\ session' = [session EXCEPT ![s].pending = @ \ {u},
                                      ![s].hits = IF Matches(s, u) THEN @ \cup {u} ELSE @]
        /\ UNCHANGED <<member, owner, held>>
  BY DEF ClaimRow
<1>2. session[s] \in Session /\ Holds(s)
  BY <1>1 DEF HInv, AllHold, TypeOK, Resting
<1>3. u \in Users /\ Target(s) \in Users /\ session[s].hits \subseteq Users
  BY <1>2 DEF Session, Target
<1>4. /\ session'[s].pc = session[s].pc /\ Target(s)' = Target(s)
      /\ session'[s].pending = session[s].pending \ {u}
      /\ session'[s].hits = IF Matches(s, u) THEN session[s].hits \cup {u} ELSE session[s].hits
  BY <1>1, <1>2 DEF HInv, TypeOK, Session, Target
<1>5. /\ \A v \in Users \ {u} : lock'[v] = lock[v]
      /\ IF Matches(s, u) THEN lock'[u] = s ELSE lock'[u] = lock[u]
  BY <1>1, <1>3 DEF HInv, TypeOK
<1>6. Owners' = Owners /\ \A v \in Users : Active(v)' <=> Active(v)
  BY <1>1 DEF Owners, Active
<1>7. session[s].pc \in {"count", "write"} => lock'[Target(s)] = s
  BY <1>2, <1>3, <1>5 DEF Holds
<1>8. At(s, "update") => \A v \in session'[s].hits : lock'[v] = s
  BY <1>2, <1>3, <1>4, <1>5 DEF Holds
<1>9. At(s, "update") => (Matches(s, u) <=> Active(u) /\ (u \in Owners \/ u = Target(s)))
  BY <1>3 DEF At, Matches, Owners
<1>10. At(s, "update") =>
         \A v \in Users : lock'[v] = s /\ (v \in Owners \/ v = Target(s)) =>
           Active(v) /\ v \in session'[s].pending \cup session'[s].hits
  <2> SUFFICES ASSUME At(s, "update"), NEW v \in Users, lock'[v] = s, v \in Owners \/ v = Target(s)
               PROVE  Active(v) /\ v \in session'[s].pending \cup session'[s].hits
    OBVIOUS
  <2>1. CASE v = u
    <3>1. CASE Matches(s, u)
      BY <1>4, <1>9, <2>1, <3>1
    <3>2. CASE ~Matches(s, u)
      BY <1>2, <1>5, <1>9, <2>1, <3>2 DEF Holds
    <3> QED
      BY <3>1, <3>2
  <2>2. CASE v # u
    BY <1>2, <1>4, <1>5, <2>2 DEF Holds
  <2> QED
    BY <2>1, <2>2
<1>11. At(s, "update")' <=> At(s, "update")
  BY <1>4 DEF At
<1> QED
  BY <1>4, <1>6, <1>7, <1>8, <1>10, <1>11 DEF Holds

LEMMA StepHolds ==
  ASSUME HInv, NEW s \in Sessions, SessionStep(s)
  PROVE  Holds(s)'
<1>1. TypeOK /\ Holds(s)
  BY DEF HInv, AllHold
<1>2. CASE ReadTarget(s)
  <2>1. session[s] \in Session /\ Target(s) \in Users
    BY <1>1, <1>2, BusyTypes DEF ReadTarget, At
  <2>2. /\ Target(s)' = Target(s) /\ session'[s].pc \in {"count", "write"}
        /\ lock'[Target(s)] = s
    BY <1>1, <1>2, <2>1 DEF ReadTarget, Goto, Target, TypeOK, Session
  <2> QED
    BY <2>2 DEF Holds, At
<1>3. CASE CountOwners(s)
  <2>1. CASE Finish(s, "idle")
    BY <1>1, <2>1, FinishHolds
  <2>2. CASE /\ session' = [session EXCEPT ![s].pc = "write", ![s].counted = Owners]
             /\ UNCHANGED lock
    <3>1. session[s] \in Session
      BY <1>1, <1>3, BusyTypes DEF CountOwners, At
    <3>2. Target(s)' = Target(s) /\ session'[s].pc = "write" /\ lock[Target(s)] = s
      BY <1>1, <1>3, <2>2, <3>1 DEF CountOwners, Holds, At, Target, TypeOK, Session
    <3> QED
      BY <2>2, <3>2 DEF Holds, At
  <2> QED
    BY <1>3, <2>1, <2>2 DEF CountOwners
<1>4. CASE CheckNewLead(s)
  <2>1. CASE Finish(s, "idle")
    BY <1>1, <2>1, FinishHolds
  <2>2. CASE /\ Active(Target(s))
             /\ session' = [session EXCEPT ![s].pc = "update", ![s].hits = {},
                                           ![s].pending = Owners \cup {Target(s)}]
             /\ UNCHANGED lock
    <3>1. session[s] \in Session
      BY <1>1, <1>4, BusyTypes DEF CheckNewLead, At
    <3>2. /\ session'[s].pc = "update" /\ session'[s].hits = {} /\ Target(s)' = Target(s)
          /\ session'[s].pending = Owners \cup {Target(s)}
      BY <1>1, <2>2, <3>1 DEF Target, TypeOK, Session
    <3>3. Owners' = Owners /\ \A v \in Users : Active(v)' <=> Active(v)
      BY <1>4 DEF CheckNewLead, Owners, Active
    <3>4. \A v \in Owners : Active(v)
      BY DEF Owners
    <3> QED
      BY <2>2, <3>2, <3>3, <3>4 DEF Holds, At
  <2> QED
    BY <1>4, <2>1, <2>2 DEF CheckNewLead
<1>5. CASE ClaimRow(s)
  BY <1>5, ClaimHolds
<1>6. CASE ChangeRole(s) \/ MarkRemoved(s) \/ TransferLead(s) \/ Abort(s)
  BY <1>1, <1>6, FinishHolds DEF ChangeRole, MarkRemoved, TransferLead, Abort
<1>7. ASSUME NEW u \in Users, BeginGuarded(s, u) \/ BeginTransfer(s, u) \/ BeginAdd(s, u)
      PROVE  Holds(s)'
  <2>1. session'[s].pc \in {"lock", "lockall", "upsert"}
    BY <1>1, <1>7 DEF BeginGuarded, BeginTransfer, BeginAdd, Request, TypeOK
  <2> QED
    BY <2>1, NothingToHold
<1>8. CASE OwnersLocked(s) \/ MembersLocked(s)
  <2>1. session[s] \in Session
    BY <1>1, <1>8, BusyTypes DEF OwnersLocked, MembersLocked, At
  <2>2. session'[s].pc \in {"target", "check"}
    BY <1>1, <1>8, <2>1 DEF OwnersLocked, MembersLocked, Goto, TypeOK, Session
  <2> QED
    BY <2>2, NothingToHold
<1>9. CASE ListAssigned(s) \/ RevokeNext(s)
  <2>1. session[s] \in Session
    BY <1>1, <1>9, BusyTypes DEF ListAssigned, RevokeNext, At
  <2>2. session'[s].pc \in {"revoke", "idle"}
    BY <1>1, <1>9, <2>1 DEF ListAssigned, RevokeNext, Rest, Resting, At, TypeOK, Session
  <2> QED
    BY <2>2, NothingToHold
<1>10. CASE AddMemberDirect(s) \/ AssignStep(s) \/ CutShort(s)
  <2>1. CASE Rest(s)
    <3>1. session'[s].pc = "idle"
      BY <1>1, <2>1 DEF Rest, Resting, TypeOK
    <3> QED
      BY <3>1, NothingToHold
  <2>2. ASSUME NEW u \in Users, NEW r \in Repos, BeginAssign(s, u, r) PROVE Holds(s)'
    <3>1. session'[s].pc = "assign"
      BY <1>1, <2>2 DEF BeginAssign, Resting, TypeOK
    <3> QED
      BY <3>1, NothingToHold
  <2> QED
    BY <1>10, <2>1, <2>2 DEF AddMemberDirect, AssignStep, CreateOrReset, CutShort
<1> QED
  BY <1>2, <1>3, <1>4, <1>5, <1>6, <1>7, <1>8, <1>9, <1>10
  DEF SessionStep, GuardedStep, TransferStep, AddStep

LEMMA HInvHolds == Spec => []HInv
<1>1. Init => HInv
  <2>1. Init => AllHold
    BY DEF Init, AllHold, Holds, Resting, At
  <2> QED
    BY <2>1, InitTypes DEF HInv
<1>2. HInv /\ TypeOK' /\ [Next]_vars => HInv'
  <2> SUFFICES ASSUME HInv, TypeOK', [Next]_vars PROVE AllHold'
    BY DEF HInv
  <2>1. ASSUME NEW s \in Sessions, SessionStep(s) PROVE AllHold'
    BY <2>1, StepHolds, OthersStillHold DEF AllHold
  <2>2. CASE UNCHANGED vars
    BY <2>2, SameOwners DEF vars, HInv, AllHold, Holds, At, Target, Active
  <2> QED
    BY <2>1, <2>2 DEF Next, SessionStep
<1> QED
  BY <1>1, <1>2, GroupTypesHold, PTL DEF Spec

\* A step that ends a transfer with a changed table is its UPDATE.
LEMMA UpdateIs ==
  ASSUME TypeOK, NEW s \in Sessions, NEW t \in Sessions, SessionStep(t),
         At(s, "update"), At(s, "idle")', member' # member
  PROVE  TransferLead(s)
<1>1. t = s
  BY StepLeaves DEF LeavesOthers, At
<1>2. ~ClaimRow(s) /\ ~Abort(s) /\ ~CutShort(s)
  BY DEF ClaimRow, Abort, CutShort
<1>3. ~GuardedStep(s) /\ ~AddStep(s) /\ ~AssignStep(s)
  BY DEF GuardedStep, AddStep, AssignStep, At, BeginGuarded, Request, OwnersLocked, ReadTarget, CountOwners,
         ChangeRole, MarkRemoved, ListAssigned, RevokeNext, BeginAdd, AddMemberDirect, BeginAssign,
         CreateOrReset
<1> QED
  BY <1>1, <1>2, <1>3
  DEF SessionStep, TransferStep, At, BeginTransfer, Request, MembersLocked, CheckNewLead

\* However many requests run beside it, a transfer leaves its target as the one lead
\* among the members it holds, and as owner_user_id.  (transferLeadGuarded locks the
\* members it finds, and its UPDATE demotes every other owner.)
THEOREM TransferLeavesOneLead == Spec => OneLeadAfterTransfer
<1> DEFINE Rule ==
      \A s \in Sessions : At(s, "update") /\ member' # member /\ At(s, "idle")' =>
        /\ owner' = Target(s)
        /\ \A u \in Users : lock[u] = s => (u \in Owners' <=> u = Target(s))
<1>1. ASSUME HInv, [Next]_vars PROVE [Rule]_vars
  <2> SUFFICES ASSUME Next PROVE Rule
    BY <1>1
  <2> SUFFICES ASSUME NEW s \in Sessions, At(s, "update"), member' # member, At(s, "idle")'
               PROVE  /\ owner' = Target(s)
                      /\ \A u \in Users : lock[u] = s => (u \in Owners' <=> u = Target(s))
    OBVIOUS
  <2>1. TransferLead(s)
    BY <1>1, UpdateIs DEF Next, SessionStep, HInv
  <2>2. owner' = Target(s) /\ session[s].pending = {}
    BY <2>1 DEF TransferLead
  <2>3. ASSUME NEW u \in Users, lock[u] = s PROVE u \in Owners' <=> u = Target(s)
    <3>1. member[u] \in Member /\ Target(s) \in Users
      BY <1>1, BusyTypes DEF HInv, TypeOK, At
    <3>2. u \in Owners \/ u = Target(s) => Active(u) /\ u \in session[s].hits
      BY <1>1, <2>2, <2>3 DEF HInv, AllHold, Holds
    <3>3. CASE u \in session[s].hits
      <4>1. member'[u] = [member[u] EXCEPT !.role = IF u = Target(s) THEN "admin" ELSE "delegated_lead"]
        BY <2>1, <3>3 DEF TransferLead
      <4>2. /\ member'[u].status = member[u].status
            /\ member'[u].role = "admin" <=> u = Target(s)
        BY <3>1, <4>1 DEF Member
      <4> QED
        BY <3>2, <4>2 DEF Owners, Active
    <3>4. CASE u \notin session[s].hits
      <4>1. member'[u] = member[u] /\ u \notin Owners /\ u # Target(s)
        BY <2>1, <3>2, <3>4 DEF TransferLead
      <4> QED
        BY <4>1 DEF Owners, Active
    <3> QED
      BY <3>3, <3>4
  <2> QED
    BY <2>2, <2>3
<1> QED
  BY <1>1, HInvHolds, PTL DEF Spec, OneLeadAfterTransfer

-----------------------------------------------------------------------------
(* The assignments of removed members.                                     *)

\* The removal s has still to revoke u's assignment to r.
Covers(s, u, r) ==
  /\ session[s].kind = "remove" /\ Target(s) = u
  /\ At(s, "list") \/ (At(s, "revoke") /\ r \in session[s].todo)

\* What a step of s has to answer for, the other requests going on as before.
LEMMA NoStray ==
  ASSUME NEW s \in Sessions, LeavesOthers(s), RemovedHoldNothing,
         \A u \in Users : \A r \in held'[u] : member'[u].status = "removed" =>
           \/ Covers(s, u, r)'
           \/ member[u].status = "removed" /\ r \in held[u] /\ ~Covers(s, u, r)
  PROVE  RemovedHoldNothing'
<1>1. ASSUME NEW u \in Users, NEW r \in held'[u], member'[u].status = "removed"
      PROVE  Offboarding(u, r)'
  <2>1. CASE Covers(s, u, r)'
    BY <2>1 DEF Covers, Offboarding, At, Target
  <2>2. CASE member[u].status = "removed" /\ r \in held[u] /\ ~Covers(s, u, r)
    <3>1. Offboarding(u, r)
      BY <2>2 DEF RemovedHoldNothing
    <3>2. PICK t \in Sessions : Covers(t, u, r)
      BY <3>1 DEF Offboarding, Covers
    <3>3. session'[t] = session[t]
      BY <2>2, <3>2 DEF LeavesOthers
    <3>4. Covers(t, u, r)'
      BY <3>2, <3>3 DEF Covers, At, Target
    <3> QED
      BY <3>4 DEF Covers, Offboarding, At, Target
  <2> QED
    BY <1>1, <2>1, <2>2
<1> QED
  BY <1>1 DEF RemovedHoldNothing

LEMMA NoStrayByRest ==
  ASSUME NEW s \in Sessions, LeavesOthers(s), RemovedHoldNothing, UNCHANGED held,
         ~At(s, "list"), At(s, "revoke") => session[s].todo = {},
         \A u \in Users : member'[u].status = "removed" => member[u].status = "removed"
  PROVE  RemovedHoldNothing'
<1>1. \A u \in Users : \A r : ~Covers(s, u, r)
  BY DEF Covers
<1> QED
  BY <1>1, NoStray

LEMMA CascadeGoesOn ==
  ASSUME TypeOK, NEW s \in Sessions, LeavesOthers(s), RemovedHoldNothing, ListAssigned(s) \/ RevokeNext(s)
  PROVE  RemovedHoldNothing'
<1>1. session[s] \in Session /\ Target(s) \in Users
  BY BusyTypes DEF ListAssigned, RevokeNext, At
<1>2. CASE ListAssigned(s)
  <2>1. /\ session'[s].pc = "revoke" /\ session'[s].kind = session[s].kind
        /\ session'[s].target = session[s].target /\ session'[s].todo = held[Target(s)]
    BY <1>1, <1>2 DEF ListAssigned, TypeOK, Session
  <2>2. UNCHANGED <<member, held>>
    BY <1>2 DEF ListAssigned
  <2>3. \A u \in Users : \A r \in held'[u] : Covers(s, u, r) => Covers(s, u, r)'
    BY <2>1, <2>2 DEF Covers, Target, At
  <2> QED
    BY <2>2, <2>3, NoStray
<1>3. ASSUME NEW r \in session[s].todo,
             held' = [held EXCEPT ![Target(s)] = @ \ {r}],
             session' = [session EXCEPT ![s].todo = @ \ {r}],
             At(s, "revoke"), UNCHANGED member
      PROVE  RemovedHoldNothing'
  <2>1. /\ session'[s].pc = "revoke" /\ session'[s].kind = session[s].kind
        /\ session'[s].target = session[s].target /\ session'[s].todo = session[s].todo \ {r}
    BY <1>1, <1>3 DEF TypeOK, Session, At
  <2>2. \A u \in Users : held'[u] = IF u = Target(s) THEN held[u] \ {r} ELSE held[u]
    BY <1>1, <1>3 DEF TypeOK
  <2>3. \A u \in Users : \A p \in held'[u] : p \in held[u] /\ (Covers(s, u, p) => Covers(s, u, p)')
    BY <1>3, <2>1, <2>2 DEF Covers, Target, At
  <2> QED
    BY <1>3, <2>3, NoStray
<1>4. CASE RevokeNext(s) /\ session[s].todo = {} /\ UNCHANGED held
  BY <1>4, NoStrayByRest DEF RevokeNext, At
<1> QED
  BY <1>2, <1>3, <1>4 DEF RevokeNext

LEMMA RemovalIsCovered ==
  ASSUME TypeOK, NEW s \in Sessions, LeavesOthers(s), RemovedHoldNothing, MarkRemoved(s)
  PROVE  RemovedHoldNothing'
<1>1. session[s] \in Session /\ Target(s) \in Users
  BY BusyTypes DEF MarkRemoved, At
<1>2. /\ At(s, "write") /\ session[s].kind = "remove" /\ UNCHANGED held
      /\ member' = [member EXCEPT ![Target(s)].status = "removed"]
  BY DEF MarkRemoved
<1>3. session'[s].pc = "list" /\ session'[s].kind = "remove" /\ session'[s].target = session[s].target
  BY <1>1 DEF MarkRemoved, Finish, TypeOK, Session
<1>4. \A u \in Users \ {Target(s)} : member'[u] = member[u]
  BY <1>1, <1>2 DEF TypeOK
<1>5. \A u \in Users : u = Target(s) => \A r : Covers(s, u, r)'
  BY <1>3 DEF Covers, At, Target
<1>6. \A u \in Users : \A r : ~Covers(s, u, r)
  BY <1>2 DEF Covers, At
<1>7. \A u \in Users : \A r \in held'[u] : member'[u].status = "removed" =>
        \/ Covers(s, u, r)'
        \/ member[u].status = "removed" /\ r \in held[u] /\ ~Covers(s, u, r)
  <2> TAKE u \in Users
  <2> TAKE r \in held'[u]
  <2>1. CASE u = Target(s)
    BY <1>5, <2>1
  <2>2. CASE u # Target(s)
    BY <1>2, <1>4, <1>6, <2>2
  <2> QED
    BY <2>1, <2>2
<1> QED
  BY <1>7, NoStray

\* The steps that cannot leave a stray.
LEMMA StepLeavesNoStray ==
  ASSUME TypeOK, NEW s \in Sessions, SessionStep(s), RemovedHoldNothing,
         ~CreateOrReset(s), ~CutShort(s)
  PROVE  RemovedHoldNothing'
<1>1. LeavesOthers(s)
  BY StepLeaves
<1>2. CASE ListAssigned(s) \/ RevokeNext(s)
  BY <1>1, <1>2, CascadeGoesOn
<1>3. CASE MarkRemoved(s)
  BY <1>1, <1>3, RemovalIsCovered
<1>4. CASE ChangeRole(s)
  <2>1. Target(s) \in Users
    BY <1>4, BusyTypes DEF ChangeRole, At
  <2>2. \A u \in Users : member[u] \in Member
    BY DEF TypeOK
  <2>3. \A u \in Users : member'[u].status = member[u].status
    BY <1>4, <2>1, <2>2 DEF ChangeRole, TypeOK, Member
  <2> QED
    BY <1>1, <1>4, <2>3, NoStrayByRest DEF ChangeRole, At
<1>5. CASE TransferLead(s)
  <2>1. \A u \in Users : member[u] \in Member
    BY DEF TypeOK
  <2>2. \A u \in Users : member'[u].status = member[u].status
    BY <1>5, <2>1 DEF TransferLead, Member
  <2> QED
    BY <1>1, <1>5, <2>2, NoStrayByRest DEF TransferLead, At
<1>6. CASE AddMemberDirect(s)
  <2>1. \A u \in Users : member'[u].status = "removed" => member[u].status = "removed"
    BY <1>6 DEF AddMemberDirect, TypeOK
  <2> QED
    BY <1>1, <1>6, <2>1, NoStrayByRest DEF AddMemberDirect, At
<1>7. CASE UNCHANGED <<member, held>> /\ session[s].pc \notin {"list", "revoke"}
  BY <1>1, <1>7, NoStrayByRest DEF At
<1>8. CASE ClaimRow(s)
  <2>1. PICK u \in session[s].pending :
          /\ session' = [session EXCEPT ![s].pending = @ \ {u},
                                        ![s].hits = IF Matches(s, u) THEN @ \cup {u} ELSE @]
          /\ UNCHANGED <<member, owner, held>>
    BY <1>8 DEF ClaimRow
  <2>2. session[s] \in Session
    BY <2>1 DEF TypeOK, Resting
  <2>3. /\ session'[s].pc = session[s].pc /\ session'[s].kind = session[s].kind
        /\ session'[s].target = session[s].target /\ session'[s].todo = session[s].todo
    BY <2>1, <2>2 DEF TypeOK, Session
  <2>4. \A v, r : Covers(s, v, r) => Covers(s, v, r)'
    BY <2>3 DEF Covers, At, Target
  <2> QED
    BY <1>1, <2>1, <2>4, NoStray
<1>9. GuardedStep(s) =>
        \/ ListAssigned(s) \/ RevokeNext(s) \/ MarkRemoved(s) \/ ChangeRole(s)
        \/ UNCHANGED <<member, held>> /\ session[s].pc \notin {"list", "revoke"}
  BY DEF GuardedStep, BeginGuarded, Request, At, OwnersLocked, ReadTarget, CountOwners
<1>10. TransferStep(s) =>
         TransferLead(s) \/ (UNCHANGED <<member, held>> /\ session[s].pc \notin {"list", "revoke"})
  BY DEF TransferStep, BeginTransfer, Request, At, MembersLocked, CheckNewLead
<1>11. AddStep(s) \/ AssignStep(s) \/ Abort(s) =>
         AddMemberDirect(s) \/ (UNCHANGED <<member, held>> /\ session[s].pc \notin {"list", "revoke"})
  BY DEF AddStep, AssignStep, BeginAdd, BeginAssign, Request, At, Abort, InTransaction
<1> QED
  BY <1>2, <1>3, <1>4, <1>5, <1>6, <1>7, <1>8, <1>9, <1>10, <1>11 DEF SessionStep

\* Whatever requests run at once, a removed member is left with an assignment only
\* by an assignment whose check came before the removal, or by a cascade that
\* failed with something still to revoke.  (removeMember's cascade after its
\* COMMIT; createAssignment has no lock.)
THEOREM StraysAreLateOrFailed == Spec => StrayOnlyByLateAssign
<1> DEFINE Rule ==
      RemovedHoldNothing /\ ~RemovedHoldNothing'
        => \E s \in Sessions :
             /\ At(s, "idle")'
             /\ \/ At(s, "assign") \/ At(s, "list")
                \/ At(s, "revoke") /\ session[s].todo # {}
<1>1. ASSUME TypeOK, [Next]_vars PROVE [Rule]_vars
  <2> SUFFICES ASSUME Next, RemovedHoldNothing, ~RemovedHoldNothing' PROVE Rule
    BY <1>1
  <2>1. PICK s \in Sessions : SessionStep(s)
    BY DEF Next, SessionStep
  <2>2. CreateOrReset(s) \/ CutShort(s)
    BY <1>1, <2>1, StepLeavesNoStray
  <2>3. At(s, "idle")'
    BY <1>1, <2>2 DEF CreateOrReset, CutShort, Rest, Resting, At, TypeOK
  <2>4. CASE CreateOrReset(s)
    BY <2>3, <2>4 DEF CreateOrReset
  <2>5. CASE CutShort(s)
    <3>1. At(s, "list") \/ session[s].todo # {}
      <4> SUFFICES ASSUME ~At(s, "list"), session[s].todo = {} PROVE FALSE
        OBVIOUS
      <4> QED
        BY <1>1, <2>1, <2>5, StepLeaves, NoStrayByRest DEF CutShort
    <3> QED
      BY <2>3, <2>5, <3>1 DEF CutShort, At
  <2> QED
    BY <2>2, <2>4, <2>5
<1> QED
  BY <1>1, GroupTypesHold, PTL DEF Spec, StrayOnlyByLateAssign

-----------------------------------------------------------------------------
(* What takes the last owner.  A role change or a removal that took owners'  *)
(* rows when it looked for them holds them until it ends, so that they stay  *)
(* owners'.  It goes on to write only if its count found another owner; when *)
(* it takes the last one nevertheless, it held none of those it had counted. *)

Guarding == {"lock", "target", "count", "write"}

\* What a guarded request knows of the owners.
Counted(s) ==
  /\ session[s].kind = "promote" => session[s].role = "admin"
  /\ session[s].pc \in Guarding => \A u \in session[s].hits : lock[u] = s /\ u \in Owners
  /\ session[s].pc \in Guarding \ {"lock"} => session[s].pending = {}
  /\ At(s, "write") /\ session[s].kind # "promote" /\ Target(s) \in Owners =>
       session[s].counted \ {Target(s)} # {}

AllCounted == \A s \in Sessions : Counted(s)

LEMMA OthersStayCounted ==
  ASSUME HInv, NEW s \in Sessions, SessionStep(s), NEW t \in Sessions \ {s}, Counted(t)
  PROVE  Counted(t)'
<1>1. /\ session'[t] = session[t]
      /\ \A u \in Users : lock'[u] = t <=> lock[u] = t
  BY StepLeaves DEF HInv, LeavesOthers
<1>2. \A u \in Users : lock[u] = t => (u \in Owners' <=> u \in Owners)
  <2>1. \A u \in Users : lock[u] = t => member'[u] = member[u]
    BY HeldRowsRest, GroupAssumption DEF GroupAssumption
  <2> QED
    BY <2>1 DEF Owners, Active
<1>3. session[t].pc \in Guarding => session[t].hits \subseteq Users /\ Target(t) \in Users
  <2> SUFFICES ASSUME session[t].pc \in Guarding
               PROVE  session[t].hits \subseteq Users /\ Target(t) \in Users
    OBVIOUS
  <2>1. session[t] \in Session /\ Target(t) \in Users
    BY BusyTypes DEF HInv, At, Guarding
  <2> QED
    BY <2>1 DEF Session
<1>4. At(t, "write") => lock[Target(t)] = t
  BY DEF HInv, AllHold, Holds, At
<1>5. session[t].pc \in Guarding => \A u \in session[t].hits : lock'[u] = t /\ u \in Owners'
  BY <1>1, <1>2, <1>3 DEF Counted
<1>6. At(t, "write") => (Target(t) \in Owners' <=> Target(t) \in Owners)
  BY <1>2, <1>3, <1>4 DEF Guarding, At
<1> QED
  BY <1>1, <1>5, <1>6 DEF Counted, At, Target

\* Where a step leads that is no part of a guarded request.
LEMMA NothingToCount ==
  ASSUME NEW s \in Sessions, session'[s].pc \notin Guarding, session'[s].kind # "promote"
  PROVE  Counted(s)'
  BY DEF Counted, At, Guarding

LEMMA RestIsCounted ==
  ASSUME TypeOK, NEW s \in Sessions, session' = [session EXCEPT ![s] = Resting]
  PROVE  Counted(s)'
<1>1. session'[s] = Resting
  BY DEF TypeOK
<1> QED
  BY <1>1, NothingToCount DEF Resting, Guarding

LEMMA RequestIsCounted ==
  ASSUME TypeOK, NEW s \in Sessions, NEW kind, NEW target, NEW role, NEW pc, NEW pending,
         Request(s, kind, target, role, pc, pending),
         kind = "promote" => role = "admin", pc \in {"lock", "lockall", "upsert"}
  PROVE  Counted(s)'
<1>1. /\ session'[s].kind = kind /\ session'[s].role = role /\ session'[s].pc = pc
      /\ session'[s].hits = {}
  BY DEF Request, TypeOK
<1> QED
  BY <1>1 DEF Counted, At, Guarding

LEMMA ClaimIsCounted ==
  ASSUME HInv, NEW s \in Sessions, ClaimRow(s), Counted(s)
  PROVE  Counted(s)'
<1>1. PICK u \in session[s].pending :
        /\ lock' = IF Matches(s, u) THEN [lock EXCEPT ![u] = s] ELSE lock
        /\ session' = [session EXCEPT ![s].pending = @ \ {u},
                                      ![s].hits = IF Matches(s, u) THEN @ \cup {u} ELSE @]
        /\ UNCHANGED <<member, owner, held>>
  BY DEF ClaimRow
<1>2. session[s] \in Session
  BY <1>1 DEF HInv, TypeOK, Resting
<1>3. /\ session'[s].pc = session[s].pc /\ session'[s].kind = session[s].kind
      /\ session'[s].role = session[s].role
      /\ session'[s].hits = IF Matches(s, u) THEN session[s].hits \cup {u} ELSE session[s].hits
  BY <1>1, <1>2 DEF HInv, TypeOK, Session
<1>4. session[s].pc \notin Guarding \ {"lock"}
  BY <1>1 DEF Counted
<1>5. ASSUME session[s].pc \in Guarding, NEW v \in session'[s].hits
      PROVE  lock'[v] = s /\ v \in Owners'
  <2>1. At(s, "lock")
    BY <1>4, <1>5 DEF At
  <2>2. Matches(s, u) => u \in Owners
    BY <2>1 DEF Matches, At
  <2>3. /\ \A w \in Users : lock[w] = s => lock'[w] = s
        /\ Matches(s, u) => lock'[u] = s
    BY <1>1, <1>2 DEF HInv, TypeOK, Session
  <2>4. Owners' = Owners
    BY <1>1, SameOwners
  <2> QED
    BY <1>3, <1>5, <2>2, <2>3, <2>4, OwnersTypes DEF Counted
<1> QED
  BY <1>3, <1>4, <1>5 DEF Counted, At, Guarding

LEMMA GuardedIsCounted ==
  ASSUME HInv, NEW s \in Sessions, Counted(s),
         OwnersLocked(s) \/ ReadTarget(s) \/ CountOwners(s)
  PROVE  Counted(s)'
<1>1. session[s] \in Session /\ Target(s) \in Users /\ TypeOK
  BY BusyTypes DEF HInv, OwnersLocked, ReadTarget, CountOwners, At
<1>2. Owners' = Owners
  BY SameOwners DEF OwnersLocked, ReadTarget, CountOwners
<1>3. CASE OwnersLocked(s)
  <2>1. session'[s] = [session[s] EXCEPT !.pc = "target"] /\ UNCHANGED lock
    BY <1>1, <1>3 DEF OwnersLocked, Goto, TypeOK
  <2> QED
    BY <1>1, <1>2, <1>3, <2>1 DEF OwnersLocked, Counted, At, Guarding, Session
<1>4. CASE ReadTarget(s)
  <2>1. /\ session'[s].pc = IF member[Target(s)].role = "admin" /\ session[s].kind # "promote"
                            THEN "count" ELSE "write"
        /\ session'[s].hits = session[s].hits /\ session'[s].pending = session[s].pending
        /\ session'[s].kind = session[s].kind /\ session'[s].role = session[s].role
        /\ Target(s)' = Target(s)
    BY <1>1, <1>4 DEF ReadTarget, Goto, TypeOK, Session, Target
  <2>2. session[s].hits \subseteq Users /\ \A u \in Users : lock[u] = s => lock'[u] = s
    BY <1>1, <1>4 DEF ReadTarget, TypeOK, Session
  <2>3. member[Target(s)].role # "admin" => Target(s) \notin Owners
    BY DEF Owners
  <2> QED
    BY <1>2, <1>4, <2>1, <2>2, <2>3 DEF ReadTarget, Counted, At, Guarding
<1>5. CASE CountOwners(s)
  <2>1. CASE Finish(s, "idle")
    BY <1>1, <2>1, RestIsCounted DEF Finish
  <2>2. CASE /\ ~(Cardinality(Owners) <= 1) /\ UNCHANGED lock
             /\ session' = [session EXCEPT ![s].pc = "write", ![s].counted = Owners]
    <3>1. /\ session'[s].pc = "write" /\ session'[s].counted = Owners
          /\ session'[s].hits = session[s].hits /\ session'[s].pending = session[s].pending
          /\ session'[s].kind = session[s].kind /\ session'[s].role = session[s].role
          /\ Target(s)' = Target(s)
      BY <1>1, <2>2 DEF TypeOK, Session, Target
    <3>2. IsFiniteSet(Owners)
      BY GroupAssumption, OwnersTypes, FS_Subset DEF GroupAssumption
    <3>3. Cardinality(Owners) > 1
      BY <2>2, <3>2, FS_CardinalityType
    <3>4. Owners \ {Target(s)} # {}
      BY <3>3, AnotherOwner, GroupAssumption
    <3> QED
      BY <1>2, <1>5, <2>2, <3>1, <3>4 DEF CountOwners, Counted, At, Guarding
  <2> QED
    BY <1>5, <2>1, <2>2 DEF CountOwners
<1> QED
  BY <1>3, <1>4, <1>5

LEMMA StepIsCounted ==
  ASSUME HInv, NEW s \in Sessions, SessionStep(s), Counted(s)
  PROVE  Counted(s)'
<1>0. TypeOK
  BY DEF HInv
<1>1. ASSUME NEW u \in Users, BeginGuarded(s, u) \/ BeginTransfer(s, u) \/ BeginAdd(s, u)
      PROVE  Counted(s)'
  BY <1>0, <1>1, RequestIsCounted DEF BeginGuarded, BeginTransfer, BeginAdd
<1>2. ASSUME NEW u \in Users, NEW r \in Repos, BeginAssign(s, u, r) PROVE Counted(s)'
  <2>1. session'[s].pc = "assign" /\ session'[s].kind = "assign"
    BY <1>0, <1>2 DEF BeginAssign, Resting, TypeOK
  <2> QED
    BY <2>1, NothingToCount DEF Guarding
<1>3. ASSUME session[s] \in Session, session'[s].kind = session[s].kind,
             session'[s].role = session[s].role, session'[s].pc \notin Guarding
      PROVE  Counted(s)'
  BY <1>3 DEF Counted, At, Guarding
<1>4. CASE MembersLocked(s) \/ ListAssigned(s)
  <2>1. session[s] \in Session
    BY <1>0, <1>4, BusyTypes DEF MembersLocked, ListAssigned, At
  <2>2. /\ session'[s].pc \in {"check", "revoke"} /\ session'[s].kind = session[s].kind
        /\ session'[s].role = session[s].role
    BY <1>0, <1>4, <2>1 DEF MembersLocked, ListAssigned, Goto, TypeOK, Session
  <2> QED
    BY <1>3, <2>1, <2>2 DEF Guarding
<1>5. CASE CheckNewLead(s)
  <2>1. CASE Finish(s, "idle")
    BY <1>0, <2>1, RestIsCounted DEF Finish
  <2>2. CASE session' = [session EXCEPT ![s].pc = "update", ![s].hits = {},
                                        ![s].pending = Owners \cup {Target(s)}]
    <3>1. session[s] \in Session
      BY <1>0, <1>5, BusyTypes DEF CheckNewLead, At
    <3>2. /\ session'[s].pc = "update" /\ session'[s].kind = session[s].kind
          /\ session'[s].role = session[s].role
      BY <1>0, <2>2, <3>1 DEF TypeOK, Session
    <3> QED
      BY <1>3, <3>1, <3>2 DEF Guarding
  <2> QED
    BY <1>5, <2>1, <2>2 DEF CheckNewLead
<1>6. CASE RevokeNext(s)
  <2>1. session[s] \in Session
    BY <1>0, <1>6, BusyTypes DEF RevokeNext, At
  <2>2. ASSUME NEW r \in session[s].todo, session' = [session EXCEPT ![s].todo = @ \ {r}]
        PROVE  Counted(s)'
    <3>1. /\ session'[s].pc = "revoke" /\ session'[s].kind = session[s].kind
          /\ session'[s].role = session[s].role
      BY <1>0, <1>6, <2>1, <2>2 DEF RevokeNext, At, TypeOK, Session
    <3> QED
      BY <1>3, <2>1, <3>1 DEF Guarding
  <2> QED
    BY <1>0, <1>6, <2>2, RestIsCounted DEF RevokeNext, Rest
<1>7. CASE ChangeRole(s) \/ TransferLead(s) \/ Abort(s)
  BY <1>0, <1>7, RestIsCounted DEF ChangeRole, TransferLead, Abort, Finish
<1>8. CASE MarkRemoved(s)
  <2>1. session[s] \in Session
    BY <1>0, <1>8, BusyTypes DEF MarkRemoved, At
  <2>2. session'[s].pc = "list" /\ session'[s].kind = "remove"
    BY <1>0, <1>8, <2>1 DEF MarkRemoved, Finish, TypeOK, Session
  <2> QED
    BY <2>2, NothingToCount DEF Guarding
<1>9. CASE AddMemberDirect(s) \/ CreateOrReset(s) \/ CutShort(s)
  BY <1>0, <1>9, RestIsCounted DEF AddMemberDirect, CreateOrReset, CutShort, Rest
<1> QED
  BY <1>1, <1>2, <1>4, <1>5, <1>6, <1>7, <1>8, <1>9, GuardedIsCounted, ClaimIsCounted
  DEF SessionStep, GuardedStep, TransferStep, AddStep, AssignStep

LEMMA AllCountedHolds == Spec => []AllCounted
<1>1. Init => AllCounted
  BY DEF Init, AllCounted, Counted, Resting, At, Guarding
<1>2. HInv /\ AllCounted /\ [Next]_vars => AllCounted'
  <2> SUFFICES ASSUME HInv, AllCounted, [Next]_vars PROVE AllCounted'
    OBVIOUS
  <2>1. ASSUME NEW s \in Sessions, SessionStep(s) PROVE AllCounted'
    BY <2>1, StepIsCounted, OthersStayCounted DEF AllCounted
  <2>2. CASE UNCHANGED vars
    BY <2>2, SameOwners DEF vars, AllCounted, Counted, At, Target
  <2> QED
    BY <2>1, <2>2 DEF Next, SessionStep
<1> QED
  BY <1>1, <1>2, HInvHolds, PTL DEF Spec

LEMMA HeldTargetLeads ==
  ASSUME HInv, NEW s \in Sessions, TransferLead(s), lock[Target(s)] = s
  PROVE  Target(s) \in Owners'
<1>1. At(s, "update") /\ Holds(s) /\ TypeOK /\ session[s].pending = {}
  BY DEF TransferLead, HInv, AllHold
<1>2. Target(s) \in Users /\ member[Target(s)] \in Member
  BY <1>1, BusyTypes DEF TypeOK, At
<1>3. Active(Target(s)) /\ Target(s) \in session[s].hits
  BY <1>1, <1>2 DEF Holds
<1>4. member'[Target(s)] = [member[Target(s)] EXCEPT !.role = "admin"]
  BY <1>2, <1>3 DEF TransferLead
<1> QED
  BY <1>2, <1>3, <1>4 DEF Owners, Active, Member

\* What a guarded write that takes the last owner had counted, and not held.
LEMMA WriteTakesTheLast ==
  ASSUME HInv, NEW s \in Sessions, Counted(s), ChangeRole(s) \/ MarkRemoved(s),
         Owners # {}, Owners' = {}
  PROVE  /\ At(s, "write") /\ session'[s].pc \in {"idle", "list"}
         /\ session[s].counted \ {Target(s)} # {}
         /\ session[s].counted \cap session[s].hits \subseteq {Target(s)}
<1>1. At(s, "write") /\ Target(s) \in Users /\ session[s] \in Session /\ TypeOK
  BY BusyTypes DEF ChangeRole, MarkRemoved, HInv, At
<1>2. session'[s].pc \in {"idle", "list"}
  <2>1. PICK pc \in {"idle", "list"} : Finish(s, pc)
    BY DEF ChangeRole, MarkRemoved
  <2> QED
    BY <1>1, <2>1 DEF Finish, Resting, TypeOK, Session
<1>3. \A u \in Users \ {Target(s)} : member'[u] = member[u]
  BY <1>1 DEF ChangeRole, MarkRemoved, TypeOK
<1>4. Owners = {Target(s)}
  BY <1>3 DEF Owners, Active
<1>5. session[s].kind # "promote"
  <2> SUFFICES ASSUME session[s].kind = "promote" PROVE FALSE
    OBVIOUS
  <2>1. member' = [member EXCEPT ![Target(s)].role = "admin"]
    BY DEF ChangeRole, MarkRemoved, Counted
  <2>2. member[Target(s)] \in Member
    BY <1>1 DEF TypeOK
  <2>3. Target(s) \in Owners'
    BY <1>1, <1>4, <2>1, <2>2 DEF Owners, Active, TypeOK, Member
  <2> QED
    BY <2>3
<1>6. session[s].counted \ {Target(s)} # {} /\ session[s].hits \subseteq {Target(s)}
  BY <1>1, <1>4, <1>5 DEF Counted, At, Guarding
<1> QED
  BY <1>1, <1>2, <1>6

\* However many requests of whatever kinds run at once, the last owner goes only by
\* an addition, by a transfer that holds no lock on its new lead, or by a role change
\* or removal that had counted other owners and held none of them.
\* (changeMemberRoleGuarded, removeMemberGuarded, transferLeadGuarded, addMemberDirect.)
THEOREM LastOwnerGoesUnlocked == Spec => OwnerLostOnlyUnlocked
<1> DEFINE Rule ==
      Owners # {} /\ Owners' = {} =>
        \E s \in Sessions :
          \/ At(s, "upsert") /\ At(s, "idle")'
          \/ At(s, "update") /\ At(s, "idle")' /\ lock[Target(s)] # s
          \/ /\ At(s, "write") /\ session'[s].pc \in {"idle", "list"}
             /\ session[s].counted \ {Target(s)} # {}
             /\ session[s].counted \cap session[s].hits \subseteq {Target(s)}
<1>1. ASSUME HInv, AllCounted, [Next]_vars PROVE [Rule]_vars
  <2> SUFFICES ASSUME Next, Owners # {}, Owners' = {} PROVE Rule
    BY <1>1
  <2>1. PICK s \in Sessions : SessionStep(s)
    BY DEF Next, SessionStep
  <2>2. CASE ChangeRole(s) \/ MarkRemoved(s)
    BY <1>1, <2>2, WriteTakesTheLast DEF AllCounted
  <2>3. CASE TransferLead(s)
    <3>1. lock[Target(s)] # s
      BY <1>1, <2>3, HeldTargetLeads
    <3>2. At(s, "idle")'
      BY <1>1, <2>3 DEF TransferLead, Finish, Resting, At, HInv, TypeOK
    <3> QED
      BY <2>3, <3>1, <3>2 DEF TransferLead
  <2>4. CASE AddMemberDirect(s)
    <3>1. At(s, "idle")'
      BY <1>1, <2>4 DEF AddMemberDirect, Rest, Resting, At, HInv, TypeOK
    <3> QED
      BY <2>4, <3>1 DEF AddMemberDirect
  <2> QED
    BY <2>1, <2>2, <2>3, <2>4, Writers, SameOwners
<1> QED
  BY <1>1, HInvHolds, AllCountedHolds, PTL DEF Spec, OwnerLostOnlyUnlocked
====
