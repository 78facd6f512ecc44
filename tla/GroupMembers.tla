---- MODULE GroupMembers ----
(***************************************************************************)
(* The members of one group: rows of orgs.workspace_members under          *)
(* concurrent requests.  Role changes, removals and transfers of the lead  *)
(* are transactions at PostgreSQL's default isolation, READ COMMITTED; an  *)
(* addition, and the assignment of a member to one of the group's          *)
(* repositories, are a check and an upsert with nothing in between to hold *)
(* them together.                                                          *)
(*                                                                         *)
(* A statement sees what was committed when it started.  SELECT ... FOR    *)
(* UPDATE and UPDATE lock the rows they found one by one, wait for a row   *)
(* another transaction holds, and test their condition again on the row    *)
(* the wait ended with; a row that began to match meanwhile is not looked  *)
(* at.  A transaction's writes become visible with its COMMIT, so UPDATE   *)
(* and COMMIT are one step.                                                *)
(***************************************************************************)
EXTENDS Integers, FiniteSets

CONSTANTS
  Users,      \* those who may be in the group
  Developers, \* those whose app_role is member: only they can be assigned
  Repos,      \* repositories of the group
  Sessions,   \* concurrent requests
  NoOne,      \* the holder of a row nobody has locked
  Requests,   \* [Sessions -> SUBSET RequestKinds]: the kinds of request each makes
  Faults,     \* where a statement can fail: in a transaction, in a removal's cascade
  Start       \* the member tables a behaviour may start from

RequestKinds == {"promote", "demote", "remove", "transfer", "add", "assign"}

ASSUME GroupAssumption ==
  /\ IsFiniteSet(Users) /\ Developers \subseteq Users
  /\ NoOne \notin Sessions
  /\ Requests \in [Sessions -> SUBSET RequestKinds] /\ Faults \subseteq {"transaction", "cascade"}

\* Whoever is no owner is like a delegated_lead to everything below, and the invited
\* rows of an earlier scheme are like none.
Roles == {"admin", "delegated_lead"}
Member == [role : Roles, status : {"none", "active", "removed"}]

ASSUME StartAssumption == Start \subseteq [Users -> Member]

VARIABLES
  member,  \* [Users -> [role, status]]: workspace_members, as committed
  owner,   \* workspaces.owner_user_id
  held,    \* [Users -> SUBSET Repos]: assignments in the group whose desired_state is assigned
  lock,    \* [Users -> Sessions \cup {NoOne}]: who holds the row's lock
  session  \* [Sessions -> Session \cup {Resting}]: a request between two statements

vars == <<member, owner, held, lock, session>>

\* pending: rows the running statement found and has not got to; hits: rows it
\* locked; counted: the owners its count saw; todo: the repository to assign, or those
\* whose assignments the cascade of a removal has still to revoke.
Pcs == {"lock", "target", "count", "write", "list", "revoke",
        "lockall", "check", "update", "upsert", "assign"}
Session == [pc : Pcs, kind : RequestKinds, target : Users, role : Roles,
            pending : SUBSET Users, hits : SUBSET Users, counted : SUBSET Users,
            todo : SUBSET Repos]
Resting == [pc |-> "idle", kind |-> "add", target |-> NoOne, role |-> "delegated_lead",
            pending |-> {}, hits |-> {}, counted |-> {}, todo |-> {}]

Active(u) == member[u].status = "active"
Owners == {u \in Users : Active(u) /\ member[u].role = "admin"}

TypeOK ==
  /\ member \in [Users -> Member]
  /\ owner \in Users
  /\ held \in [Users -> SUBSET Repos]
  /\ lock \in [Users -> Sessions \cup {NoOne}]
  /\ session \in [Sessions -> Session \cup {Resting}]

\* A group that createGroup and the operations below can have led to.
Init ==
  /\ member \in Start
  /\ owner \in Owners
  /\ held \in [Users -> SUBSET Repos] /\ \A u \in Users : held[u] # {} => Active(u) /\ u \in Developers
  /\ lock = [u \in Users |-> NoOne]
  /\ session = [s \in Sessions |-> Resting]

-----------------------------------------------------------------------------
(* Statements and row locks.                                               *)

At(s, pc) == session[s].pc = pc
Goto(s, pc) == session' = [session EXCEPT ![s].pc = pc]
Rest(s) == session' = [session EXCEPT ![s] = Resting]
Target(s) == session[s].target

\* Why a statement's lock on a row is worth having, tested when it is obtained.
Matches(s, u) ==
  CASE At(s, "lock") -> u \in Owners
    [] At(s, "lockall") -> Active(u)
    [] OTHER -> Active(u) /\ (member[u].role = "admin" \/ u = Target(s))

Released(s) == [u \in Users |-> IF lock[u] = s THEN NoOne ELSE lock[u]]

\* Both COMMIT and ROLLBACK let go of every row.
Finish(s, pc) ==
  /\ lock' = Released(s)
  /\ session' = [session EXCEPT ![s] =
       IF pc = "idle" THEN Resting
       ELSE [@ EXCEPT !.pc = pc, !.pending = {}, !.hits = {}, !.counted = {}]]

ClaimRow(s) ==
  \E u \in session[s].pending :
    /\ lock[u] \in {NoOne, s}
    /\ lock' = IF Matches(s, u) THEN [lock EXCEPT ![u] = s] ELSE lock
    /\ session' = [session EXCEPT ![s].pending = @ \ {u},
                                  ![s].hits = IF Matches(s, u) THEN @ \cup {u} ELSE @]
    /\ UNCHANGED <<member, owner, held>>

Request(s, kind, target, role, pc, pending) ==
  /\ At(s, "idle") /\ kind \in Requests[s]
  /\ session' = [session EXCEPT ![s] =
       [pc |-> pc, kind |-> kind, target |-> target, role |-> role,
        pending |-> pending, hits |-> {}, counted |-> {}, todo |-> {}]]
  /\ UNCHANGED <<member, owner, held, lock>>

-----------------------------------------------------------------------------
(* changeMemberRoleGuarded and removeMemberGuarded.                        *)

\* findMemberById has found the row, in whatever status; then BEGIN and the
\* SELECT of the active owners FOR UPDATE.
BeginGuarded(s, target) ==
  /\ member[target].status # "none"
  /\ \/ Request(s, "promote", target, "admin", "lock", Owners)
     \/ \E role \in Roles \ {"admin"} : Request(s, "demote", target, role, "lock", Owners)
     \/ Request(s, "remove", target, member[target].role, "lock", Owners)

OwnersLocked(s) ==
  /\ At(s, "lock") /\ session[s].pending = {}
  /\ Goto(s, "target")
  /\ UNCHANGED <<member, owner, held, lock>>

\* Mutant of ReadTarget: only role changes are counted.
ReadTargetUncounted(s) ==
  /\ At(s, "target") /\ lock[Target(s)] \in {NoOne, s}
  /\ lock' = [lock EXCEPT ![Target(s)] = s]
  /\ Goto(s, IF member[Target(s)].role = "admin" /\ session[s].kind = "demote"
             THEN "count" ELSE "write")
  /\ UNCHANGED <<member, owner, held>>

\* SELECT of the target FOR UPDATE.  A change away from admin needs the count,
\* whatever the row's status.
ReadTarget(s) ==
  /\ At(s, "target") /\ lock[Target(s)] \in {NoOne, s}
  /\ lock' = [lock EXCEPT ![Target(s)] = s]
  /\ Goto(s, IF member[Target(s)].role = "admin" /\ session[s].kind # "promote"
             THEN "count" ELSE "write")
  /\ UNCHANGED <<member, owner, held>>

\* The last owner is refused with a ROLLBACK.  The count is of all the owners there
\* are, those among them that the request has not locked included.
CountOwners(s) ==
  /\ At(s, "count")
  /\ IF Cardinality(Owners) <= 1
     THEN Finish(s, "idle")
     ELSE /\ session' = [session EXCEPT ![s].pc = "write", ![s].counted = Owners]
          /\ UNCHANGED lock
  /\ UNCHANGED <<member, owner, held>>

\* UPDATE and COMMIT.  A removal goes on to its cascade.
ChangeRole(s) ==
  /\ At(s, "write") /\ session[s].kind \in {"promote", "demote"}
  /\ member' = [member EXCEPT ![Target(s)].role = session[s].role]
  /\ Finish(s, "idle")
  /\ UNCHANGED <<owner, held>>

\* Mutants of MarkRemoved: a status the column does not know; no cascade.
MarkInactive(s) ==
  /\ At(s, "write") /\ session[s].kind = "remove"
  /\ member' = [member EXCEPT ![Target(s)].status = "inactive"]
  /\ Finish(s, "list")
  /\ UNCHANGED <<owner, held>>

MarkRemovedOnly(s) ==
  /\ At(s, "write") /\ session[s].kind = "remove"
  /\ member' = [member EXCEPT ![Target(s)].status = "removed"]
  /\ Finish(s, "idle")
  /\ UNCHANGED <<owner, held>>

MarkRemoved(s) ==
  /\ At(s, "write") /\ session[s].kind = "remove"
  /\ member' = [member EXCEPT ![Target(s)].status = "removed"]
  /\ Finish(s, "list")
  /\ UNCHANGED <<owner, held>>

\* removeMember's listAssignedByUserWithinGroup, then a requestRevoke for each.
ListAssigned(s) ==
  /\ At(s, "list")
  /\ session' = [session EXCEPT ![s].todo = held[Target(s)], ![s].pc = "revoke"]
  /\ UNCHANGED <<member, owner, held, lock>>

RevokeNext(s) ==
  /\ At(s, "revoke")
  /\ \/ \E r \in session[s].todo :
          /\ held' = [held EXCEPT ![Target(s)] = @ \ {r}]
          /\ session' = [session EXCEPT ![s].todo = @ \ {r}]
     \/ session[s].todo = {} /\ Rest(s) /\ UNCHANGED held
  /\ UNCHANGED <<member, owner, lock>>

-----------------------------------------------------------------------------
(* transferLeadGuarded.                                                    *)

\* transferManager has found the new lead active; then BEGIN and the SELECT of
\* every active member FOR UPDATE.
BeginTransfer(s, target) ==
  /\ Active(target)
  /\ Request(s, "transfer", target, "admin", "lockall", {u \in Users : Active(u)})

MembersLocked(s) ==
  /\ At(s, "lockall") /\ session[s].pending = {}
  /\ Goto(s, "check")
  /\ UNCHANGED <<member, owner, held, lock>>

\* Mutant of CheckNewLead: of the leads, only owner_user_id's is demoted.
CheckNewLeadOfOne(s) ==
  /\ At(s, "check")
  /\ \/ ~Active(Target(s)) /\ Finish(s, "idle")
     \/ /\ Active(Target(s))
        /\ session' = [session EXCEPT ![s].pc = "update", ![s].hits = {},
                                      ![s].pending = {owner, Target(s)}]
        /\ UNCHANGED lock
  /\ UNCHANGED <<member, owner, held>>

\* The new lead is gone after all: ROLLBACK.  Otherwise the UPDATE finds its rows.
CheckNewLead(s) ==
  /\ At(s, "check")
  /\ \/ ~Active(Target(s)) /\ Finish(s, "idle")
     \/ /\ Active(Target(s))
        /\ session' = [session EXCEPT ![s].pc = "update", ![s].hits = {},
                                      ![s].pending = Owners \cup {Target(s)}]
        /\ UNCHANGED lock
  /\ UNCHANGED <<member, owner, held>>

TransferLead(s) ==
  /\ At(s, "update") /\ session[s].pending = {}
  /\ member' = [u \in Users |->
       IF u \in session[s].hits
       THEN [member[u] EXCEPT !.role = IF u = Target(s) THEN "admin" ELSE "delegated_lead"]
       ELSE member[u]]
  /\ owner' = Target(s)
  /\ Finish(s, "idle")
  /\ UNCHANGED held

-----------------------------------------------------------------------------
(* addMember.                                                              *)

\* findActiveMembership found nothing.
BeginAdd(s, target) ==
  /\ ~Active(target)
  /\ \E role \in Roles \ {"admin"} : Request(s, "add", target, role, "upsert", {})

\* addMemberDirect: the upsert waits for the row's lock and then overwrites it.
AddMemberDirect(s) ==
  /\ At(s, "upsert") /\ lock[Target(s)] = NoOne
  /\ member' = [member EXCEPT ![Target(s)] = [role |-> session[s].role, status |-> "active"]]
  /\ Rest(s)
  /\ UNCHANGED <<owner, held, lock>>

-----------------------------------------------------------------------------
(* createAssignment.                                                       *)

\* findActiveMembership found the developer.
BeginAssign(s, target, repo) ==
  /\ Active(target) /\ target \in Developers
  /\ At(s, "idle") /\ "assign" \in Requests[s]
  /\ session' = [session EXCEPT ![s] = [Resting EXCEPT !.pc = "assign", !.kind = "assign",
                                                      !.target = target, !.todo = {repo}]]
  /\ UNCHANGED <<member, owner, held, lock>>

\* createOrReset: desired_state is assigned, whatever became of the membership.
CreateOrReset(s) ==
  /\ At(s, "assign")
  /\ held' = [held EXCEPT ![Target(s)] = @ \cup session[s].todo]
  /\ Rest(s)
  /\ UNCHANGED <<member, owner, lock>>

-----------------------------------------------------------------------------
\* An error in a transaction, its deadlock included, ends in ROLLBACK.
InTransaction == {"lock", "target", "count", "write", "lockall", "check", "update"}

Abort(s) ==
  /\ "transaction" \in Faults
  /\ session[s].pc \in InTransaction
  /\ Finish(s, "idle")
  /\ UNCHANGED <<member, owner, held>>

\* A revoke request that fails ends the removal's cascade; the removal stays.
CutShort(s) ==
  /\ "cascade" \in Faults
  /\ session[s].pc \in {"list", "revoke"}
  /\ Rest(s)
  /\ UNCHANGED <<member, owner, held, lock>>

GuardedStep(s) ==
  \/ \E u \in Users : BeginGuarded(s, u)
  \/ OwnersLocked(s) \/ ReadTarget(s) \/ CountOwners(s)
  \/ ChangeRole(s) \/ MarkRemoved(s) \/ ListAssigned(s) \/ RevokeNext(s)

TransferStep(s) ==
  \/ \E u \in Users : BeginTransfer(s, u)
  \/ MembersLocked(s) \/ CheckNewLead(s) \/ TransferLead(s)

AddStep(s) == (\E u \in Users : BeginAdd(s, u)) \/ AddMemberDirect(s)

AssignStep(s) ==
  (\E u \in Users, r \in Repos : BeginAssign(s, u, r)) \/ CreateOrReset(s)

Next ==
  \E s \in Sessions :
    \/ GuardedStep(s) \/ TransferStep(s) \/ AddStep(s) \/ AssignStep(s)
    \/ ClaimRow(s) \/ Abort(s) \/ CutShort(s)

Spec == Init /\ [][Next]_vars

-----------------------------------------------------------------------------
(* Properties.                                                             *)

\* Of the members a transfer has locked, it leaves the new lead as the only one,
\* whatever was promoted, added or removed while it waited; a second lead can only be
\* one who was added, and then promoted, after it had found the rows to lock.
\* (transferManager: "demotes every other current owner".)
OneLeadAfterTransfer ==
  [][\A s \in Sessions : At(s, "update") /\ member' # member /\ At(s, "idle")' =>
       /\ owner' = Target(s)
       /\ \A u \in Users : lock[u] = s => (u \in Owners' <=> u = Target(s))]_vars

\* However many requests run at once, the last owner goes only in three ways: an
\* addition overwrites the role of a row that was added, and made owner, since it
\* looked; a transfer has not locked its new lead, who was gone when it came to the
\* row; or a role change or removal has counted on other owners of whom it locked
\* none, because each was promoted after its statement had found the rows to lock.
\* (changeMemberRoleGuarded: "closes that window"; removeMemberGuarded; addMemberDirect's
\* ON CONFLICT DO UPDATE; transferLeadGuarded reads its target without a lock.)
OwnerLostOnlyUnlocked ==
  [][Owners # {} /\ Owners' = {} =>
       \E s \in Sessions :
         \/ At(s, "upsert") /\ At(s, "idle")'
         \/ At(s, "update") /\ At(s, "idle")' /\ lock[Target(s)] # s
         \/ /\ At(s, "write") /\ session'[s].pc \in {"idle", "list"}
            /\ session[s].counted \ {Target(s)} # {}
            /\ session[s].counted \cap session[s].hits \subseteq {Target(s)}]_vars

\* A removed member holds no assignment, but for those the cascade of their removal
\* has still to revoke.  (removeMember: "Cascades to a revoke job for every active
\* repository assignment this member holds anywhere in the Group".)
Offboarding(u, r) ==
  \E s \in Sessions :
    /\ session[s].kind = "remove" /\ Target(s) = u
    /\ \/ At(s, "list")
       \/ At(s, "revoke") /\ r \in session[s].todo

RemovedHoldNothing ==
  \A u \in Users : member[u].status = "removed" => \A r \in held[u] : Offboarding(u, r)

\* What can leave a removed member with an assignment: one whose check came before
\* the removal, or a cascade that failed; no interleaving of removals, additions
\* and cascades does.  (createAssignment has no lock; requestRevoke can throw.)
StrayOnlyByLateAssign ==
  [][RemovedHoldNothing /\ ~RemovedHoldNothing'
       => \E s \in Sessions :
            /\ At(s, "idle")'
            /\ \/ At(s, "assign") \/ At(s, "list")
               \/ At(s, "revoke") /\ session[s].todo # {}]_vars
====
