---- MODULE ProjectProvisioningProofs ----
(***************************************************************************)
(* Type correctness of ProjectProvisioning, that a failed creation leaves  *)
(* no repository, and what becomes wrong of what is known by name only     *)
(* when the name was given again meanwhile.                                *)
(***************************************************************************)
EXTENDS ProjectProvisioning, TLAPS

-----------------------------------------------------------------------------
(* Type correctness.                                                       *)

LEMMA RestingIsSession == Resting \in Session
  BY DEF Resting, Session, Pcs, RequestKinds

LEMMA RowsAndRepositories == NoRow \in Row /\ Absent \in Repository
  BY DEF NoRow, Row, Absent, Repository

LEMMA InitTypes == Init => TypeOK
<1> SUFFICES ASSUME Init PROVE TypeOK
  OBVIOUS
<1>1. PICK orphans \in SUBSET start.tracked :
        /\ repo = [n \in Names |->
             [maker |-> IF n \in start.there THEN Outsider ELSE NoOne,
              token |-> IF n \in start.tracked THEN <<n, 0>> ELSE NoOne,
              workflow |-> n \in start.tracked]]
        /\ row = [p \in Project |->
             IF p \in start.tracked \X {0}
             THEN [name |-> p[1], status |-> IF p[1] \in orphans THEN "orphaned" ELSE "provisioned",
                   token |-> TRUE]
             ELSE NoRow]
  BY DEF Init
<1>2. start \in Start /\ start.tracked \subseteq Names
  <2>1. start \in Start
    BY ProvisioningAssumption DEF Init
  <2> QED
    BY <2>1 DEF Start
<1>3. repo \in [Names -> Repository]
  <2>1. \A n \in start.tracked : <<n, 0>> \in Project
    BY <1>2 DEF Project
  <2> QED
    BY <1>1, <2>1 DEF Repository
<1>4. row \in [Project -> Row]
  <2> SUFFICES ASSUME NEW p \in Project PROVE row[p] \in Row
    BY <1>1
  <2>1. CASE p \in start.tracked \X {0}
    <3>1. p[1] \in Names
      BY <1>2, <2>1
    <3> QED
      BY <1>1, <2>1, <3>1 DEF Row
  <2>2. CASE p \notin start.tracked \X {0}
    BY <1>1, <2>2, RowsAndRepositories
  <2> QED
    BY <2>1, <2>2
<1>5. /\ news \in [Names -> Nat]
      /\ session \in [Sessions -> Session]
      /\ faults \in Nat
      /\ renewed \subseteq Sessions \X Names /\ wronged \subseteq Names
  BY ProvisioningAssumption, RestingIsSession DEF Init
<1> QED
  BY <1>2, <1>3, <1>4, <1>5 DEF TypeOK

\* What a session that is at work knows of itself: its repositories have names, and
\* only a creation makes repositories or takes one back.
Undoing == {"unrow", "unrepo", "unsecret"}
Aim(s) ==
  /\ s.at \in Saga \cup Undoing
       => s.name \in Names /\ (s.part = 2 \/ s.kind = "multi-repo" => s.twin \in Names)
  /\ s.at \in {"repo", "branches", "second", "unrepo"} => s.kind \in Creations
  /\ s.at = "unsecret" => s.kind \notin Creations
  /\ s.at = "second" => s.part = 1
Aimed == \A r \in Sessions : Aim(session[r])

Typed == TypeOK /\ Aimed

\* The same, but for what is only remembered of the steps.
Plain ==
  /\ repo \in [Names -> Repository] /\ news \in [Names -> Nat] /\ row \in [Project -> Row]
  /\ session \in [Sessions -> Session] /\ faults \in Nat
  /\ Aimed

\* A step of r changes no session but its own, and leaves that one in order.
Moved(r) ==
  /\ session' = [session EXCEPT ![r] = session'[r]]
  /\ session'[r] \in Session
  /\ Aim(session'[r])

LEMMA MovedTypes ==
  ASSUME Typed, NEW r \in Sessions, Moved(r)
  PROVE  session' \in [Sessions -> Session] /\ Aimed'
<1>1. session' \in [Sessions -> Session]
  BY DEF Typed, TypeOK, Moved
<1>2. \A q \in Sessions : Aim(session'[q])
  BY DEF Typed, TypeOK, Aimed, Moved
<1> QED
  BY <1>1, <1>2 DEF Aimed, Aim

LEMMA EndMoves ==
  ASSUME Typed, NEW r \in Sessions, NEW outcome \in Ends, End(r, outcome)
  PROVE  /\ Moved(r)
         /\ session'[r].at = outcome
         /\ session'[r].kind = session[r].kind /\ session'[r].name = session[r].name
<1> DEFINE s == [Resting EXCEPT !.at = outcome, !.kind = session[r].kind, !.name = session[r].name]
<1>1. s \in Session /\ s.at = outcome /\ s.kind = session[r].kind /\ s.name = session[r].name
  BY RestingIsSession DEF Typed, TypeOK, Session, Pcs
<1>2. Aim(s)
  BY <1>1 DEF Aim, Ends, Saga, Undoing
<1>3. session'[r] = s /\ session' = [session EXCEPT ![r] = s]
  BY DEF End, Typed, TypeOK
<1> HIDE DEF s
<1> QED
  BY <1>1, <1>2, <1>3 DEF Moved

LEMMA EndSagaMoves ==
  ASSUME Typed, NEW r \in Sessions, NEW outcome \in Ends, EndSaga(r, outcome)
  PROVE  /\ Moved(r)
         /\ session'[r].at = IF session[r].part = 2 THEN "done" ELSE outcome
         /\ session'[r].kind = session[r].kind /\ session'[r].name = session[r].name
<1>1. (IF session[r].part = 2 THEN "done" ELSE outcome) \in Ends
  BY DEF Ends
<1> QED
  BY <1>1, EndMoves DEF EndSaga

\* A session that goes on is the same in all but where it is, and starts on its second
\* repository with an id it does not know.
LEMMA ContinueMoves ==
  ASSUME Typed, NEW r \in Sessions, session[r].at \in Saga \ {"second"}, Continue(r)
  PROVE  /\ Moved(r)
         /\ session'[r].kind = session[r].kind /\ session'[r].name = session[r].name
         /\ \/ session'[r].at = "done"
            \/ /\ session'[r].at = "repo" /\ At(r, "branches")
            \/ /\ session'[r].at = After(r) /\ session'[r].at \in Saga \ {"repo"}
               /\ session'[r].part = session[r].part /\ session'[r].twin = session[r].twin
<1>1. CASE After(r) = "done"
  BY <1>1, EndMoves DEF Continue, Ends
<1>2. CASE After(r) # "done"
  <2> DEFINE part == IF At(r, "branches") /\ After(r) = "repo" THEN 2 ELSE session[r].part
             known == At(r, "row") \/ (session[r].known /\ ~At(r, "branches"))
             s == [session[r] EXCEPT !.at = After(r), !.part = part, !.known = known]
  <2>1. session[r] \in Session /\ Aim(session[r])
    BY DEF Typed, TypeOK, Aimed
  <2>2. After(r) \in Saga
    BY <1>2 DEF After, Saga
  <2>3. part \in {1, 2} /\ known \in BOOLEAN
    <3>1. part \in {1, 2}
      BY <2>1 DEF Session
    <3>2. known \in BOOLEAN
      BY Zenon
    <3> QED
      BY <3>1, <3>2
  <2>4. After(r) = "repo" => At(r, "branches") /\ session[r].kind = "multi-repo"
    BY DEF After, At, Creating, Saga
  <2>5. After(r) = "second" => session[r].part # 2 /\ session[r].kind = "microservices"
    BY DEF After, At, Creating, Saga
  <2>6. After(r) = "branches" => session[r].kind \in Creations
    BY DEF After, At, Creating
  <2>7. part = IF After(r) = "repo" THEN 2 ELSE session[r].part
    BY <2>4
  <2>8. session'[r] = s /\ session' = [session EXCEPT ![r] = s]
    BY <1>2 DEF Continue, Typed, TypeOK
  <2> HIDE DEF part, known
  <2>9. /\ s \in Session
        /\ s.at = After(r) /\ s.kind = session[r].kind /\ s.name = session[r].name
        /\ s.twin = session[r].twin /\ s.part = part
    BY <2>1, <2>2, <2>3 DEF Session, Pcs
  <2> HIDE DEF s
  <2>10. s.at \in Saga \cup Undoing
           => s.name \in Names /\ (s.part = 2 \/ s.kind = "multi-repo" => s.twin \in Names)
    BY <2>1, <2>4, <2>7, <2>9 DEF Aim
  <2>11. s.at \in {"repo", "branches", "second", "unrepo"} => s.kind \in Creations
    BY <2>2, <2>4, <2>5, <2>6, <2>9 DEF Creations, Saga
  <2>12. s.at = "second" => s.part = 1
    BY <2>1, <2>5, <2>7, <2>9 DEF Session
  <2>13. Aim(s)
    BY <2>2, <2>9, <2>10, <2>11, <2>12 DEF Aim, Saga
  <2> QED
    BY <2>2, <2>4, <2>7, <2>8, <2>9, <2>13 DEF Moved
<1> QED
  BY <1>1, <1>2

\* A session that gives up starts to undo, or has nothing to.
LEMMA GiveUpMoves ==
  ASSUME Typed, NEW r \in Sessions, session[r].at \in Saga, GiveUp(r)
  PROVE  /\ Moved(r)
         /\ session'[r].kind = session[r].kind /\ session'[r].name = session[r].name
         /\ \/ session'[r].at = "failed" /\ ~Creating(r)
            \/ /\ session'[r].at \in {"unrow", "unrepo"}
               /\ session'[r].part = session[r].part /\ session'[r].twin = session[r].twin
<1>1. CASE Undo(r) = "failed"
  BY <1>1, EndMoves DEF GiveUp, Undo, Ends
<1>2. CASE Undo(r) # "failed"
  <2> DEFINE s == [session[r] EXCEPT !.at = Undo(r)]
  <2>1. session[r] \in Session /\ Aim(session[r])
    BY DEF Typed, TypeOK, Aimed
  <2>2. Undo(r) \in {"unrow", "unrepo"} /\ (Undo(r) = "unrepo" => session[r].kind \in Creations)
    BY <1>2 DEF Undo, Creating
  <2>3. /\ s \in Session /\ s.at = Undo(r) /\ s.kind = session[r].kind /\ s.name = session[r].name
        /\ s.twin = session[r].twin /\ s.part = session[r].part
    BY <2>1, <2>2 DEF Session, Pcs
  <2>4. Aim(s)
    BY <2>1, <2>2, <2>3 DEF Aim, Saga, Undoing
  <2>5. session'[r] = s /\ session' = [session EXCEPT ![r] = s]
    BY <1>2 DEF GiveUp, Goto, Typed, TypeOK
  <2> HIDE DEF s
  <2> QED
    BY <2>2, <2>3, <2>4, <2>5 DEF Moved
<1> QED
  BY <1>1, <1>2

LEMMA AnsweredMoves ==
  ASSUME Typed, NEW r \in Sessions, session[r].at \in Saga \ {"second"}, Answered(r)
  PROVE  Moved(r) /\ faults' \in Nat
<1>1. CASE Continue(r) /\ UNCHANGED faults
  BY <1>1, ContinueMoves DEF Typed, TypeOK
<1>2. CASE Fault("step") /\ GiveUp(r)
  BY <1>2, GiveUpMoves DEF Fault, Typed, TypeOK
<1> QED
  BY <1>1, <1>2 DEF Answered

LEMMA BeginMoves ==
  ASSUME Typed, NEW r \in Sessions, NEW s \in Session, Aim(s), Begin(r, s)
  PROVE  Moved(r) /\ session'[r] = s
<1>1. session'[r] = s /\ session' = [session EXCEPT ![r] = s]
  BY DEF Begin, Typed, TypeOK
<1> QED
  BY <1>1 DEF Moved

LEMMA GotoMoves ==
  ASSUME Typed, NEW r \in Sessions, NEW pc \in {"unrepo", "unsecret", "drop", "reach"}, Goto(r, pc),
         pc \in Undoing => At(r, "unrow"),
         pc = "unrepo" => Creating(r),
         pc = "unsecret" => ~Creating(r)
  PROVE  /\ Moved(r)
         /\ session'[r].at = pc
         /\ session'[r].kind = session[r].kind /\ session'[r].name = session[r].name
         /\ session'[r].part = session[r].part /\ session'[r].twin = session[r].twin
<1> DEFINE s == [session[r] EXCEPT !.at = pc]
<1>1. session[r] \in Session /\ Aim(session[r])
  BY DEF Typed, TypeOK, Aimed
<1>2. /\ s \in Session /\ s.at = pc /\ s.kind = session[r].kind /\ s.name = session[r].name
      /\ s.twin = session[r].twin /\ s.part = session[r].part
  BY <1>1 DEF Session, Pcs
<1>3. session'[r] = s /\ session' = [session EXCEPT ![r] = s]
  BY DEF Goto, Typed, TypeOK
<1> HIDE DEF s
<1>4. Aim(s)
  BY <1>1, <1>2 DEF Aim, Saga, Undoing, At, Creating
<1> QED
  BY <1>2, <1>3, <1>4 DEF Moved

\* A check is struck off the list.
Struck(r, listed, there, gone) ==
  session' = [session EXCEPT ![r].listed = listed, ![r].there = there, ![r].gone = gone]

LEMMA CheckMoves ==
  ASSUME Typed, NEW r \in Sessions, At(r, "check"),
         NEW listed \in SUBSET (Project \X Names), NEW there \in SUBSET Project,
         NEW gone \in SUBSET (Project \X Names),
         Struck(r, listed, there, gone)
  PROVE  /\ Moved(r)
         /\ session'[r].at = "check"
         /\ session'[r].listed = listed /\ session'[r].there = there /\ session'[r].gone = gone
<1> DEFINE s == [session[r] EXCEPT !.listed = listed, !.there = there, !.gone = gone]
<1>1. session[r] \in Session
  BY DEF Typed, TypeOK
<1>2. /\ s \in Session /\ s.at = "check"
      /\ s.listed = listed /\ s.there = there /\ s.gone = gone
  BY <1>1 DEF Session, At
<1>3. session'[r] = s /\ session' = [session EXCEPT ![r] = s]
  BY DEF Struck, Typed, TypeOK
<1> HIDE DEF s
<1>4. Aim(s)
  BY <1>2 DEF Aim, Saga, Undoing
<1> QED
  BY <1>2, <1>3, <1>4 DEF Moved

LEMMA Targets ==
  ASSUME Typed, NEW r \in Requests
  PROVE  /\ Id(r) \in Project
         /\ session[r].at \in Saga \cup Undoing => Target(r) \in Names /\ session[r].name \in Names
<1>1. session[r] \in Session /\ Aim(session[r])
  BY DEF Typed, TypeOK, Aimed, Sessions
<1>2. Id(r) \in Project
  BY <1>1 DEF Id, Project, Session
<1>3. session[r].at \in Saga \cup Undoing => Target(r) \in Names /\ session[r].name \in Names
  BY <1>1 DEF Aim, Target, Session
<1> QED
  BY <1>2, <1>3

LEMMA InsertTypes ==
  ASSUME Typed, NEW p \in Project, NEW n \in Names, Insert(p, n)
  PROVE  row' \in [Project -> Row]
BY DEF Insert, Typed, TypeOK, Row

LEMMA DeleteTypes ==
  ASSUME Typed, NEW ps, Delete(ps)
  PROVE  row' \in [Project -> Row]
BY RowsAndRepositories DEF Delete, Typed, TypeOK

LEMMA SetStatusTypes ==
  ASSUME Typed, NEW ps, NEW status \in {"provisioned", "orphaned"}, SetStatus(ps, status)
  PROVE  row' \in [Project -> Row]
BY DEF SetStatus, Typed, TypeOK, Row

LEMMA DeleteRepoTypes ==
  ASSUME Typed, NEW n \in Names, DeleteRepo(n)
  PROVE  repo' \in [Names -> Repository] /\ news' \in [Names -> Nat]
BY RowsAndRepositories DEF DeleteRepo, Typed, TypeOK

LEMMA ListedTypes ==
  ASSUME Typed, NEW names \in SUBSET Names
  PROVE  Listed(names) \in SUBSET (Project \X Names)
BY DEF Listed, Tracked

LEMMA StepTypes ==
  ASSUME Typed, NEW r \in Sessions, Moved(r),
         repo' \in [Names -> Repository], news' \in [Names -> Nat],
         row' \in [Project -> Row], faults' \in Nat
  PROVE  Plain'
BY MovedTypes DEF Plain

\* One step per action: first the requests that begin, ...
LEMMA NewRequestTypes ==
  ASSUME Typed, NEW r \in Requests, NewRequest(r)
  PROVE  Plain'
<1>0. r \in Sessions /\ OrgNames \subseteq Names
  BY ProvisioningAssumption DEF Sessions
<1>1. CASE CreateProject(r)
  <2>1. PICK kind \in start.kinds[r] \cap Creations, name \in OrgNames, twin \in OrgNames \cup {NoOne} :
          /\ kind = "multi-repo" <=> twin # NoOne
          /\ Begin(r, [Resting EXCEPT !.at = "repo", !.kind = kind, !.name = name, !.twin = twin])
    BY <1>1 DEF CreateProject
  <2> DEFINE s == [Resting EXCEPT !.at = "repo", !.kind = kind, !.name = name, !.twin = twin]
  <2>2. /\ s \in Session /\ s.at = "repo" /\ s.kind = kind /\ s.name = name /\ s.twin = twin
        /\ s.part = 1
    BY <1>0, RestingIsSession DEF Session, Resting, Pcs, Saga, RequestKinds
  <2> HIDE DEF s
  <2>3. Aim(s)
    BY <1>0, <2>1, <2>2 DEF Aim
  <2>4. Moved(r)
    BY <1>0, <2>1, <2>2, <2>3, BeginMoves DEF s
  <2> QED
    BY <1>0, <1>1, <2>4, StepTypes DEF CreateProject, Typed, TypeOK
<1>2. CASE SetupProject(r)
  <2>1. PICK name \in OrgNames : Begin(r, [Resting EXCEPT !.at = "row", !.kind = "setup", !.name = name])
    BY <1>2 DEF SetupProject
  <2> DEFINE s == [Resting EXCEPT !.at = "row", !.kind = "setup", !.name = name]
  <2>2. s \in Session /\ s.at = "row" /\ s.kind = "setup" /\ s.name = name /\ s.part = 1
    BY <1>0, RestingIsSession DEF Session, Resting, Pcs, Saga, RequestKinds
  <2> HIDE DEF s
  <2>3. Aim(s)
    BY <1>0, <2>2 DEF Aim
  <2>4. Moved(r)
    BY <1>0, <2>1, <2>2, <2>3, BeginMoves DEF s
  <2> QED
    BY <1>0, <1>2, <2>4, StepTypes DEF SetupProject, Typed, TypeOK
<1>3. CASE Disconnect(r) \/ DisconnectAndDelete(r)
  <2>1. PICK p \in Tracked, at \in {"done", "ghdelete"}, kind \in {"disconnect", "delete"} :
          Begin(r, [Resting EXCEPT !.at = at, !.kind = kind, !.name = row[p].name, !.project = p])
    BY <1>3 DEF Disconnect, DisconnectAndDelete
  <2> DEFINE s == [Resting EXCEPT !.at = at, !.kind = kind, !.name = row[p].name, !.project = p]
  <2>2. p \in Project /\ row[p].name \in Names \cup {NoOne}
    BY DEF Tracked, Typed, TypeOK, Row
  <2>3. s \in Session /\ s.at \in {"done", "ghdelete"}
    BY <2>2, RestingIsSession DEF Session, Resting, Pcs, Ends, RequestKinds
  <2> HIDE DEF s
  <2>4. Aim(s)
    BY <2>3 DEF Aim, Saga, Undoing
  <2>5. Moved(r)
    BY <1>0, <2>1, <2>3, <2>4, BeginMoves DEF s
  <2>6. row' \in [Project -> Row]
    BY <1>3, DeleteTypes DEF Disconnect, DisconnectAndDelete, Typed, TypeOK
  <2> QED
    BY <1>0, <1>3, <2>5, <2>6, StepTypes DEF Disconnect, DisconnectAndDelete, Typed, TypeOK
<1>4. CASE SyncProjects(r)
  <2> DEFINE s == [Resting EXCEPT !.at = "check", !.listed = Listed(Names)]
  <2>1. s \in Session /\ s.at = "check"
    BY RestingIsSession, ListedTypes DEF Session, Resting, Pcs
  <2>2. Begin(r, s)
    BY <1>4 DEF SyncProjects
  <2> HIDE DEF s
  <2>3. Aim(s)
    BY <2>1 DEF Aim, Saga, Undoing
  <2>4. Moved(r)
    BY <1>0, <2>1, <2>2, <2>3, BeginMoves
  <2> QED
    BY <1>0, <1>4, <2>4, StepTypes DEF SyncProjects, Typed, TypeOK
<1> QED
  BY <1>1, <1>2, <1>3, <1>4 DEF NewRequest

\* ... then the saga, ...
LEMMA SagaTypes ==
  ASSUME Typed, NEW r \in Requests, SagaStep(r)
  PROVE  Plain'
<1>0. /\ r \in Sessions
      /\ Id(r) \in Project
      /\ session[r].at \in Saga \cup Undoing => Target(r) \in Names /\ session[r].name \in Names
      /\ <<r, 2>> \in Project
  BY Targets DEF Sessions, Project
<1>1. CASE CreateRepo(r)
  <2>1. At(r, "repo") /\ Target(r) \in Names
    BY <1>0, <1>1 DEF CreateRepo, At, Saga
  <2>2. repo' \in [Names -> Repository]
    BY <1>1, <2>1 DEF CreateRepo, Repository, Absent, Typed, TypeOK
  <2>3. Moved(r) /\ faults' \in Nat
    <3>1. CASE Continue(r) /\ UNCHANGED faults
      BY <1>0, <2>1, <3>1, ContinueMoves DEF At, Saga, Typed, TypeOK
    <3>2. CASE Fault("step") /\ EndSaga(r, "refused")
      BY <1>0, <3>2, EndSagaMoves DEF Ends, Fault, Typed, TypeOK
    <3> QED
      BY <1>1, <3>1, <3>2 DEF CreateRepo
  <2> QED
    BY <1>0, <1>1, <2>2, <2>3, StepTypes DEF CreateRepo, Typed, TypeOK
<1>2. CASE CreateRepoRefused(r)
  <2>1. Moved(r)
    BY <1>0, <1>2, EndSagaMoves DEF CreateRepoRefused, Ends
  <2> QED
    BY <1>0, <1>2, <2>1, StepTypes DEF CreateRepoRefused, Typed, TypeOK
<1>3. CASE InsertRow(r)
  <2>1. session[r].at = "row" /\ Target(r) \in Names
    BY <1>0, <1>3 DEF InsertRow, At, Saga
  <2>2. Moved(r) /\ faults' \in Nat
    BY <1>0, <1>3, <2>1, AnsweredMoves DEF InsertRow, Saga
  <2>3. row' \in [Project -> Row]
    BY <1>0, <1>3, <2>1, InsertTypes DEF InsertRow
  <2> QED
    BY <1>0, <1>3, <2>2, <2>3, StepTypes DEF InsertRow, Typed, TypeOK
<1>4. CASE IssueToken(r) \/ UpdateStatus(r)
  <2>1. Moved(r) /\ faults' \in Nat
    BY <1>0, <1>4, AnsweredMoves DEF IssueToken, UpdateStatus, At, Saga
  <2>2. row' \in [Project -> Row]
    <3>1. row[Id(r)] \in Row
      BY <1>0 DEF Typed, TypeOK
    <3>2. [row[Id(r)] EXCEPT !.token = TRUE] \in Row
          /\ [row[Id(r)] EXCEPT !.status = "provisioned"] \in Row
      BY <3>1 DEF Row
    <3>3. \/ row' = row
          \/ row' = [row EXCEPT ![Id(r)] = [row[Id(r)] EXCEPT !.token = TRUE]]
          \/ row' = [row EXCEPT ![Id(r)] = [row[Id(r)] EXCEPT !.status = "provisioned"]]
      BY <1>4 DEF IssueToken, UpdateStatus
    <3> QED
      BY <3>2, <3>3 DEF Typed, TypeOK
  <2> QED
    BY <1>0, <1>4, <2>1, <2>2, StepTypes DEF IssueToken, UpdateStatus, Typed, TypeOK
<1>5. CASE SetSecret(r) \/ PushWorkflow(r) \/ MakeBranches(r)
  <2>1. session[r].at \in {"secret", "workflow", "branches"} /\ Target(r) \in Names
    BY <1>0, <1>5 DEF SetSecret, PushWorkflow, MakeBranches, At, Saga
  <2>2. Moved(r) /\ faults' \in Nat
    BY <1>0, <1>5, <2>1, AnsweredMoves DEF SetSecret, PushWorkflow, MakeBranches, Saga
  <2>3. repo' \in [Names -> Repository]
    <3>1. repo[Target(r)] \in Repository
      BY <2>1 DEF Typed, TypeOK
    <3>2. [repo[Target(r)] EXCEPT !.token = Id(r)] \in Repository
          /\ [repo[Target(r)] EXCEPT !.workflow = TRUE] \in Repository
      BY <1>0, <3>1 DEF Repository
    <3>3. \/ repo' = repo
          \/ repo' = [repo EXCEPT ![Target(r)] = [repo[Target(r)] EXCEPT !.token = Id(r)]]
          \/ repo' = [repo EXCEPT ![Target(r)] = [repo[Target(r)] EXCEPT !.workflow = TRUE]]
      BY <1>5 DEF SetSecret, PushWorkflow, MakeBranches
    <3> QED
      BY <3>2, <3>3 DEF Typed, TypeOK
  <2> QED
    BY <1>0, <1>5, <2>2, <2>3, StepTypes DEF SetSecret, PushWorkflow, MakeBranches, Typed, TypeOK
<1>6. CASE InsertSecondRow(r)
  <2>1. session[r].name \in Names
    BY <1>0, <1>6 DEF InsertSecondRow, At, Saga
  <2>2. Moved(r)
    BY <1>0, <1>6, EndMoves DEF InsertSecondRow, Ends
  <2>3. row' \in [Project -> Row] /\ faults' \in Nat
    BY <1>0, <1>6, <2>1, InsertTypes DEF InsertSecondRow, Fault, Typed, TypeOK
  <2> QED
    BY <1>0, <1>6, <2>2, <2>3, StepTypes DEF InsertSecondRow, Typed, TypeOK
<1>7. CASE StepFails(r)
  <2>1. session[r].at \in Saga
    BY <1>7 DEF StepFails, At, Saga
  <2>2. Moved(r)
    BY <1>0, <1>7, <2>1, GiveUpMoves DEF StepFails
  <2>3. faults' \in Nat
    BY <1>7 DEF StepFails, Fault, Typed, TypeOK
  <2> QED
    BY <1>0, <1>7, <2>2, <2>3, StepTypes DEF StepFails, Typed, TypeOK
<1>8. CASE UndoRow(r)
  <2>1. Moved(r)
    BY <1>0, <1>8, GotoMoves DEF UndoRow, Undoing
  <2>2. row' \in [Project -> Row] /\ faults' \in Nat
    BY <1>8, DeleteTypes DEF UndoRow, Fault, Typed, TypeOK
  <2> QED
    BY <1>0, <1>8, <2>1, <2>2, StepTypes DEF UndoRow, Typed, TypeOK
<1>9. CASE UndoRepo(r)
  <2>1. Target(r) \in Names
    BY <1>0, <1>9 DEF UndoRepo, At, Undoing
  <2>2. Moved(r)
    BY <1>0, <1>9, EndSagaMoves DEF UndoRepo, Ends
  <2>3. repo' \in [Names -> Repository] /\ news' \in [Names -> Nat] /\ faults' \in Nat
    BY <1>9, <2>1, DeleteRepoTypes DEF UndoRepo, Fault, Typed, TypeOK
  <2> QED
    BY <1>0, <1>9, <2>2, <2>3, StepTypes DEF UndoRepo, Typed, TypeOK
<1>10. CASE UndoSecret(r)
  <2>1. Target(r) \in Names
    BY <1>0, <1>10 DEF UndoSecret, At, Undoing
  <2>2. Moved(r)
    BY <1>0, <1>10, EndMoves DEF UndoSecret, Ends
  <2>3. repo' \in [Names -> Repository] /\ faults' \in Nat
    BY <1>10, <2>1 DEF UndoSecret, Fault, Repository, Typed, TypeOK
  <2> QED
    BY <1>0, <1>10, <2>2, <2>3, StepTypes DEF UndoSecret, Typed, TypeOK
<1> QED
  BY <1>1, <1>2, <1>3, <1>4, <1>5, <1>6, <1>7, <1>8, <1>9, <1>10 DEF SagaStep

\* ... then what else a request, the script or a crash does, ...
LEMMA OtherRequestTypes ==
  ASSUME Typed, NEW r \in Requests,
         DeleteRepoForUser(r) \/ DropRow(r) \/ MarkOrphaned(r) \/ MarkReachable(r)
  PROVE  Plain'
<1>0. r \in Sessions
  BY DEF Sessions
<1>1. CASE DeleteRepoForUser(r)
  <2>1. Moved(r)
    BY <1>0, <1>1, GotoMoves DEF DeleteRepoForUser, Undoing
  <2>2. \A n : DeleteRepo(n) => n \in Names \/ UNCHANGED repo
    BY DEF DeleteRepo, Typed, TypeOK
  <2>3. repo' \in [Names -> Repository] /\ news' \in [Names -> Nat] /\ faults' \in Nat
    <3>1. CASE DeleteRepo(session[r].name) /\ UNCHANGED faults
      <4>1. CASE session[r].name \in Names
        BY <3>1, <4>1, DeleteRepoTypes DEF Typed, TypeOK
      <4>2. CASE session[r].name \notin Names
        BY <3>1, <4>2 DEF DeleteRepo, Typed, TypeOK
      <4> QED
        BY <4>1, <4>2
    <3>2. CASE UNCHANGED <<repo, news>> /\ (UNCHANGED faults \/ Fault("step"))
      BY <3>2 DEF Fault, Typed, TypeOK
    <3> QED
      BY <1>1, <3>1, <3>2 DEF DeleteRepoForUser
  <2> QED
    BY <1>0, <1>1, <2>1, <2>3, StepTypes DEF DeleteRepoForUser, Typed, TypeOK
<1>2. CASE DropRow(r)
  <2>1. Moved(r)
    BY <1>0, <1>2, EndMoves DEF DropRow, Ends
  <2>2. row' \in [Project -> Row]
    BY <1>2, DeleteTypes DEF DropRow
  <2> QED
    BY <1>0, <1>2, <2>1, <2>2, StepTypes DEF DropRow, Typed, TypeOK
<1>3. CASE MarkOrphaned(r)
  <2>1. Moved(r)
    BY <1>0, <1>3, GotoMoves DEF MarkOrphaned, Undoing
  <2>2. row' \in [Project -> Row]
    BY <1>3, SetStatusTypes DEF MarkOrphaned
  <2> QED
    BY <1>0, <1>3, <2>1, <2>2, StepTypes DEF MarkOrphaned, Typed, TypeOK
<1>4. CASE MarkReachable(r)
  <2>1. Moved(r)
    BY <1>0, <1>4, EndMoves DEF MarkReachable, Ends
  <2>2. row' \in [Project -> Row]
    BY <1>4, SetStatusTypes DEF MarkReachable
  <2> QED
    BY <1>0, <1>4, <2>1, <2>2, StepTypes DEF MarkReachable, Typed, TypeOK
<1> QED
  BY <1>1, <1>2, <1>3, <1>4

LEMMA CheckTypes ==
  ASSUME Typed, NEW r \in Sessions, CheckRepo(r) \/ CheckInconclusive(r)
  PROVE  /\ Plain' /\ Moved(r)
         /\ session'[r].at = "check"
         /\ session'[r].listed \subseteq session[r].listed
         /\ \A x \in session'[r].gone : x \in session[r].gone \/ (x \in session[r].listed /\ ~Sees(r, x[2]))
<1>1. session[r] \in Session
  BY DEF Typed, TypeOK
<1>2. PICK x \in session[r].listed :
        /\ At(r, "check")
        /\ \/ session' = [session EXCEPT ![r].listed = @ \ {x},
                                        ![r].there = IF Sees(r, x[2]) THEN @ \cup {x[1]} ELSE @,
                                        ![r].gone = IF Sees(r, x[2]) THEN @ ELSE @ \cup {x}]
           \/ session' = [session EXCEPT ![r].listed = @ \ {x}]
  BY DEF CheckRepo, CheckInconclusive
<1>0. UNCHANGED faults \/ Fault("check")
  BY DEF CheckRepo, CheckInconclusive
<1> DEFINE listed == session[r].listed \ {x}
           there == IF Sees(r, x[2]) THEN session[r].there \cup {x[1]} ELSE session[r].there
           gone == IF Sees(r, x[2]) THEN session[r].gone ELSE session[r].gone \cup {x}
<1>3. x \in Project \X Names /\ x[1] \in Project
  BY <1>1, <1>2 DEF Session
<1>4. /\ listed \in SUBSET (Project \X Names)
      /\ there \in SUBSET Project /\ gone \in SUBSET (Project \X Names)
      /\ session[r].there \in SUBSET Project /\ session[r].gone \in SUBSET (Project \X Names)
  BY <1>1, <1>3 DEF Session
<1>5. \/ Struck(r, listed, there, gone)
      \/ Struck(r, listed, session[r].there, session[r].gone)
  BY <1>1, <1>2 DEF Struck, Typed, TypeOK, Session
<1>6. /\ listed \subseteq session[r].listed
      /\ \A y \in gone : y \in session[r].gone \/ (y \in session[r].listed /\ ~Sees(r, y[2]))
  BY <1>2
<1> HIDE DEF listed, there, gone
<1>7. /\ Moved(r)
      /\ session'[r].at = "check" /\ session'[r].listed = listed
      /\ session'[r].gone \in {gone, session[r].gone}
  BY <1>2, <1>4, <1>5, CheckMoves
<1>8. faults' \in Nat
  BY <1>0 DEF Fault, Typed, TypeOK
<1> QED
  BY <1>6, <1>7, <1>8, StepTypes DEF CheckRepo, CheckInconclusive, Typed, TypeOK

LEMMA CronTypes ==
  ASSUME Typed, CronStep
  PROVE  Plain'
<1>0. Cron \in Sessions /\ OrgNames \subseteq Names /\ session[Cron] \in Session
  BY ProvisioningAssumption DEF Sessions, Typed, TypeOK
<1>1. CASE Reconcile
  <2> DEFINE s == [Resting EXCEPT !.at = "check", !.listed = Listed(OrgNames)]
  <2>1. s \in Session /\ s.at = "check"
    BY <1>0, RestingIsSession, ListedTypes DEF Session, Resting, Pcs
  <2>2. Begin(Cron, s)
    BY <1>1 DEF Reconcile
  <2> HIDE DEF s
  <2>3. Aim(s)
    BY <2>1 DEF Aim, Saga, Undoing
  <2>4. Moved(Cron)
    BY <1>0, <2>1, <2>2, <2>3, BeginMoves
  <2> QED
    BY <1>0, <1>1, <2>4, StepTypes DEF Reconcile, Typed, TypeOK
<1>2. CASE CheckRepo(Cron) \/ CheckInconclusive(Cron)
  BY <1>0, <1>2, CheckTypes
<1>3. CASE DeleteGone
  <2>1. PICK x \in session[Cron].gone :
          /\ At(Cron, "check") /\ DeleteByRepoFullName(x[2])
          /\ session' = [session EXCEPT ![Cron].gone = @ \ {x}]
    BY <1>3 DEF DeleteGone
  <2> DEFINE gone == session[Cron].gone \ {x}
  <2>2. /\ session[Cron].listed \in SUBSET (Project \X Names)
        /\ session[Cron].there \in SUBSET Project /\ gone \in SUBSET (Project \X Names)
    BY <1>0 DEF Session
  <2>3. Struck(Cron, session[Cron].listed, session[Cron].there, gone)
    BY <1>0, <2>1 DEF Struck, Typed, TypeOK, Session
  <2> HIDE DEF gone
  <2>4. Moved(Cron)
    BY <1>0, <2>1, <2>2, <2>3, CheckMoves
  <2>5. row' \in [Project -> Row]
    BY <2>1, DeleteTypes DEF DeleteByRepoFullName
  <2> QED
    BY <1>0, <1>3, <2>4, <2>5, StepTypes DEF DeleteGone, Typed, TypeOK
<1>4. CASE ReconcileEnds
  <2>1. Moved(Cron)
    BY <1>0, <1>4, RestingIsSession DEF ReconcileEnds, Moved, Aim, Resting, Saga, Undoing, Typed, TypeOK
  <2> QED
    BY <1>0, <1>4, <2>1, StepTypes DEF ReconcileEnds, Typed, TypeOK
<1> QED
  BY <1>1, <1>2, <1>3, <1>4 DEF CronStep

LEMMA CrashTypes ==
  ASSUME Typed, NEW r \in Sessions, Crash(r)
  PROVE  Plain' /\ Moved(r)
<1>1. Moved(r)
  <2>1. CASE r = Cron
    <3>1. session' = [session EXCEPT ![r] = Resting] /\ session'[r] = Resting
      BY <2>1 DEF Crash, Typed, TypeOK
    <3>2. Aim(Resting)
      BY DEF Aim, Resting, Saga, Undoing
    <3> QED
      BY <3>1, <3>2, RestingIsSession DEF Moved
  <2>2. CASE r # Cron
    BY <2>2, EndMoves DEF Crash, Ends
  <2> QED
    BY <2>1, <2>2
<1>2. faults' \in Nat
  BY DEF Crash, Fault, Typed, TypeOK
<1> QED
  BY <1>1, <1>2, StepTypes DEF Crash, Typed, TypeOK

\* ... and GitHub last.
LEMMA GitHubTypes ==
  ASSUME Typed, NEW n \in Names, HandleRepositoryDeleted(n) \/ NewsLost(n) \/ OutsideDelete(n)
  PROVE  Plain'
<1>1. session' = session
  BY DEF HandleRepositoryDeleted, NewsLost, OutsideDelete
<1>2. repo' \in [Names -> Repository] /\ news' \in [Names -> Nat]
  <2>1. CASE news[n] > 0 /\ news' = [news EXCEPT ![n] = @ - 1] /\ repo' = repo
    BY <2>1 DEF Typed, TypeOK
  <2>2. CASE OutsideDelete(n)
    BY <2>2, DeleteRepoTypes DEF OutsideDelete
  <2> QED
    BY <2>1, <2>2 DEF HandleRepositoryDeleted, NewsLost
<1>3. row' \in [Project -> Row]
  BY DeleteTypes DEF HandleRepositoryDeleted, DeleteByRepoFullName, NewsLost, OutsideDelete, Typed, TypeOK
<1>4. faults' \in Nat
  BY DEF HandleRepositoryDeleted, NewsLost, OutsideDelete, Fault, Typed, TypeOK
<1> QED
  BY <1>1, <1>2, <1>3, <1>4 DEF Typed, TypeOK, Aimed, Aim, Plain

\* What is remembered of a step that is taken.
LEMMA Remembered ==
  ASSUME Typed, [Next]_vars
  PROVE  /\ Remember \/ UNCHANGED vars
         /\ start' = start /\ renewed' \subseteq Sessions \X Names /\ wronged' \subseteq Names
BY DEF Next, Remember, vars, Typed, TypeOK

LEMMA NextTypes ==
  ASSUME Typed, [Next]_vars
  PROVE  Typed'
<1> SUFFICES Plain'
  BY Remembered DEF Plain, Typed, TypeOK
<1>1. CASE \E r \in Requests : NewRequest(r)
  BY <1>1, NewRequestTypes
<1>2. CASE \E r \in Requests : RequestStep(r)
  <2>1. PICK r \in Requests : RequestStep(r)
    BY <1>2
  <2>2. r \in Sessions
    BY DEF Sessions
  <2> QED
    BY <2>1, <2>2, SagaTypes, OtherRequestTypes, CheckTypes DEF RequestStep
<1>3. CASE CronStep
  BY <1>3, CronTypes
<1>4. CASE \E r \in Sessions : Crash(r)
  BY <1>4, CrashTypes
<1>5. CASE \E n \in Names : HandleRepositoryDeleted(n) \/ NewsLost(n) \/ OutsideDelete(n)
  BY <1>5, GitHubTypes
<1>6. CASE UNCHANGED vars
  BY <1>6 DEF vars, Typed, TypeOK, Aimed, Aim, Plain
<1> QED
  BY <1>1, <1>2, <1>3, <1>4, <1>5, <1>6 DEF Next, Step

LEMMA InitTyped == Init => Typed
<1> SUFFICES ASSUME Init PROVE Aimed
  BY InitTypes DEF Typed
<1> QED
  BY DEF Init, Aimed, Aim, Resting, Saga, Undoing

\* The variables of ProjectProvisioning keep their types, whatever requests, webhooks,
\* scripts and crashes do to each other: no step goes on with a name or a project that
\* it does not have.
THEOREM TypeCorrect == Spec => []TypeOK
<1>1. Init => Typed
  BY InitTyped
<1>2. Typed /\ [Next]_vars => Typed'
  BY NextTypes
<1>3. Typed => TypeOK
  BY DEF Typed
<1> QED
  BY <1>1, <1>2, <1>3, PTL DEF Spec

-----------------------------------------------------------------------------
(* Whose repository it is.  What a session knows by name stays true of the  *)
(* repository it knew, and the name is marked when it is given again.       *)

\* A creation that has its repository: it made the one that stands, or the name was
\* given again.
AtWork == (Saga \ {"repo"}) \cup Undoing
Owns(r) ==
  session[r].at \in AtWork /\ Creating(r) /\ Exists(Target(r))
    => repo[Target(r)].maker = r \/ <<r, Target(r)>> \in renewed

\* A repository that the script has found gone is gone, or made again.
Known ==
  /\ \A r \in Requests : Owns(r)
  /\ \A x \in session[Cron].listed \cup session[Cron].gone : x[2] \in OrgNames
  /\ \A x \in session[Cron].gone : Exists(x[2]) => <<Cron, x[2]>> \in renewed
  /\ session[Cron].gone # {} => At(Cron, "check")

Failed ==
  \A r \in Requests :
    At(r, "failed") /\ Creating(r) => session[r].name \in Names /\ repo[session[r].name].maker # r

\* A request's step, or the end of its process, concerns no other session.
LEMMA Own ==
  ASSUME Typed, NEW q \in Sessions, NEW r \in Sessions, r # q,
         NewRequest(q) \/ RequestStep(q) \/ Crash(q)
  PROVE  session'[r] = session[r]
<1>1. session \in [Sessions -> Session]
  BY DEF Typed, TypeOK
<1>2. CASE NewRequest(q)
  BY <1>1, <1>2 DEF NewRequest, CreateProject, SetupProject, Disconnect, DisconnectAndDelete, SyncProjects, Begin
<1>3. CASE Crash(q)
  BY <1>1, <1>3 DEF Crash, End
<1>4. CASE SagaStep(q)
  <2>1. /\ Continue(q) => session'[r] = session[r]
        /\ GiveUp(q) => session'[r] = session[r]
        /\ \A outcome : End(q, outcome) \/ EndSaga(q, outcome) \/ Goto(q, outcome) => session'[r] = session[r]
    BY <1>1 DEF Continue, GiveUp, End, EndSaga, Goto
  <2> QED
    BY <1>4, <2>1 DEF SagaStep, CreateRepo, CreateRepoRefused, InsertRow, IssueToken, SetSecret, PushWorkflow,
         UpdateStatus, MakeBranches, InsertSecondRow, StepFails, UndoRow, UndoRepo, UndoSecret, Answered
<1>5. CASE CheckRepo(q) \/ CheckInconclusive(q)
  BY <1>1, <1>5 DEF CheckRepo, CheckInconclusive
<1>6. CASE DeleteRepoForUser(q) \/ DropRow(q) \/ MarkOrphaned(q) \/ MarkReachable(q)
  BY <1>1, <1>6 DEF DeleteRepoForUser, DropRow, MarkOrphaned, MarkReachable, Goto, End
<1> QED
  BY <1>2, <1>3, <1>4, <1>5, <1>6 DEF RequestStep

LEMMA ScriptOwn ==
  ASSUME Typed, NEW r \in Requests,
         \/ CronStep
         \/ \E n \in Names : HandleRepositoryDeleted(n) \/ NewsLost(n) \/ OutsideDelete(n)
         \/ UNCHANGED vars
  PROVE  session'[r] = session[r]
<1>1. /\ session \in [Sessions -> Session]
      /\ Cron \in Sessions /\ r \in Sessions /\ r # Cron
  BY ProvisioningAssumption DEF Sessions, Typed, TypeOK
<1>2. CASE CronStep
  <2>1. CASE Reconcile
    BY <1>1, <2>1 DEF Reconcile, Begin
  <2>2. CASE CheckRepo(Cron) \/ CheckInconclusive(Cron)
    BY <1>1, <2>2, CheckTypes DEF Moved
  <2>3. CASE DeleteGone
    BY <1>1, <2>3 DEF DeleteGone
  <2>4. CASE ReconcileEnds
    BY <1>1, <2>4 DEF ReconcileEnds
  <2> QED
    BY <1>2, <2>1, <2>2, <2>3, <2>4 DEF CronStep
<1> QED
  BY <1>2 DEF HandleRepositoryDeleted, NewsLost, OutsideDelete, vars

\* Repositories come and go only where they are made and deleted.
Stays(n) == repo'[n].maker = repo[n].maker
Goes(n) == Exists(n) /\ repo'[n] = Absent
Comes(n) == \E q \in Requests : CreateRepo(q) /\ n = Target(q)

LEMMA DeleteRepoSteps ==
  ASSUME Typed, NEW m, DeleteRepo(m), NEW n \in Names
  PROVE  Stays(n) \/ Goes(n)
<1>1. repo \in [Names -> Repository] /\ news \in [Names -> Nat]
  BY DEF Typed, TypeOK
<1>2. CASE n = m
  BY <1>1, <1>2 DEF DeleteRepo, Goes
<1>3. CASE n # m
  BY <1>1, <1>3 DEF DeleteRepo, Stays
<1> QED
  BY <1>2, <1>3

LEMMA RepoSteps ==
  ASSUME Typed, [Next]_vars, NEW n \in Names
  PROVE  Stays(n) \/ Goes(n) \/ Comes(n)
<1>0. repo \in [Names -> Repository] /\ news \in [Names -> Nat]
  BY DEF Typed, TypeOK
<1>1. CASE UNCHANGED repo
  BY <1>1 DEF Stays
<1>2. ASSUME NEW r \in Requests, CreateRepo(r)
      PROVE  Stays(n) \/ Comes(n)
  <2>1. CASE n = Target(r)
    BY <1>2, <2>1 DEF CreateRepo, Comes
  <2>2. CASE n # Target(r)
    BY <1>0, <1>2, <2>2 DEF CreateRepo, Stays
  <2> QED
    BY <2>1, <2>2
<1>3. ASSUME NEW r \in Requests, SetSecret(r) \/ PushWorkflow(r) \/ UndoSecret(r)
      PROVE  Stays(n)
  <2>1. repo[n] \in Repository
    BY <1>0
  <2>2. repo'[n].maker = repo[n].maker
    BY <1>0, <1>3, <2>1 DEF SetSecret, PushWorkflow, UndoSecret, Repository
  <2> QED
    BY <2>2 DEF Stays
<1>4. ASSUME NEW r \in Requests, UndoRepo(r) \/ DeleteRepoForUser(r)
      PROVE  Stays(n) \/ Goes(n)
  <2>1. UNCHANGED repo \/ \E m : DeleteRepo(m)
    BY <1>4 DEF UndoRepo, DeleteRepoForUser
  <2> QED
    BY <2>1, DeleteRepoSteps DEF Stays
<1>5. ASSUME NEW m \in Names, HandleRepositoryDeleted(m) \/ NewsLost(m)
      PROVE  Stays(n)
  BY <1>0, <1>5 DEF HandleRepositoryDeleted, NewsLost, Stays
<1>6. ASSUME NEW m \in Names, OutsideDelete(m)
      PROVE  Stays(n) \/ Goes(n)
  BY <1>6, DeleteRepoSteps DEF OutsideDelete
<1>7. ASSUME NEW r \in Requests, NewRequest(r) \/ RequestStep(r)
      PROVE  Stays(n) \/ Goes(n) \/ Comes(n)
  <2>1. \/ UNCHANGED repo \/ CreateRepo(r)
        \/ SetSecret(r) \/ PushWorkflow(r) \/ UndoSecret(r) \/ UndoRepo(r) \/ DeleteRepoForUser(r)
    BY <1>7 DEF NewRequest, CreateProject, SetupProject, Disconnect, DisconnectAndDelete, SyncProjects,
         RequestStep, SagaStep, CreateRepoRefused, InsertRow, IssueToken, UpdateStatus, MakeBranches,
         InsertSecondRow, StepFails, UndoRow, DropRow, CheckRepo, CheckInconclusive, MarkOrphaned, MarkReachable
  <2> QED
    BY <1>1, <1>2, <1>3, <1>4, <2>1
<1>8. CASE CronStep \/ (\E r \in Sessions : Crash(r)) \/ UNCHANGED vars
  <2>1. UNCHANGED repo
    BY <1>8 DEF CronStep, Reconcile, CheckRepo, CheckInconclusive, DeleteGone, ReconcileEnds, Crash, vars
  <2> QED
    BY <1>1, <2>1
<1> QED
  BY <1>5, <1>6, <1>7, <1>8 DEF Next, Step

\* A repository that comes by another's hand while a session is at work is marked, and
\* the mark stays while the repository and the session do.
LEMMA Marked ==
  ASSUME Typed, [Next]_vars, NEW s \in Sessions, NEW n \in Names, Knows(s)', Exists(n)',
         IF Exists(n) THEN <<s, n>> \in renewed ELSE repo'[n].maker # s
  PROVE  <<s, n>> \in renewed'
<1>1. CASE Remember
  <2>1. Made(n) <=> ~Exists(n)
    BY DEF Made
  <2> QED
    BY <1>1, <2>1 DEF Remember
<1>2. CASE UNCHANGED vars
  BY <1>2 DEF vars, Exists
<1> QED
  BY <1>1, <1>2, Remembered

\* Who made a repository that comes.
LEMMA Makers ==
  ASSUME Typed, [Next]_vars, NEW n \in Names, Exists(n)', ~Exists(n)
  PROVE  \E q \in Requests : CreateRepo(q) /\ n = Target(q) /\ repo'[n].maker = q
<1>1. Comes(n)
  BY RepoSteps DEF Stays, Goes, Exists
<1>2. PICK q \in Requests : CreateRepo(q) /\ n = Target(q)
  BY <1>1 DEF Comes
<1>3. repo'[n].maker = q
  BY <1>2 DEF CreateRepo, Absent, Typed, TypeOK
<1> QED
  BY <1>2, <1>3

\* How a session comes to have its repository.
Same(r) == /\ session'[r].kind = session[r].kind /\ session'[r].name = session[r].name
           /\ session'[r].part = session[r].part /\ session'[r].twin = session[r].twin

LEMMA SameTarget ==
  ASSUME NEW r, Same(r)
  PROVE  Target(r)' = Target(r) /\ Creating(r)' = Creating(r)
BY DEF Same, Target, Creating

\* Where a step of the saga leaves a session that still has something to do.
LEMMA AnsweredSteps ==
  ASSUME Typed, NEW r \in Requests, session[r].at \in Saga \ {"second"}, Continue(r) \/ GiveUp(r),
         session'[r].at \in AtWork
  PROVE  Same(r)
<1>1. r \in Sessions
  BY DEF Sessions
<1>2. CASE Continue(r)
  BY <1>1, <1>2, ContinueMoves DEF Same, AtWork, Saga, Undoing
<1>3. CASE GiveUp(r)
  BY <1>1, <1>3, GiveUpMoves DEF Same, AtWork, Saga, Undoing
<1> QED
  BY <1>2, <1>3

Picked(r) ==
  /\ Exists(session'[r].name) /\ session'[r].kind = "setup" /\ session'[r].part = 1
  /\ UNCHANGED repo

LEMMA WorkSteps ==
  ASSUME Typed, [Next]_vars, NEW r \in Requests, session'[r].at \in AtWork
  PROVE  \/ session[r].at \in AtWork /\ Same(r)
         \/ CreateRepo(r) /\ Same(r)
         \/ Picked(r) /\ session'[r].name \in Names
<1>0. r \in Sessions /\ r # Cron
  BY ProvisioningAssumption DEF Sessions
<1>1. session'[r] = session[r] => session[r].at \in AtWork /\ Same(r)
  BY DEF Same
<1>2. ~(\E outcome \in Ends : End(r, outcome) \/ EndSaga(r, outcome))
  BY <1>0, EndMoves, EndSagaMoves DEF Ends, AtWork, Saga, Undoing
<1>3. ~(Goto(r, "drop") \/ Goto(r, "reach"))
  BY <1>0, GotoMoves DEF AtWork, Saga, Undoing
<1>4. CASE NewRequest(r)
  <2>1. session \in [Sessions -> Session]
    BY DEF Typed, TypeOK
  <2>2. CASE SetupProject(r)
    <3>1. PICK name \in OrgNames :
            Exists(name) /\ Begin(r, [Resting EXCEPT !.at = "row", !.kind = "setup", !.name = name])
      BY <2>2 DEF SetupProject
    <3>2. session'[r].name = name /\ session'[r].kind = "setup" /\ session'[r].part = 1
      BY <1>0, <2>1, <3>1 DEF Begin, Resting
    <3> QED
      BY <2>2, <3>1, <3>2, ProvisioningAssumption DEF SetupProject, Picked
  <2>3. CASE CreateProject(r) \/ Disconnect(r) \/ DisconnectAndDelete(r) \/ SyncProjects(r)
    <3>1. \A s : Begin(r, s) => session'[r] = s
      BY <1>0, <2>1 DEF Begin
    <3>2. CreateProject(r) => session'[r].at = "repo"
      BY <3>1 DEF CreateProject, Resting
    <3>3. Disconnect(r) => session'[r].at = "done"
      BY <3>1 DEF Disconnect, Resting
    <3>4. DisconnectAndDelete(r) => session'[r].at = "ghdelete"
      BY <3>1 DEF DisconnectAndDelete, Resting
    <3>5. SyncProjects(r) => session'[r].at = "check"
      BY <3>1 DEF SyncProjects, Resting
    <3> QED
      BY <2>3, <3>2, <3>3, <3>4, <3>5 DEF AtWork, Saga, Undoing
  <2> QED
    BY <1>4, <2>2, <2>3 DEF NewRequest
<1>5. CASE SagaStep(r)
  <2>1. CASE CreateRepo(r)
    BY <1>2, <2>1, AnsweredSteps DEF CreateRepo, At, Saga, Ends
  <2>2. CASE \/ InsertRow(r) \/ IssueToken(r) \/ SetSecret(r) \/ PushWorkflow(r) \/ UpdateStatus(r)
             \/ MakeBranches(r) \/ StepFails(r)
    <3>1. session[r].at \in Saga \ {"repo", "second"}
      BY <2>2 DEF InsertRow, IssueToken, SetSecret, PushWorkflow, UpdateStatus, MakeBranches, StepFails, At, Saga
    <3>2. Continue(r) \/ GiveUp(r)
      BY <2>2 DEF InsertRow, IssueToken, SetSecret, PushWorkflow, UpdateStatus, MakeBranches, StepFails, Answered
    <3> QED
      BY <3>1, <3>2, AnsweredSteps DEF AtWork
  <2>3. CASE UndoRow(r)
    <3>1. session[r].at \in AtWork
      BY <2>3 DEF UndoRow, At, AtWork, Undoing
    <3> QED
      BY <1>0, <2>3, <3>1, GotoMoves DEF UndoRow, Undoing, Same
  <2>4. CASE CreateRepoRefused(r) \/ InsertSecondRow(r) \/ UndoRepo(r) \/ UndoSecret(r)
    BY <1>2, <2>4 DEF CreateRepoRefused, InsertSecondRow, UndoRepo, UndoSecret, Ends
  <2> QED
    BY <1>5, <2>1, <2>2, <2>3, <2>4 DEF SagaStep
<1>6. CASE CheckRepo(r) \/ CheckInconclusive(r)
  <2>1. session'[r].at = "check"
    BY <1>0, <1>6, CheckTypes
  <2> QED
    BY <2>1 DEF AtWork, Saga, Undoing
<1>7. CASE DeleteRepoForUser(r) \/ DropRow(r) \/ MarkOrphaned(r) \/ MarkReachable(r)
  BY <1>2, <1>3, <1>7 DEF DeleteRepoForUser, DropRow, MarkOrphaned, MarkReachable, Ends
<1>8. CASE Crash(r)
  BY <1>0, <1>2, <1>8 DEF Crash, Ends
<1>9. CASE \E q \in Sessions \ {r} : (q \in Requests /\ (NewRequest(q) \/ RequestStep(q))) \/ Crash(q)
  BY <1>0, <1>1, <1>9, Own
<1>10. CASE \/ CronStep \/ UNCHANGED vars
            \/ \E n \in Names : HandleRepositoryDeleted(n) \/ NewsLost(n) \/ OutsideDelete(n)
  BY <1>1, <1>10, ScriptOwn
<1>11. CASE \E q \in Requests : NewRequest(q) \/ RequestStep(q)
  <2>1. PICK q \in Requests : NewRequest(q) \/ RequestStep(q)
    BY <1>11
  <2>2. CASE q = r
    BY <1>4, <1>5, <1>6, <1>7, <2>1, <2>2 DEF RequestStep
  <2>3. CASE q # r
    BY <1>9, <2>1, <2>3 DEF Sessions
  <2> QED
    BY <2>2, <2>3
<1>12. CASE \E q \in Sessions : Crash(q)
  BY <1>8, <1>9, <1>12
<1> QED
  BY <1>10, <1>11, <1>12 DEF Next, Step

\* What the script has listed and found gone.
Remembers ==
  /\ \A x \in session'[Cron].listed : x \in session[Cron].listed \/ x \in Listed(OrgNames)
  /\ \A x \in session'[Cron].gone :
       x \in session[Cron].gone
         \/ (x \in session[Cron].listed /\ ~Sees(Cron, x[2]) /\ UNCHANGED repo)
  /\ session'[Cron].gone # {} => At(Cron, "check")'

LEMMA ScriptSteps ==
  ASSUME Typed, Known, [Next]_vars
  PROVE  Remembers
<1>0. /\ session \in [Sessions -> Session] /\ session[Cron] \in Session
      /\ Cron \in Sessions /\ Cron \notin Requests
  BY ProvisioningAssumption DEF Sessions, Typed, TypeOK
<1>1. ASSUME session'[Cron] = session[Cron] PROVE Remembers
  BY <1>1 DEF Remembers, Known, At
<1>2. ASSUME session' = [session EXCEPT ![Cron] = Resting] PROVE Remembers
  BY <1>0, <1>2 DEF Remembers, Resting
<1>3. CASE Reconcile
  BY <1>0, <1>3 DEF Reconcile, Begin, Remembers, Resting
<1>4. CASE CheckRepo(Cron) \/ CheckInconclusive(Cron)
  <2>1. UNCHANGED repo
    BY <1>4 DEF CheckRepo, CheckInconclusive
  <2> QED
    BY <1>0, <1>4, <2>1, CheckTypes DEF Remembers, At
<1>5. CASE DeleteGone
  <2>1. PICK x \in session[Cron].gone : session' = [session EXCEPT ![Cron].gone = @ \ {x}]
    BY <1>5 DEF DeleteGone
  <2>2. /\ session'[Cron].listed = session[Cron].listed /\ session'[Cron].gone = session[Cron].gone \ {x}
        /\ session'[Cron].at = session[Cron].at /\ At(Cron, "check")
    BY <1>0, <1>5, <2>1 DEF Session, DeleteGone
  <2> QED
    BY <2>2 DEF Remembers, At
<1>6. CASE ReconcileEnds
  BY <1>2, <1>6 DEF ReconcileEnds
<1>7. CASE \E q \in Sessions : (q \in Requests /\ (NewRequest(q) \/ RequestStep(q))) \/ Crash(q)
  <2>1. CASE Crash(Cron)
    BY <1>2, <2>1 DEF Crash
  <2> QED
    BY <1>0, <1>1, <1>7, <2>1, Own
<1>8. CASE \/ UNCHANGED vars
           \/ \E n \in Names : HandleRepositoryDeleted(n) \/ NewsLost(n) \/ OutsideDelete(n)
  BY <1>1, <1>8 DEF HandleRepositoryDeleted, NewsLost, OutsideDelete, vars
<1> QED
  BY <1>3, <1>4, <1>5, <1>6, <1>7, <1>8 DEF Next, Step, CronStep, Sessions

\* The repository of a creation is its own until its name is given again.
LEMMA OwnsStays ==
  ASSUME Typed, Known, [Next]_vars, NEW r \in Requests,
         session'[r].at \in AtWork, Creating(r)', Exists(Target(r))'
  PROVE  (repo[Target(r)].maker = r \/ <<r, Target(r)>> \in renewed)'
<1>0. r \in Sessions /\ Knows(r)'
  BY DEF Sessions, Knows, AtWork, Saga, Undoing
<1>1. Target(r)' \in Names
  <2>1. Typed'
    BY NextTypes
  <2>2. Aim(session'[r]) /\ session'[r] \in Session
    BY <1>0, <2>1 DEF Typed, TypeOK, Aimed, Aim
  <2> QED
    BY <2>2 DEF Aim, Target, AtWork, Session
<1>2. CASE session[r].at \in AtWork /\ Same(r)
  <2>1. PICK n \in Names : n = Target(r) /\ n = Target(r)' /\ Creating(r)
    BY <1>1, <1>2, SameTarget
  <2>2. Exists(n)'
    BY <2>1 DEF Exists
  <2>3. CASE Exists(n)
    <3>1. repo[n].maker = r \/ <<r, n>> \in renewed
      BY <1>2, <2>1, <2>3 DEF Known, Owns
    <3>2. repo'[n].maker = repo[n].maker
      BY <2>2, <2>3, RepoSteps DEF Stays, Goes, Comes, CreateRepo, Exists, Absent
    <3>3. <<r, n>> \in renewed => <<r, n>> \in renewed'
      BY <1>0, <2>2, <2>3, Marked
    <3> QED
      BY <2>1, <3>1, <3>2, <3>3
  <2>4. CASE ~Exists(n)
    <3>1. repo'[n].maker # r => <<r, n>> \in renewed'
      BY <1>0, <2>2, <2>4, Marked
    <3> QED
      BY <2>1, <3>1
  <2> QED
    BY <2>3, <2>4
<1>3. CASE CreateRepo(r) /\ Same(r)
  <2>1. Target(r)' = Target(r)
    BY <1>3, SameTarget
  <2>2. repo'[Target(r)].maker = r
    BY <1>1, <1>3, <2>1 DEF CreateRepo, Absent, Typed, TypeOK
  <2> QED
    BY <2>1, <2>2
<1>4. ~Picked(r)
  BY DEF Picked, Creating, Creations
<1> QED
  BY <1>2, <1>3, <1>4, WorkSteps

LEMMA NextKnown ==
  ASSUME Typed, Known, [Next]_vars
  PROVE  Known'
<1>0. Typed' /\ Cron \in Sessions /\ Cron \notin Requests /\ OrgNames \subseteq Names
  BY NextTypes, ProvisioningAssumption DEF Sessions
<1>1. ASSUME NEW r \in Requests PROVE Owns(r)'
  BY OwnsStays DEF Owns
<1>2. ASSUME NEW x \in session'[Cron].listed \cup session'[Cron].gone PROVE x[2] \in OrgNames
  <2>1. x \in Listed(OrgNames) => x[2] \in OrgNames
    BY DEF Listed
  <2> QED
    BY <2>1, ScriptSteps DEF Remembers, Known
<1>3. ASSUME NEW x \in session'[Cron].gone, Exists(x[2])' PROVE <<Cron, x[2]>> \in renewed'
  <2>1. PICK n \in Names : n = x[2] /\ n \in OrgNames
    BY <1>0, <1>2
  <2>2. Exists(n)' /\ Knows(Cron)'
    BY <1>3, <2>1, ScriptSteps DEF Exists, Knows, At, Remembers
  <2>3. CASE Exists(n)
    <3>1. x \in session[Cron].gone
      BY <2>1, <2>2, <2>3, ScriptSteps DEF Remembers, Sees, Exists
    <3>2. <<Cron, n>> \in renewed
      BY <2>1, <2>3, <3>1 DEF Known, Exists
    <3> QED
      BY <1>0, <2>1, <2>2, <2>3, <3>2, Marked
  <2>4. CASE ~Exists(n)
    <3>1. repo'[n].maker # Cron
      BY <1>0, <2>2, <2>4, Makers
    <3> QED
      BY <1>0, <2>1, <2>2, <2>4, <3>1, Marked
  <2> QED
    BY <2>3, <2>4
<1>4. session'[Cron].gone # {} => At(Cron, "check")'
  BY ScriptSteps DEF Remembers
<1> QED
  BY <1>1, <1>2, <1>3, <1>4 DEF Known

LEMMA InitKnown == Init => Known
<1> SUFFICES ASSUME Init PROVE Known
  OBVIOUS
<1>1. /\ \A r \in Requests : session[r].at = "idle"
      /\ session[Cron].listed = {} /\ session[Cron].gone = {}
  BY DEF Init, Sessions, Resting
<1>2. \A r \in Requests : Owns(r)
  BY <1>1 DEF Owns, AtWork, Saga, Undoing
<1> QED
  BY <1>1, <1>2 DEF Known

\* A creation fails only by taking its repository back, or finding it gone.
LEMMA FailSteps ==
  ASSUME Typed, [Next]_vars, NEW r \in Requests,
         session'[r].at = "failed", session'[r].kind \in Creations
  PROVE  \/ session'[r] = session[r]
         \/ /\ session'[r].name = session[r].name /\ session[r].name \in Names
            /\ ~Exists(session[r].name)'
<1>0. /\ r \in Sessions /\ r # Cron
      /\ session \in [Sessions -> Session] /\ session[r] \in Session
  BY ProvisioningAssumption DEF Sessions, Typed, TypeOK
<1>1. ASSUME NEW outcome \in {"done", "refused", "abandoned"}, End(r, outcome) \/ EndSaga(r, outcome)
      PROVE  FALSE
  BY <1>0, <1>1, EndMoves, EndSagaMoves DEF Ends
<1>2. CASE NewRequest(r)
  <2>1. CASE SetupProject(r)
    <3>1. session'[r].at = "row"
      BY <1>0, <2>1 DEF SetupProject, Begin, Resting
    <3> QED
      BY <3>1
  <2>2. CASE CreateProject(r) \/ Disconnect(r) \/ DisconnectAndDelete(r) \/ SyncProjects(r)
    <3>1. \A s : Begin(r, s) => session'[r] = s
      BY <1>0 DEF Begin
    <3>2. CreateProject(r) => session'[r].at = "repo"
      BY <3>1 DEF CreateProject, Resting
    <3>3. Disconnect(r) => session'[r].at = "done"
      BY <3>1 DEF Disconnect, Resting
    <3>4. DisconnectAndDelete(r) => session'[r].at = "ghdelete"
      BY <3>1 DEF DisconnectAndDelete, Resting
    <3>5. SyncProjects(r) => session'[r].at = "check"
      BY <3>1 DEF SyncProjects, Resting
    <3> QED
      BY <2>2, <3>2, <3>3, <3>4, <3>5
  <2> QED
    BY <1>2, <2>1, <2>2 DEF NewRequest
<1>3. CASE SagaStep(r)
  <2>1. CASE CreateRepo(r)
    BY <1>0, <1>1, <2>1, ContinueMoves DEF CreateRepo, At, Saga
  <2>2. CASE \/ InsertRow(r) \/ IssueToken(r) \/ SetSecret(r) \/ PushWorkflow(r) \/ UpdateStatus(r)
             \/ MakeBranches(r) \/ StepFails(r)
    <3>1. session[r].at \in Saga \ {"second"}
      BY <2>2 DEF InsertRow, IssueToken, SetSecret, PushWorkflow, UpdateStatus, MakeBranches, StepFails, At, Saga
    <3>2. Continue(r) \/ GiveUp(r)
      BY <2>2 DEF InsertRow, IssueToken, SetSecret, PushWorkflow, UpdateStatus, MakeBranches, StepFails, Answered
    <3> QED
      BY <1>0, <3>1, <3>2, ContinueMoves, GiveUpMoves DEF Saga, Creating
  <2>3. CASE UndoRow(r)
    BY <1>0, <2>3 DEF UndoRow, Goto
  <2>4. CASE CreateRepoRefused(r) \/ InsertSecondRow(r)
    BY <1>1, <2>4 DEF CreateRepoRefused, InsertSecondRow
  <2>5. CASE UndoSecret(r)
    <3>1. ~Creating(r)
      BY <1>0, <2>5 DEF UndoSecret, At, Typed, Aimed, Aim, Creating
    <3> QED
      BY <1>0, <2>5, <3>1, EndMoves DEF UndoSecret, Ends, Creating
  <2>6. CASE UndoRepo(r)
    <3>1. EndSaga(r, "failed") /\ (DeleteRepo(Target(r)) \/ (~Exists(Target(r)) /\ UNCHANGED repo))
      BY <1>1, <2>6 DEF UndoRepo
    <3>2. session[r].part = 1 /\ session'[r].name = session[r].name
      BY <1>0, <3>1, EndSagaMoves DEF Ends, Session
    <3>3. Target(r) = session[r].name /\ Target(r) \in Names
      BY <2>6, <3>2, Targets DEF UndoRepo, At, Undoing, Target
    <3>4. repo'[session[r].name].maker = NoOne
      BY <3>1, <3>3 DEF DeleteRepo, Exists, Absent, Typed, TypeOK
    <3> QED
      BY <3>2, <3>3, <3>4 DEF Exists
  <2> QED
    BY <1>3, <2>1, <2>2, <2>3, <2>4, <2>5, <2>6 DEF SagaStep
<1>4. CASE CheckRepo(r) \/ CheckInconclusive(r)
  BY <1>0, <1>4, CheckTypes
<1>5. CASE DeleteRepoForUser(r) \/ DropRow(r) \/ MarkOrphaned(r) \/ MarkReachable(r)
  <2>1. ~(Goto(r, "drop") \/ Goto(r, "reach"))
    BY <1>0 DEF Goto, Session
  <2> QED
    BY <1>1, <1>5, <2>1 DEF DeleteRepoForUser, DropRow, MarkOrphaned, MarkReachable
<1>6. CASE Crash(r)
  BY <1>0, <1>1, <1>6 DEF Crash
<1>7. CASE \E q \in Requests : NewRequest(q) \/ RequestStep(q)
  BY <1>0, <1>2, <1>3, <1>4, <1>5, <1>7, Own DEF Sessions, RequestStep
<1>8. CASE \E q \in Sessions : Crash(q)
  BY <1>0, <1>6, <1>8, Own
<1>9. CASE \/ CronStep \/ UNCHANGED vars
           \/ \E n \in Names : HandleRepositoryDeleted(n) \/ NewsLost(n) \/ OutsideDelete(n)
  BY <1>9, ScriptOwn
<1> QED
  BY <1>7, <1>8, <1>9 DEF Next, Step

LEMMA NextFailed ==
  ASSUME Typed, Failed, [Next]_vars
  PROVE  Failed'
<1> SUFFICES ASSUME NEW r \in Requests, At(r, "failed")', Creating(r)'
             PROVE  session'[r].name \in Names /\ repo'[session'[r].name].maker # r
  BY DEF Failed
<1>1. r # NoOne /\ session'[r].at = "failed" /\ session'[r].kind \in Creations
  BY ProvisioningAssumption DEF At, Creating
<1>2. CASE session'[r] = session[r]
  <2> DEFINE n == session[r].name
  <2>1. n \in Names /\ repo[n].maker # r /\ At(r, "failed")
    BY <1>1, <1>2 DEF Failed, At, Creating
  <2> HIDE DEF n
  <2>2. ASSUME Stays(n) PROVE repo'[n].maker # r
    BY <2>1, <2>2 DEF Stays
  <2>3. ASSUME Goes(n) PROVE repo'[n].maker # r
    BY <1>1, <2>3 DEF Goes, Absent
  <2>4. ASSUME Comes(n) PROVE repo'[n].maker # r
    <3>1. PICK q \in Requests : CreateRepo(q) /\ n = Target(q)
      BY <2>4 DEF Comes
    <3>2. q # r
      BY <2>1, <3>1 DEF CreateRepo, At
    <3>3. repo'[n].maker = q
      BY <2>1, <3>1 DEF CreateRepo, Absent, Typed, TypeOK
    <3> QED
      BY <3>2, <3>3
  <2>5. repo'[n].maker # r
    BY <2>1, <2>2, <2>3, <2>4, RepoSteps
  <2> QED
    BY <1>2, <2>1, <2>5 DEF n
<1>3. CASE /\ session'[r].name = session[r].name /\ session[r].name \in Names
           /\ ~Exists(session[r].name)'
  BY <1>1, <1>3 DEF Exists
<1> QED
  BY <1>1, <1>2, <1>3, FailSteps

-----------------------------------------------------------------------------
(* The theorems.                                                           *)

\* These write rows and delete none.
KeepingRows(r) == IssueToken(r) \/ UpdateStatus(r) \/ InsertRow(r) \/ InsertSecondRow(r)
                  \/ MarkOrphaned(r) \/ MarkReachable(r)

LEMMA RowsKept ==
  ASSUME Typed, NEW r \in Requests, KeepingRows(r), NEW p \in Tracked
  PROVE  row'[p] # NoRow
<1>0. p \in Project /\ row[p] # NoRow /\ row \in [Project -> Row]
  BY DEF Tracked, Typed, TypeOK
<1>1. CASE MarkOrphaned(r) \/ MarkReachable(r)
  <2>1. \E ps : \E status \in {"provisioned", "orphaned"} : SetStatus(ps, status)
    BY <1>1 DEF MarkOrphaned, MarkReachable
  <2> QED
    BY <1>0, <2>1 DEF SetStatus, NoRow, Row
<1>2. CASE row' # row /\ (IssueToken(r) \/ UpdateStatus(r) \/ InsertRow(r) \/ InsertSecondRow(r))
  <2>1. \E i \in Project : \E v \in {[row[i] EXCEPT !.token = TRUE], [row[i] EXCEPT !.status = "provisioned"],
            [name |-> Target(r), status |-> "provisioned", token |-> FALSE],
            [name |-> session[r].name, status |-> "provisioned", token |-> FALSE]} :
          row' = [row EXCEPT ![i] = v]
    <3>1. Id(r) \in Project /\ <<r, 2>> \in Project
      BY Targets DEF Project
    <3>2. CASE IssueToken(r) \/ UpdateStatus(r)
      BY <1>0, <1>2, <3>1, <3>2 DEF IssueToken, UpdateStatus
    <3>3. CASE InsertRow(r) \/ InsertSecondRow(r)
      BY <1>0, <1>2, <3>1, <3>3 DEF InsertRow, InsertSecondRow, Insert
    <3> QED
      BY <1>2, <3>2, <3>3
  <2> QED
    BY <1>0, <2>1 DEF NoRow, Row
<1>3. CASE row' = row
  BY <1>0, <1>3
<1> QED
  BY <1>1, <1>2, <1>3 DEF KeepingRows

\* A row that goes while every request stands still goes by its name.
LEMMA DeletedByName ==
  ASSUME Typed, [Next]_vars, NEW p \in Tracked, row'[p] = NoRow,
         \A r \in Requests : session'[r] = session[r]
  PROVE  \/ row[p].name \in Names /\ news'[row[p].name] < news[row[p].name]
         \/ \E x \in session[Cron].gone : row[p].name = x[2]
<1>0. /\ p \in Project /\ row[p] # NoRow /\ row' # row
      /\ session \in [Sessions -> Session] /\ Requests \subseteq Sessions
      /\ row \in [Project -> Row]
  BY DEF Tracked, Sessions, Typed, TypeOK
<1>1. ASSUME NEW r \in Requests, KeepingRows(r) PROVE FALSE
  BY <1>1, RowsKept
<1>3. ASSUME NEW r \in Requests, Disconnect(r) \/ UndoRow(r) \/ DropRow(r)
      PROVE  FALSE
  <2>1. CASE Disconnect(r)
    BY <1>0, <2>1 DEF Disconnect, Begin, At, Resting
  <2>2. CASE UndoRow(r)
    <3>1. At(r, "unrow") /\ (Goto(r, "unrepo") \/ Goto(r, "unsecret"))
      BY <2>2 DEF UndoRow
    <3>2. session'[r].at \in {"unrepo", "unsecret"}
      BY <1>0, <3>1 DEF Goto, Session, Typed, TypeOK
    <3> QED
      BY <1>0, <3>1, <3>2 DEF At
  <2>3. CASE DropRow(r)
    BY <1>0, <2>3, EndMoves DEF DropRow, At, Ends
  <2> QED
    BY <1>3, <2>1, <2>2, <2>3
<1>4. ASSUME NEW r \in Requests, NewRequest(r) \/ RequestStep(r) PROVE FALSE
  <2>1. KeepingRows(r) \/ Disconnect(r) \/ UndoRow(r) \/ DropRow(r)
    BY <1>0, <1>4 DEF KeepingRows, NewRequest, CreateProject, SetupProject, DisconnectAndDelete, SyncProjects,
         RequestStep, SagaStep, CreateRepo, CreateRepoRefused, SetSecret, PushWorkflow, MakeBranches,
         StepFails, UndoRepo, UndoSecret, DeleteRepoForUser, CheckRepo, CheckInconclusive
  <2> QED
    BY <1>1, <1>3, <2>1
<1>5. CASE DeleteGone
  <2>1. PICK x \in session[Cron].gone : Delete(Named(x[2]))
    BY <1>5 DEF DeleteGone, DeleteByRepoFullName
  <2> QED
    BY <1>0, <2>1 DEF Delete, Named
<1>6. CASE \E n \in Names : HandleRepositoryDeleted(n)
  <2>1. PICK n \in Names : news' = [news EXCEPT ![n] = @ - 1] /\ Delete(Named(n))
    BY <1>6 DEF HandleRepositoryDeleted, DeleteByRepoFullName
  <2>2. news'[n] < news[n]
    BY <2>1 DEF Typed, TypeOK
  <2> QED
    BY <1>0, <2>1, <2>2 DEF Delete, Named
<1>7. ~(\/ Reconcile \/ CheckRepo(Cron) \/ CheckInconclusive(Cron) \/ ReconcileEnds
        \/ (\E r \in Sessions : Crash(r)) \/ UNCHANGED vars
        \/ \E n \in Names : NewsLost(n) \/ OutsideDelete(n))
  BY <1>0 DEF Reconcile, CheckRepo, CheckInconclusive, ReconcileEnds, Crash, vars, NewsLost, OutsideDelete
<1> QED
  BY <1>4, <1>5, <1>6, <1>7 DEF Next, Step, CronStep

LEMMA InvariantKnown == Spec => [](Typed /\ Known)
<1>1. Init => Typed /\ Known
  BY InitTyped, InitKnown
<1>2. (Typed /\ Known) /\ [Next]_vars => (Typed /\ Known)'
  BY NextTypes, NextKnown
<1> QED
  BY <1>1, <1>2, PTL DEF Spec

\* The webhook and the script delete a project only when its repository is gone, or when
\* they speak of an earlier repository of its name: whoever creates, sets up or
\* disconnects projects meanwhile, and however often a name is given.
THEOREM LiveKept == Spec => LiveProjectsKept
<1>1. ASSUME Typed, Known, [Next]_vars, NEW p \in Tracked, Wrongs(p)
      PROVE  news'[row[p].name] < news[row[p].name] \/ <<Cron, row[p].name>> \in renewed
  BY <1>1, DeletedByName DEF Wrongs, Known
<1>2. Typed /\ Known /\ [Next]_vars
        => [\A p \in Tracked :
              Wrongs(p) => \/ news'[row[p].name] < news[row[p].name]
                           \/ <<Cron, row[p].name>> \in renewed]_vars
  BY <1>1
<1> QED
  BY <1>2, InvariantKnown, PTL DEF Spec, LiveProjectsKept

\* A compensation deletes no repository but the one its own request created, or one that
\* was given the name after that was gone.
THEOREM Spared == Spec => CompensationSparesOthers
<1>1. ASSUME Typed, Known, [Next]_vars, NEW r \in Requests, NEW n \in Names,
             At(r, "unrepo"), session'[r] # session[r], Exists(n), repo'[n] = Absent
      PROVE  repo[n].maker = r \/ <<r, n>> \in renewed
  <2>0. r \in Sessions /\ Creating(r) /\ repo \in [Names -> Repository]
    BY <1>1 DEF Sessions, Typed, TypeOK, Aimed, Aim, At, Creating
  <2>1. \/ NewRequest(r) \/ RequestStep(r) \/ Crash(r)
    BY <1>1, <2>0, Own, ScriptOwn DEF Next, Step, Sessions
  <2>2. UNCHANGED repo \/ UndoRepo(r)
    BY <1>1, <2>1 DEF At, NewRequest, CreateProject, SetupProject, Disconnect, DisconnectAndDelete, SyncProjects,
         RequestStep, SagaStep, CreateRepo, CreateRepoRefused, InsertRow, IssueToken, SetSecret, PushWorkflow,
         UpdateStatus, MakeBranches, InsertSecondRow, StepFails, UndoRow, UndoSecret,
         DeleteRepoForUser, DropRow, CheckRepo, CheckInconclusive, MarkOrphaned, MarkReachable, Crash
  <2>3. repo' # repo
    BY <1>1 DEF Exists, Absent
  <2>4. DeleteRepo(Target(r))
    BY <2>2, <2>3 DEF UndoRepo
  <2>5. n = Target(r)
    BY <1>1, <2>0, <2>4 DEF DeleteRepo, Exists, Absent
  <2> QED
    BY <1>1, <2>0, <2>5 DEF Known, Owns, AtWork, Undoing, At
<1>2. Typed /\ Known /\ [Next]_vars
        => [\A r \in Requests, n \in Names :
              At(r, "unrepo") /\ session'[r] # session[r] /\ Exists(n) /\ repo'[n] = Absent
                => repo[n].maker = r \/ <<r, n>> \in renewed]_vars
  BY <1>1
<1> QED
  BY <1>2, InvariantKnown, PTL DEF Spec, CompensationSparesOthers

\* A creation that failed, and whose compensation was not refused, leaves no repository
\* of its own, however often the name is used.
THEOREM FailedClean == Spec => []FailedLeavesNoRepo
<1>1. Init => Typed /\ Failed
  <2>1. Init => Failed
    BY DEF Init, Failed, At, Resting, Sessions
  <2> QED
    BY <2>1, InitTyped
<1>2. (Typed /\ Failed) /\ [Next]_vars => (Typed /\ Failed)'
  BY NextTypes, NextFailed
<1>3. Failed => FailedLeavesNoRepo
  BY DEF Failed, FailedLeavesNoRepo
<1> QED
  BY <1>1, <1>2, <1>3, PTL DEF Spec

-----------------------------------------------------------------------------
(* What is tracked, and what is pushed.  A row is inserted once, so that    *)
(* what was read of it stays so until it is deleted.                        *)

\* Whether request r has its k-th row still to insert.
Ahead(r, k) ==
  \/ At(r, "idle")
  \/ session[r].at \in Saga /\ session[r].part < k
  \/ session[r].at \in {"repo", "row"} /\ session[r].part = k
ToCome(p) == \E r \in Requests, k \in {1, 2} : p = <<r, k>> /\ Ahead(r, k)

\* Project p has, for as long as it is tracked, the name n.
Pinned(p, n) == ~ToCome(p) /\ (p \in Tracked => row[p].name = n)

\* What a request is at and what it is.
Kind(s) ==
  /\ s.at = "idle" => s = Resting
  /\ s.at = "unsecret" => s.kind = "setup" /\ s.part = 1
  /\ s.at \in Saga \cup Undoing => s.kind \in Creations \cup {"setup"}
  /\ s.kind \notin {"multi-repo"} \/ s.at \in Ends => s.part = 1
  /\ s.at \in {"ghdelete", "drop"} => s.kind = "delete" /\ s.project \in Project
  /\ s.at \in {"check", "reach"} => s.kind = "sync"
  /\ s.kind \in Creations => s.name \in Names
  /\ s.at \in Saga => s.name # s.twin
  /\ s.gone # {} => s.at \in {"check", "reach"}

\* What a request has read of the projects it is about to delete or to mark.
Reads(r) ==
  /\ session[r].at \in {"ghdelete", "drop"} => Pinned(session[r].project, session[r].name)
  /\ \A x \in session[r].listed \cup session[r].gone : Pinned(x[1], x[2])
  /\ \A x \in session[r].gone : Exists(x[2]) => x[2] \in Unseen \/ <<r, x[2]>> \in renewed

\* Somebody disconnected it; somebody else sets it up.
Disowned(n) == \E q \in Requests : session[q].kind \in {"disconnect", "delete"} /\ session[q].name = n
Rivalled(r, n) == \E q \in Requests \ {r} : session[q].kind = "setup" /\ session[q].name = n

\* A creation past its first row.
Placed(r) ==
  /\ Creating(r)
  /\ \/ session[r].at \in {"token", "secret", "workflow", "status", "branches", "second", "done"}
     \/ session[r].part = 2
Held(r) ==
  Placed(r) /\ repo[session[r].name].maker = r
    => \/ <<r, 1>> \in Tracked /\ row[<<r, 1>>].name = session[r].name
       \/ Disowned(session[r].name)
       \/ session[r].name \in wronged

Armed(r) ==
  At(r, "workflow") /\ Exists(Target(r))
    => repo[Target(r)].token # NoOne \/ Rivalled(r, Target(r)) \/ <<r, Target(r)>> \in renewed

RowsOnce == \A p \in Tracked : ~ToCome(p)
Kinded == \A r \in Requests : Kind(session[r])
ReadsHold == \A r \in Requests : Reads(r)
AllHeld == \A r \in Requests : Held(r)
AllArmed == \A r \in Requests : Armed(r)
Tracking == RowsOnce /\ Kinded /\ ReadsHold /\ AllHeld /\ AllArmed

\* The step of a request is its own, and leaves the others'.
LEMMA Acts ==
  ASSUME Typed, [Next]_vars, NEW r \in Requests
  PROVE  session'[r] = session[r] \/ NewRequest(r) \/ RequestStep(r) \/ Crash(r)
<1>0. r \in Sessions
  BY DEF Sessions
<1>1. CASE \E q \in Requests : NewRequest(q) \/ RequestStep(q)
  BY <1>0, <1>1, Own DEF Sessions
<1>2. CASE \E q \in Sessions : Crash(q)
  BY <1>0, <1>2, Own
<1>3. CASE \/ CronStep \/ UNCHANGED vars
           \/ \E n \in Names : HandleRepositoryDeleted(n) \/ NewsLost(n) \/ OutsideDelete(n)
  BY <1>3, ScriptOwn
<1> QED
  BY <1>1, <1>2, <1>3 DEF Next, Step

\* What a session keeps until it ends, and what it has listed.
Keeps(r) ==
  /\ session'[r].kind = session[r].kind /\ session'[r].name = session[r].name
  /\ session'[r].listed \subseteq session[r].listed /\ session'[r].gone \subseteq session[r].gone

Ended(r, outcome) ==
  /\ Keeps(r)
  /\ session'[r].at = outcome /\ session'[r].part = 1 /\ session'[r].gone = {}

LEMMA EndEnds ==
  ASSUME Typed, NEW r \in Requests, NEW outcome \in Ends, End(r, outcome)
  PROVE  Ended(r, outcome)
<1> DEFINE s == [Resting EXCEPT !.at = outcome, !.kind = session[r].kind, !.name = session[r].name]
<1>1. session'[r] = s
  BY DEF End, Typed, TypeOK, Sessions
<1>2. /\ s.at = outcome /\ s.kind = session[r].kind /\ s.name = session[r].name /\ s.part = 1
      /\ s.listed = {} /\ s.gone = {}
  BY DEF Resting
<1> QED
  BY <1>1, <1>2 DEF Ended, Keeps

\* Where a step that succeeded leads, in full.
Onward(r) ==
  \/ /\ Ended(r, "done") /\ (~Creating(r) \/ At(r, "branches"))
  \/ /\ Keeps(r)
     /\ At(r, "branches") /\ session[r].kind = "multi-repo" /\ session[r].part = 1
     /\ session'[r].at = "repo" /\ session'[r].part = 2 /\ session'[r].twin = session[r].twin
  \/ /\ Keeps(r)
     /\ session'[r].part = session[r].part /\ session'[r].twin = session[r].twin
     /\ session'[r].at = After(r) /\ session'[r].at \in Saga \ {"repo"}
     /\ session'[r].at = "second" => session[r].part = 1
     /\ session'[r].at = "branches" => Creating(r)

LEMMA ContinueOnward ==
  ASSUME Typed, NEW r \in Requests, session[r].at \in Saga \ {"second"}, Continue(r)
  PROVE  Onward(r)
<1>0. r \in Sessions /\ session[r] \in Session /\ session \in [Sessions -> Session]
  BY DEF Sessions, Typed, TypeOK
<1>1. CASE After(r) = "done"
  <2>1. ~Creating(r) \/ At(r, "branches")
    BY <1>1 DEF After, At, Saga
  <2> QED
    BY <1>1, <2>1, EndEnds DEF Continue, Ends, Onward
<1>2. CASE After(r) # "done"
  <2> DEFINE part == IF At(r, "branches") /\ After(r) = "repo" THEN 2 ELSE session[r].part
             known == At(r, "row") \/ (session[r].known /\ ~At(r, "branches"))
             s == [session[r] EXCEPT !.at = After(r), !.part = part, !.known = known]
  <2>1. session'[r] = s
    BY <1>0, <1>2 DEF Continue
  <2> HIDE DEF part, known
  <2>2. /\ s.at = After(r) /\ s.kind = session[r].kind /\ s.name = session[r].name
        /\ s.part = part /\ s.listed = session[r].listed /\ s.gone = session[r].gone
        /\ s.twin = session[r].twin
    BY <1>0 DEF Session
  <2> HIDE DEF s
  <2>3. After(r) \in Saga
    BY <1>2 DEF After, Saga
  <2>4. After(r) = "repo" => At(r, "branches") /\ session[r].kind = "multi-repo" /\ session[r].part = 1
    BY DEF After, At, Creating, Saga
  <2>5. After(r) = "second" => session[r].part = 1
    BY DEF After, At, Creating, Saga
  <2>6. After(r) = "branches" => Creating(r)
    BY DEF After, At
  <2>7. part = IF After(r) = "repo" THEN 2 ELSE session[r].part
    BY <2>4 DEF part
  <2> QED
    BY <2>1, <2>2, <2>3, <2>4, <2>5, <2>6, <2>7 DEF Onward, Keeps
<1> QED
  BY <1>1, <1>2

\* Only where it is changes.
Turned(r, pc) == Keeps(r) /\ session'[r].at = pc /\ session'[r].part = session[r].part
                 /\ session'[r].project = session[r].project

LEMMA GotoTurns ==
  ASSUME Typed, NEW r \in Requests, NEW pc, Goto(r, pc)
  PROVE  Turned(r, pc)
<1>0. session[r] \in Session /\ session'[r] = [session[r] EXCEPT !.at = pc]
  BY DEF Goto, Sessions, Typed, TypeOK
<1> QED
  BY <1>0 DEF Turned, Keeps, Session

LEMMA GiveUpTurns ==
  ASSUME Typed, NEW r \in Requests, session[r].at \in Saga, GiveUp(r)
  PROVE  \/ Ended(r, "failed") /\ ~Creating(r)
         \/ Turned(r, "unrow")
         \/ Turned(r, "unrepo") /\ Creating(r)
BY EndEnds, GotoTurns DEF GiveUp, Undo, Ends

LEMMA SagaTurns ==
  ASSUME Typed, NEW r \in Requests, SagaStep(r)
  PROVE  \/ session[r].at \in Saga \ {"second"} /\ Onward(r)
         \/ session[r].at \in Saga /\ (Turned(r, "unrow") \/ (Turned(r, "unrepo") /\ Creating(r)))
         \/ UndoRow(r) /\ ((Turned(r, "unrepo") /\ Creating(r)) \/ (Turned(r, "unsecret") /\ ~Creating(r)))
         \/ /\ session[r].at \in Saga \cup Undoing
            /\ \E outcome \in Ends :
                 Ended(r, outcome) /\ (outcome = "done" => session[r].part = 2 \/ At(r, "second"))
<1> DEFINE Closed == \E outcome \in Ends :
             Ended(r, outcome) /\ (outcome = "done" => session[r].part = 2 \/ At(r, "second"))
<1>1. ASSUME NEW outcome \in Ends \ {"done"}, End(r, outcome) \/ EndSaga(r, outcome) PROVE Closed
  <2>1. CASE End(r, outcome)
    BY <1>1, <2>1, EndEnds
  <2>2. CASE EndSaga(r, outcome)
    BY <1>1, <2>2, EndEnds DEF EndSaga, Ends
  <2> QED
    BY <1>1, <2>1, <2>2
<1>2. CASE CreateRepo(r)
  <2>1. session[r].at \in Saga \ {"second"}
    BY <1>2 DEF CreateRepo, At, Saga
  <2>2. Continue(r) \/ EndSaga(r, "refused")
    BY <1>2 DEF CreateRepo
  <2> QED
    BY <1>1, <2>1, <2>2, ContinueOnward DEF Ends
<1>3. CASE \/ InsertRow(r) \/ IssueToken(r) \/ SetSecret(r) \/ PushWorkflow(r) \/ UpdateStatus(r)
           \/ MakeBranches(r) \/ StepFails(r)
  <2>1. session[r].at \in Saga \ {"second"}
    BY <1>3 DEF InsertRow, IssueToken, SetSecret, PushWorkflow, UpdateStatus, MakeBranches, StepFails, At, Saga
  <2>2. Continue(r) \/ GiveUp(r)
    BY <1>3 DEF InsertRow, IssueToken, SetSecret, PushWorkflow, UpdateStatus, MakeBranches, StepFails, Answered
  <2> QED
    BY <2>1, <2>2, ContinueOnward, GiveUpTurns DEF Ends
<1>4. CASE InsertSecondRow(r)
  <2>1. At(r, "second") /\ Ended(r, "done")
    BY <1>4, EndEnds DEF InsertSecondRow, Ends
  <2> QED
    BY <2>1 DEF At, Saga, Ends
<1>5. CASE CreateRepoRefused(r) \/ UndoRepo(r) \/ UndoSecret(r)
  <2>1. session[r].at \in Saga \cup Undoing
    BY <1>5 DEF CreateRepoRefused, UndoRepo, UndoSecret, At, Saga, Undoing
  <2> QED
    BY <1>1, <1>5, <2>1 DEF CreateRepoRefused, UndoRepo, UndoSecret, Ends
<1>6. CASE UndoRow(r)
  BY <1>6, GotoTurns DEF UndoRow
<1> QED
  BY <1>2, <1>3, <1>4, <1>5, <1>6 DEF SagaStep

\* What a request begins as.
Begun(r) ==
  /\ At(r, "idle") /\ session'[r].part = 1 /\ session'[r].gone = {}
  /\ session'[r].listed \subseteq Listed(Names)
  /\ \/ /\ session'[r].at = "repo" /\ session'[r].kind \in Creations /\ session'[r].name \in Names
        /\ session'[r].name # session'[r].twin
     \/ session'[r].at = "row" /\ session'[r].kind = "setup" /\ session'[r].name # session'[r].twin
     \/ session'[r].at = "done" /\ session'[r].kind = "disconnect"
     \/ /\ session'[r].at = "ghdelete" /\ session'[r].kind = "delete"
        /\ session'[r].project \in Tracked /\ session'[r].name = row[session'[r].project].name
        /\ row' = row
     \/ session'[r].at = "check" /\ session'[r].kind = "sync"

LEMMA NewBegun ==
  ASSUME Typed, NEW r \in Requests, NewRequest(r)
  PROVE  Begun(r)
<1>1. \A s : Begin(r, s) => At(r, "idle") /\ session'[r] = s
  BY DEF Begin, Sessions, Typed, TypeOK
<1>2. CASE CreateProject(r)
  <2>1. PICK kind \in start.kinds[r] \cap Creations, name \in OrgNames, twin \in OrgNames \cup {NoOne} :
          name # twin /\ Begin(r, [Resting EXCEPT !.at = "repo", !.kind = kind, !.name = name, !.twin = twin])
    BY <1>2 DEF CreateProject
  <2> DEFINE s == [Resting EXCEPT !.at = "repo", !.kind = kind, !.name = name, !.twin = twin]
  <2>2. /\ s.at = "repo" /\ s.kind = kind /\ s.name = name /\ s.part = 1 /\ s.gone = {} /\ s.listed = {}
        /\ s.twin = twin
    BY DEF Resting
  <2>3. At(r, "idle") /\ session'[r] = s
    BY <1>1, <2>1
  <2> QED
    BY <2>1, <2>2, <2>3, ProvisioningAssumption DEF Begun
<1>3. CASE SetupProject(r)
  <2>1. PICK name \in OrgNames : Begin(r, [Resting EXCEPT !.at = "row", !.kind = "setup", !.name = name])
    BY <1>3 DEF SetupProject
  <2> DEFINE s == [Resting EXCEPT !.at = "row", !.kind = "setup", !.name = name]
  <2>2. /\ s.at = "row" /\ s.kind = "setup" /\ s.part = 1 /\ s.gone = {} /\ s.listed = {}
        /\ s.name = name /\ s.twin = NoOne
    BY DEF Resting
  <2>3. At(r, "idle") /\ session'[r] = s
    BY <1>1, <2>1
  <2> QED
    BY <2>2, <2>3, ProvisioningAssumption DEF Begun
<1>4. CASE Disconnect(r)
  <2>1. PICK p \in Tracked :
          Begin(r, [Resting EXCEPT !.at = "done", !.kind = "disconnect", !.name = row[p].name, !.project = p])
    BY <1>4 DEF Disconnect
  <2> DEFINE s == [Resting EXCEPT !.at = "done", !.kind = "disconnect", !.name = row[p].name, !.project = p]
  <2>2. s.at = "done" /\ s.kind = "disconnect" /\ s.part = 1 /\ s.gone = {} /\ s.listed = {}
    BY DEF Resting
  <2>3. At(r, "idle") /\ session'[r] = s
    BY <1>1, <2>1
  <2> QED
    BY <2>2, <2>3 DEF Begun
<1>5. CASE DisconnectAndDelete(r)
  <2>1. PICK p \in Tracked :
          Begin(r, [Resting EXCEPT !.at = "ghdelete", !.kind = "delete", !.name = row[p].name, !.project = p])
    BY <1>5 DEF DisconnectAndDelete
  <2> DEFINE s == [Resting EXCEPT !.at = "ghdelete", !.kind = "delete", !.name = row[p].name, !.project = p]
  <2>2. /\ s.at = "ghdelete" /\ s.kind = "delete" /\ s.part = 1 /\ s.gone = {} /\ s.listed = {}
        /\ s.project = p /\ s.name = row[p].name
    BY DEF Resting
  <2>3. At(r, "idle") /\ session'[r] = s /\ row' = row
    BY <1>1, <1>5, <2>1 DEF DisconnectAndDelete
  <2> QED
    BY <2>2, <2>3 DEF Begun
<1>6. CASE SyncProjects(r)
  <2> DEFINE s == [Resting EXCEPT !.at = "check", !.listed = Listed(Names)]
  <2>1. s.at = "check" /\ s.kind = "sync" /\ s.part = 1 /\ s.gone = {} /\ s.listed = Listed(Names)
    BY DEF Resting
  <2>2. At(r, "idle") /\ session'[r] = s
    BY <1>1, <1>6 DEF SyncProjects
  <2> QED
    BY <2>1, <2>2 DEF Begun
<1> QED
  BY <1>2, <1>3, <1>4, <1>5, <1>6 DEF NewRequest

\* A check of a synchronisation.
Checked(r) ==
  /\ At(r, "check") /\ session'[r].at = "check"
  /\ session'[r].kind = session[r].kind /\ session'[r].name = session[r].name
  /\ session'[r].part = session[r].part
  /\ session'[r].listed \subseteq session[r].listed
  /\ \A x \in session'[r].gone :
       x \in session[r].gone \/ (x \in session[r].listed /\ ~Sees(r, x[2]) /\ UNCHANGED repo)

LEMMA CheckChecked ==
  ASSUME Typed, NEW r \in Requests, CheckRepo(r) \/ CheckInconclusive(r)
  PROVE  Checked(r)
<1>0. session[r] \in Session /\ session \in [Sessions -> Session] /\ r \in Sessions
  BY DEF Sessions, Typed, TypeOK
<1>1. CASE CheckInconclusive(r)
  <2>1. PICK x \in session[r].listed :
          session'[r] = [session[r] EXCEPT !.listed = session[r].listed \ {x}]
    BY <1>0, <1>1 DEF CheckInconclusive
  <2> QED
    BY <1>0, <1>1, <2>1 DEF Checked, CheckInconclusive, At, Session
<1>2. CASE CheckRepo(r)
  <2>1. PICK x \in session[r].listed :
          session' = [session EXCEPT ![r].listed = session[r].listed \ {x},
            ![r].there = IF Sees(r, x[2]) THEN session[r].there \cup {x[1]} ELSE session[r].there,
            ![r].gone = IF Sees(r, x[2]) THEN session[r].gone ELSE session[r].gone \cup {x}]
    BY <1>0, <1>2, Zenon DEF CheckRepo
  <2> DEFINE there == IF Sees(r, x[2]) THEN session[r].there \cup {x[1]} ELSE session[r].there
             gone == IF Sees(r, x[2]) THEN session[r].gone ELSE session[r].gone \cup {x}
             listed == session[r].listed \ {x}
  <2>2. session'[r] = [session[r] EXCEPT !.listed = listed, !.there = there, !.gone = gone]
    BY <1>0, <2>1
  <2>3. \A y \in gone : y \in session[r].gone \/ (y \in session[r].listed /\ ~Sees(r, y[2]))
    OBVIOUS
  <2>4. listed \subseteq session[r].listed
    OBVIOUS
  <2> HIDE DEF there, gone, listed
  <2>5. /\ session'[r].at = session[r].at /\ session'[r].kind = session[r].kind
        /\ session'[r].name = session[r].name /\ session'[r].part = session[r].part
        /\ session'[r].listed = listed /\ session'[r].gone = gone
    BY <1>0, <2>2 DEF Session
  <2> QED
    BY <1>2, <2>3, <2>4, <2>5 DEF Checked, CheckRepo, At
<1> QED
  BY <1>1, <1>2

\* All a step can make of a request.
LEMMA SessionSteps ==
  ASSUME Typed, [Next]_vars, NEW r \in Requests
  PROVE  \/ session'[r] = session[r]
         \/ NewRequest(r) /\ Begun(r)
         \/ SagaStep(r)
         \/ Checked(r)
         \/ At(r, "check") /\ Turned(r, "reach")
         \/ At(r, "ghdelete") /\ Turned(r, "drop")
         \/ session[r].at \in {"reach", "drop"} /\ Ended(r, "done")
         \/ session[r].at \notin Ends \cup {"idle"} /\ Ended(r, "abandoned")
<1>1. CASE NewRequest(r)
  BY <1>1, NewBegun
<1>2. CASE DeleteRepoForUser(r) \/ MarkOrphaned(r)
  BY <1>2, GotoTurns DEF DeleteRepoForUser, MarkOrphaned
<1>3. CASE DropRow(r) \/ MarkReachable(r)
  BY <1>3, EndEnds DEF DropRow, MarkReachable, Ends, At
<1>4. CASE Crash(r)
  BY <1>4, EndEnds, ProvisioningAssumption DEF Crash, Ends
<1> QED
  BY <1>1, <1>2, <1>3, <1>4, Acts, CheckChecked DEF RequestStep

LEMMA KindNext ==
  ASSUME Typed, Kinded, [Next]_vars, NEW r \in Requests
  PROVE  Kind(session'[r])
<1>0. /\ Kind(session[r]) /\ session[r] \in Session
      /\ Creating(r) <=> session[r].kind \in Creations
      /\ "setup" \notin Creations /\ "delete" \notin Creations
      /\ "sync" \notin Creations /\ "disconnect" \notin Creations
  BY DEF Kinded, Typed, TypeOK, Sessions, Creating, Creations
<1>1. ASSUME NEW outcome \in Ends, Ended(r, outcome) PROVE Kind(session'[r])
  BY <1>0, <1>1 DEF Kind, Ended, Keeps, Ends, Saga, Undoing
<1>2. CASE session'[r] = session[r]
  BY <1>0, <1>2
<1>3. CASE Begun(r)
  <2>1. session'[r].project \in Tracked => session'[r].project \in Project
    BY DEF Tracked
  <2> QED
    BY <1>0, <1>3, <2>1 DEF Kind, Begun, Saga, Undoing, Ends
<1>4. CASE Checked(r)
  BY <1>0, <1>4 DEF Kind, Checked, At, Saga, Undoing, Ends
<1>5. CASE (At(r, "check") /\ Turned(r, "reach")) \/ (At(r, "ghdelete") /\ Turned(r, "drop"))
  BY <1>0, <1>5 DEF Kind, Turned, Keeps, At, Saga, Undoing, Ends
<1>6. CASE SagaStep(r)
  <2>1. CASE session[r].at \in Saga \ {"second"} /\ Onward(r)
    <3>1. CASE session'[r].at \in Saga
      <4>1. session[r].kind \in Creations \cup {"setup"}
        BY <1>0, <2>1 DEF Kind
      <4>2. session'[r].kind = session[r].kind /\ session'[r].name = session[r].name
        BY <2>1 DEF Onward, Ended, Keeps
      <4>3. session'[r].part = session[r].part \/ session[r].kind = "multi-repo"
        BY <2>1, <3>1 DEF Onward, Ended, Saga
      <4>4. session'[r].name # session'[r].twin
        BY <1>0, <2>1, <3>1, <4>2 DEF Kind, Onward, Ended, Saga
      <4>5. session'[r].gone = {}
        BY <1>0, <2>1 DEF Kind, Onward, Ended, Keeps, Saga
      <4> QED
        BY <1>0, <2>1, <3>1, <4>1, <4>2, <4>3, <4>4, <4>5 DEF Kind, Saga, Ends, Undoing
    <3>2. CASE session'[r].at \notin Saga
      BY <1>1, <2>1, <3>2 DEF Onward, Saga, Ends
    <3> QED
      BY <3>1, <3>2
  <2>2. CASE session[r].at \in Saga /\ (Turned(r, "unrow") \/ (Turned(r, "unrepo") /\ Creating(r)))
    BY <1>0, <2>2 DEF Kind, Turned, Keeps, Saga, Undoing, Ends
  <2>3. CASE UndoRow(r) /\ ((Turned(r, "unrepo") /\ Creating(r)) \/ (Turned(r, "unsecret") /\ ~Creating(r)))
    <3>1. At(r, "unrow")
      BY <2>3 DEF UndoRow
    <3>2. ~Creating(r) => session[r].kind = "setup" /\ session[r].part = 1
      BY <1>0, <3>1 DEF Kind, At, Undoing
    <3> QED
      BY <1>0, <2>3, <3>1, <3>2 DEF Kind, Turned, Keeps, Saga, Undoing, Ends, At
  <2> QED
    BY <1>1, <1>6, <2>1, <2>2, <2>3, SagaTurns
<1> QED
  BY <1>1, <1>2, <1>3, <1>4, <1>5, <1>6, SessionSteps DEF Ends

\* A request that was made is of the kind and the name it is made for, for good.
LEMMA Steady ==
  ASSUME Typed, [Next]_vars, NEW r \in Requests, session[r].at # "idle"
  PROVE  /\ session'[r].kind = session[r].kind /\ session'[r].name = session[r].name
         /\ session'[r].at # "idle"
<1>1. CASE SagaStep(r)
  BY <1>1, SagaTurns DEF Onward, Ended, Turned, Keeps, Saga, Ends
<1>2. CASE ~SagaStep(r)
  BY <1>2, SessionSteps DEF Begun, At, Checked, Turned, Ended, Keeps
<1> QED
  BY <1>1, <1>2

\* What is behind a request stays behind it.
LEMMA AheadSteps ==
  ASSUME Typed, Kinded, [Next]_vars, NEW r \in Requests, NEW k \in {1, 2}, Ahead(r, k)'
  PROVE  Ahead(r, k)
<1>0. Kind(session[r]) /\ session[r] \in Session
  BY DEF Kinded, Typed, TypeOK, Sessions
<1>1. CASE session[r].at = "idle"
  BY <1>1 DEF Ahead, At
<1>2. CASE session'[r] = session[r]
  BY <1>2 DEF Ahead, At
<1>3. CASE session[r].at # "idle" /\ session'[r] # session[r]
  <2>1. session'[r].at \in Saga /\ (session'[r].part < k \/ (session'[r].at \in {"repo", "row"} /\ session'[r].part = k))
    BY <1>3, Steady DEF Ahead, At, Saga
  <2>2. SagaStep(r)
    BY <1>3, <2>1, SessionSteps DEF Begun, At, Checked, Turned, Ended, Saga
  <2>3. session[r].at \in Saga \ {"second"} /\ Onward(r) /\ session'[r].at # "done"
    BY <2>1, <2>2, SagaTurns DEF Turned, Ended, Saga, Ends
  <2>4. CASE session'[r].at = "repo"
    <3>1. session[r].part = 1 /\ session'[r].part = 2
      BY <2>3, <2>4 DEF Onward, Ended
    <3> QED
      BY <2>1, <2>3, <3>1 DEF Ahead
  <2>5. CASE session'[r].at # "repo"
    <3>1. session'[r].part = session[r].part /\ session'[r].at = After(r)
      BY <2>3, <2>5 DEF Onward, Ended
    <3>2. session'[r].at = "row" => session[r].at = "repo"
      BY <2>3, <3>1 DEF After, At, Saga
    <3> QED
      BY <2>1, <2>3, <2>5, <3>1, <3>2 DEF Ahead
  <2> QED
    BY <2>4, <2>5
<1> QED
  BY <1>1, <1>2, <1>3

LEMMA ToComeSteps ==
  ASSUME Typed, Kinded, [Next]_vars, NEW p, ToCome(p)'
  PROVE  ToCome(p)
<1>1. PICK r \in Requests, k \in {1, 2} : p = <<r, k>> /\ Ahead(r, k)'
  BY DEF ToCome
<1> QED
  BY <1>1, AheadSteps DEF ToCome

\* A row is there because it was, or because it was still to come and now is not.
LEMMA Inserted ==
  ASSUME Typed, Kinded, NEW r \in Requests, InsertRow(r) \/ InsertSecondRow(r), NEW p \in Tracked'
  PROVE  \/ p \in Tracked /\ row'[p].name = row[p].name /\ (InsertRow(r) => p # Id(r))
         \/ ToCome(p) /\ ~ToCome(p)' /\ (InsertRow(r) => p = Id(r) /\ row'[p].name = Target(r))
<1>0. /\ session[r] \in Session /\ Kind(session[r])
      /\ row \in [Project -> Row] /\ p \in Project /\ row'[p] # NoRow
      /\ SagaStep(r)
  BY DEF Kinded, Typed, TypeOK, Sessions, Tracked, SagaStep
<1>1. CASE InsertRow(r)
  <2>1. At(r, "row") /\ Insert(Id(r), Target(r)) /\ (Continue(r) \/ GiveUp(r))
    BY <1>1 DEF InsertRow, Answered
  <2>2. CASE p # Id(r)
    BY <1>0, <2>1, <2>2 DEF Insert, Tracked
  <2>3. CASE p = Id(r)
    <3>1. PICK k \in {1, 2} : k = session[r].part /\ Ahead(r, k)
      BY <1>0, <2>1 DEF Ahead, At, Session
    <3>2. ToCome(p)
      BY <2>3, <3>1 DEF ToCome, Id
    <3>3. ~Ahead(r, k)'
      <4>1. session[r].at \in Saga \ {"second"} /\ At(r, "row") /\ r \in Sessions
        BY <2>1 DEF At, Saga, Sessions
      <4>2. Onward(r) => session'[r].at \notin {"idle", "repo", "row"}
                          /\ (session'[r].at \in Saga => session'[r].part = session[r].part)
        BY <4>1 DEF Onward, Ended, After, At, Saga
      <4>3. GiveUp(r) => session'[r].at \notin Saga \cup {"idle"}
        BY <4>1, GiveUpTurns DEF Ended, Turned, Saga
      <4>4. session'[r].at \notin {"idle", "repo", "row"}
            /\ (session'[r].at \in Saga => session'[r].part = k)
        BY <2>1, <3>1, <4>1, <4>2, <4>3, ContinueOnward DEF Saga
      <4> QED
        BY <4>4 DEF Ahead, At
    <3>4. ~ToCome(p)'
      <4> SUFFICES ASSUME NEW q \in Requests, NEW i \in {1, 2}, p = <<q, i>>, Ahead(q, i)'
                   PROVE  FALSE
        BY DEF ToCome
      <4>1. q = r /\ i = k
        BY <2>3, <3>1 DEF Id
      <4> QED
        BY <3>3, <4>1
    <3>5. row'[p].name = Target(r)
      BY <1>0, <2>1, <2>3 DEF Insert
    <3> QED
      BY <1>1, <2>3, <3>2, <3>4, <3>5
  <2> QED
    BY <2>2, <2>3
<1>2. CASE InsertSecondRow(r)
  <2>1. At(r, "second") /\ Ended(r, "done") /\ session[r].part = 1
    BY <1>0, <1>2, EndEnds DEF InsertSecondRow, Ends, Typed, Aimed, Aim, At, Sessions
  <2>2. ~InsertRow(r)
    BY <2>1 DEF At, InsertRow
  <2>3. CASE row' = row
    BY <1>0, <2>2, <2>3 DEF Tracked
  <2>4. CASE Insert(<<r, 2>>, session[r].name)
    <3>1. CASE p # <<r, 2>>
      BY <1>0, <2>2, <2>4, <3>1 DEF Insert, Tracked
    <3>2. CASE p = <<r, 2>>
      <4>1. Ahead(r, 2) /\ ~Ahead(r, 2)'
        BY <2>1 DEF Ahead, At, Ended, Saga
      <4>2. ToCome(p)
        BY <3>2, <4>1 DEF ToCome
      <4>3. ~ToCome(p)'
        <5> SUFFICES ASSUME NEW q \in Requests, NEW k \in {1, 2}, p = <<q, k>>, Ahead(q, k)'
                     PROVE  FALSE
          BY DEF ToCome
        <5>1. q = r /\ k = 2
          BY <3>2
        <5> QED
          BY <4>1, <5>1
      <4> QED
        BY <2>2, <4>2, <4>3
    <3> QED
      BY <3>1, <3>2
  <2> QED
    BY <1>2, <2>3, <2>4 DEF InsertSecondRow
<1> QED
  BY <1>1, <1>2

LEMMA RowComes ==
  ASSUME Typed, Kinded, [Next]_vars, NEW p \in Tracked'
  PROVE  \/ p \in Tracked /\ row'[p].name = row[p].name
         \/ ToCome(p) /\ ~ToCome(p)'
<1> DEFINE Kept == p \in Tracked /\ row'[p].name = row[p].name
<1>0. p \in Project /\ row'[p] # NoRow /\ row \in [Project -> Row] /\ row[p] \in Row
  BY DEF Tracked, Typed, TypeOK
<1>1. ASSUME row' = row PROVE Kept
  BY <1>0, <1>1 DEF Tracked
<1>2. ASSUME NEW ps, Delete(ps) PROVE Kept
  BY <1>0, <1>2 DEF Delete, Tracked
<1>3. ASSUME NEW ps, NEW status, SetStatus(ps, status) PROVE Kept
  <2>1. row'[p] = row[p] \/ (p \in Tracked /\ row'[p] = [row[p] EXCEPT !.status = status])
    BY <1>0, <1>3 DEF SetStatus
  <2> QED
    BY <1>0, <2>1 DEF Row, Tracked
<1>4. ASSUME NEW r \in Requests, IssueToken(r) \/ UpdateStatus(r) PROVE Kept
  <2>1. \/ row' = row
        \/ /\ row[Id(r)] # NoRow
           /\ \/ row' = [row EXCEPT ![Id(r)] = [row[Id(r)] EXCEPT !.token = TRUE]]
              \/ row' = [row EXCEPT ![Id(r)] = [row[Id(r)] EXCEPT !.status = "provisioned"]]
    BY <1>4 DEF IssueToken, UpdateStatus
  <2>2. CASE row' # row
    BY <1>0, <2>1, <2>2 DEF Row, Tracked
  <2> QED
    BY <1>1, <2>2
<1> HIDE DEF Kept
<1>5. ASSUME NEW r \in Requests, NewRequest(r) \/ RequestStep(r)
      PROVE  Kept \/ (ToCome(p) /\ ~ToCome(p)')
  <2>1. \/ row' = row
        \/ \E ps : Delete(ps)
        \/ \E ps, status : SetStatus(ps, status)
        \/ IssueToken(r) \/ UpdateStatus(r) \/ InsertRow(r) \/ InsertSecondRow(r)
    BY <1>5 DEF NewRequest, CreateProject, SetupProject, Disconnect, DisconnectAndDelete, SyncProjects,
         RequestStep, SagaStep, CreateRepo, CreateRepoRefused, SetSecret, PushWorkflow, MakeBranches,
         StepFails, UndoRow, UndoRepo, UndoSecret, DeleteRepoForUser, DropRow, CheckRepo, CheckInconclusive,
         MarkOrphaned, MarkReachable
  <2> QED
    BY <1>1, <1>2, <1>3, <1>4, <2>1, Inserted DEF Kept
<1>6. CASE \/ CronStep \/ (\E r \in Sessions : Crash(r)) \/ UNCHANGED vars
           \/ \E n \in Names : HandleRepositoryDeleted(n) \/ NewsLost(n) \/ OutsideDelete(n)
  <2>1. row' = row \/ \E ps : Delete(ps)
    BY <1>6 DEF CronStep, Reconcile, CheckRepo, CheckInconclusive, DeleteGone, ReconcileEnds, Crash, vars,
         HandleRepositoryDeleted, NewsLost, OutsideDelete, DeleteByRepoFullName
  <2> QED
    BY <1>1, <1>2, <2>1 DEF Kept
<1> QED
  BY <1>5, <1>6 DEF Next, Step, Kept

LEMMA PinnedStays ==
  ASSUME Typed, Kinded, [Next]_vars, NEW p, NEW n, Pinned(p, n)
  PROVE  Pinned(p, n)'
<1>1. ~ToCome(p)'
  BY ToComeSteps DEF Pinned
<1>2. ASSUME p \in Tracked' PROVE row'[p].name = n
  BY <1>2, RowComes DEF Pinned
<1> QED
  BY <1>1, <1>2 DEF Pinned

LEMMA RowsOnceNext ==
  ASSUME Typed, Kinded, RowsOnce, [Next]_vars
  PROVE  RowsOnce'
BY RowComes, ToComeSteps DEF RowsOnce

LEMMA ListedPinned ==
  ASSUME Typed, RowsOnce, NEW x \in Listed(Names)
  PROVE  x \in Project \X Names /\ Pinned(x[1], x[2])
BY ListedTypes DEF Listed, Pinned, RowsOnce, Tracked

\* A row is deleted by the saga that inserted it, by whom it is disconnected, or by its
\* name.
LEMMA RowGoes ==
  ASSUME Typed, [Next]_vars, NEW p \in Tracked, row'[p] = NoRow
  PROVE  \/ \E q \in Requests : UndoRow(q) /\ p = Id(q)
         \/ \E q \in Requests : session'[q].kind = "disconnect" /\ session'[q].name = row[p].name
         \/ \E q \in Requests : At(q, "drop") /\ session[q].project = p
         \/ \A q \in Requests : session'[q] = session[q]
<1>0. /\ p \in Project /\ row[p] # NoRow /\ row' # row
      /\ session \in [Sessions -> Session] /\ Requests \subseteq Sessions
      /\ row \in [Project -> Row]
  BY DEF Tracked, Sessions, Typed, TypeOK
<1>1. ASSUME NEW r \in Requests, NewRequest(r) \/ RequestStep(r)
      PROVE  Disconnect(r) \/ UndoRow(r) \/ DropRow(r)
  <2>1. row' = row \/ KeepingRows(r) \/ Disconnect(r) \/ UndoRow(r) \/ DropRow(r)
    BY <1>1 DEF NewRequest, CreateProject, SetupProject, DisconnectAndDelete, SyncProjects, KeepingRows,
         RequestStep, SagaStep, CreateRepo, CreateRepoRefused, SetSecret, PushWorkflow, MakeBranches,
         StepFails, UndoRepo, UndoSecret, DeleteRepoForUser, CheckRepo, CheckInconclusive
  <2> QED
    BY <1>0, <2>1, RowsKept
<1>2. ASSUME NEW r \in Requests, Disconnect(r)
      PROVE  session'[r].kind = "disconnect" /\ session'[r].name = row[p].name
  <2>1. PICK i \in Tracked :
          /\ Begin(r, [Resting EXCEPT !.at = "done", !.kind = "disconnect", !.name = row[i].name, !.project = i])
          /\ Delete({i})
    BY <1>2 DEF Disconnect
  <2>2. i = p
    BY <1>0, <2>1 DEF Delete
  <2> DEFINE s == [Resting EXCEPT !.at = "done", !.kind = "disconnect", !.name = row[i].name, !.project = i]
  <2>3. s.kind = "disconnect" /\ s.name = row[i].name
    BY DEF Resting
  <2>4. session'[r] = s
    BY <1>0, <2>1 DEF Begin
  <2> QED
    BY <2>2, <2>3, <2>4
<1>3. ASSUME NEW r \in Requests, UndoRow(r) PROVE p = Id(r)
  BY <1>0, <1>3 DEF UndoRow, Delete
<1>4. ASSUME NEW r \in Requests, DropRow(r) PROVE At(r, "drop") /\ session[r].project = p
  BY <1>0, <1>4 DEF DropRow, Delete
<1>5. CASE CronStep \/ \E n \in Names : HandleRepositoryDeleted(n)
  BY <1>5, ScriptOwn
<1>7. ~(\/ (\E r \in Sessions : Crash(r)) \/ UNCHANGED vars
        \/ \E n \in Names : NewsLost(n) \/ OutsideDelete(n))
  BY <1>0 DEF Crash, vars, NewsLost, OutsideDelete
<1>8. CASE \E r \in Requests : NewRequest(r) \/ RequestStep(r)
  BY <1>1, <1>2, <1>3, <1>4, <1>8
<1> QED
  BY <1>5, <1>7, <1>8 DEF Next, Step

\* What a request reads of the projects.
LEMMA ReadSteps ==
  ASSUME Typed, [Next]_vars, NEW r \in Requests
  PROVE  /\ session'[r].listed \subseteq session[r].listed \cup Listed(Names)
         /\ \A x \in session'[r].gone :
              x \in session[r].gone
                \/ (x \in session[r].listed /\ ~Sees(r, x[2]) /\ UNCHANGED repo)
         /\ session'[r].at \in {"ghdelete", "drop"}
              => \/ /\ session[r].at \in {"ghdelete", "drop"}
                    /\ session'[r].project = session[r].project /\ session'[r].name = session[r].name
                 \/ /\ session'[r].project \in Tracked
                    /\ session'[r].name = row[session'[r].project].name
<1>1. CASE SagaStep(r)
  BY <1>1, SagaTurns DEF Onward, Turned, Ended, Keeps, Saga, Ends
<1>2. CASE ~SagaStep(r)
  BY <1>2, SessionSteps DEF Begun, Checked, Turned, Ended, Keeps, At
<1> QED
  BY <1>1, <1>2

LEMMA ReadsNext ==
  ASSUME Typed, Kinded, RowsOnce, ReadsHold, [Next]_vars, NEW r \in Requests
  PROVE  Reads(r)'
<1>0. Reads(r) /\ Typed' /\ session'[r] \in Session /\ Kind(session[r]) /\ Kind(session'[r])
  BY NextTypes, KindNext DEF ReadsHold, Kinded, Typed, TypeOK, Sessions
<1>1. r \in Sessions /\ r # NoOne
  BY ProvisioningAssumption DEF Sessions
<1>2. ASSUME NEW x \in session'[r].listed \cup session'[r].gone
      PROVE  Pinned(x[1], x[2])'
  <2>1. Pinned(x[1], x[2])
    BY <1>0, <1>2, ReadSteps, ListedPinned DEF Reads
  <2> DEFINE p == x[1]
             n == x[2]
  <2> HIDE DEF p, n
  <2>2. Pinned(p, n)
    BY <2>1 DEF p, n
  <2>3. Pinned(p, n)'
    BY <2>2, PinnedStays
  <2> QED
    BY <2>1, <2>3 DEF p, n
<1>3. ASSUME NEW x \in session'[r].gone, Exists(x[2])', x[2] \notin Unseen
      PROVE  <<r, x[2]>> \in renewed'
  <2>1. PICK n \in Names : n = x[2]
    BY <1>0, <1>3 DEF Session
  <2>2. Exists(n)' /\ Knows(r)' /\ n \notin Unseen
    BY <1>0, <1>3, <2>1 DEF Exists, Knows, Kind
  <2>3. CASE Exists(n)
    <3>1. x \in session[r].gone
      BY <1>3, <2>1, <2>2, <2>3, ReadSteps, ProvisioningAssumption DEF Sees, Exists
    <3>2. <<r, n>> \in renewed
      BY <1>0, <2>1, <2>2, <2>3, <3>1 DEF Reads
    <3> QED
      BY <1>1, <2>1, <2>2, <2>3, <3>2, Marked
  <2>4. CASE ~Exists(n)
    <3>1. repo'[n].maker # r
      <4>1. SUFFICES ASSUME repo'[n].maker = r PROVE FALSE
        OBVIOUS
      <4>2. CreateRepo(r)
        BY <2>2, <2>4, <4>1, Makers
      <4>3. x \in session[r].gone \/ x \in session[r].listed
        BY <1>3, ReadSteps
      <4>4. SagaStep(r)
        BY <4>2 DEF SagaStep
      <4>5. session'[r].gone = {}
        BY <1>0, <4>2, <4>4, SagaTurns DEF Kind, Onward, Turned, Ended, Keeps, CreateRepo, At, UndoRow
      <4> QED
        BY <1>3, <4>5
    <3> QED
      BY <1>1, <2>1, <2>2, <2>4, <3>1, Marked
  <2> QED
    BY <2>3, <2>4
<1>4. ASSUME session'[r].at \in {"ghdelete", "drop"}
      PROVE  Pinned(session[r].project, session[r].name)'
  <2>1. PICK p, n : p = session'[r].project /\ n = session'[r].name
    OBVIOUS
  <2>2. Pinned(p, n)
    BY <1>0, <1>4, <2>1, ReadSteps DEF Reads, Pinned, RowsOnce
  <2>3. Pinned(p, n)'
    BY <2>2, PinnedStays
  <2> QED
    BY <2>1, <2>3 DEF Pinned, ToCome, Ahead, At, Tracked
<1> QED
  BY <1>2, <1>3, <1>4 DEF Reads

\* A creation comes past its first row by inserting it.
LEMMA PlacedSteps ==
  ASSUME Typed, Kinded, [Next]_vars, NEW r \in Requests, Placed(r)'
  PROVE  /\ session[r].at # "idle" /\ Creating(r)
         /\ session'[r].kind = session[r].kind /\ session'[r].name = session[r].name
         /\ Placed(r) \/ (InsertRow(r) /\ session[r].part = 1)
         /\ ~(UndoRow(r) /\ session[r].part = 1)
<1>0. /\ Kind(session[r]) /\ session[r] \in Session
      /\ session'[r].kind \in Creations
      /\ session'[r].at \in {"token", "secret", "workflow", "status", "branches", "second", "done"}
           \/ session'[r].part = 2
      /\ "setup" \notin Creations /\ "delete" \notin Creations
      /\ "sync" \notin Creations /\ "disconnect" \notin Creations
  BY DEF Kinded, Placed, Creating, Typed, TypeOK, Sessions, Creations
<1>1. session[r].at # "idle"
  <2>1. CASE session'[r] = session[r]
    BY <1>0, <2>1 DEF Kind, Resting
  <2>2. CASE Begun(r)
    BY <1>0, <2>2 DEF Begun
  <2>3. SagaStep(r) => session[r].at \in Saga \cup Undoing
    BY SagaTurns DEF UndoRow, At, Undoing
  <2> QED
    BY <2>1, <2>2, <2>3, SessionSteps DEF Checked, At, Saga, Undoing, Ends
<1>2. session'[r].kind = session[r].kind /\ session'[r].name = session[r].name /\ Creating(r)
  BY <1>0, <1>1, Steady DEF Creating
<1>3. ~(UndoRow(r) /\ session[r].part = 1)
  BY <1>0, GotoTurns DEF UndoRow, Turned
<1>4. Placed(r) \/ (InsertRow(r) /\ session[r].part = 1)
  <2>1. CASE session'[r] = session[r]
    BY <2>1, <1>0, <1>2 DEF Placed
  <2>2. CASE SagaStep(r)
    <3>1. CASE session[r].at \in Saga \ {"second"} /\ Onward(r)
      <4>1. CASE Ended(r, "done") \/ At(r, "branches")
        BY <1>2, <3>1, <4>1 DEF Onward, Ended, At, Saga, Placed
      <4>2. CASE /\ session'[r].part = session[r].part /\ session'[r].at = After(r)
                 /\ session'[r].at \in Saga \ {"repo"} /\ ~At(r, "branches")
        <5>1. CASE session[r].at \in {"token", "secret", "workflow", "status"} \/ session[r].part = 2
          BY <1>2, <5>1 DEF Placed
        <5>2. CASE session[r].at = "repo"
          <6>1. session'[r].at = "row"
            BY <4>2, <5>2 DEF After, At
          <6> QED
            BY <1>0, <1>2, <4>2, <6>1 DEF Placed
        <5>3. CASE session[r].at = "row" /\ session[r].part = 1
          <6>1. session'[r].at = "token"
            BY <4>2, <5>3 DEF After, At
          <6>2. ~GiveUp(r)
            BY <3>1, <6>1, GiveUpTurns DEF Ended, Turned
          <6> QED
            BY <2>2, <5>3, <6>2 DEF SagaStep, CreateRepo, CreateRepoRefused, IssueToken, SetSecret, PushWorkflow,
                 UpdateStatus, MakeBranches, InsertSecondRow, StepFails, UndoRow, UndoRepo, UndoSecret, At
        <5> QED
          BY <1>0, <3>1, <4>2, <5>1, <5>2, <5>3 DEF Saga, At, Session
      <4> QED
        BY <3>1, <4>1, <4>2 DEF Onward
    <3>2. CASE \/ Turned(r, "unrow") \/ Turned(r, "unrepo") \/ Turned(r, "unsecret")
      BY <1>0, <1>2, <3>2 DEF Turned, Placed
    <3>3. CASE \E outcome \in Ends :
                 Ended(r, outcome) /\ (outcome = "done" => session[r].part = 2 \/ At(r, "second"))
      BY <1>0, <1>2, <3>3 DEF Ended, At, Placed, Ends
    <3> QED
      BY <2>2, <3>1, <3>2, <3>3, SagaTurns
  <2>3. CASE session[r].at \notin Ends \cup {"idle"} /\ Ended(r, "abandoned")
    BY <1>0, <2>3 DEF Ended
  <2>4. session[r].kind \in Creations
    BY <1>0, <1>2
  <2>5. session[r].at \notin {"check", "reach", "ghdelete", "drop"}
    BY <1>0, <2>4 DEF Kind
  <2> QED
    BY <1>1, <2>1, <2>2, <2>3, <2>5, SessionSteps DEF Begun, At, Checked
<1> QED
  BY <1>1, <1>2, <1>3, <1>4

\* Who is at a repository stays there.
LEMMA AskedStays ==
  ASSUME Typed, Kinded, [Next]_vars, NEW r \in Requests, session[r].kind # "sync"
  PROVE  session'[r].kind = session[r].kind /\ session'[r].name = session[r].name
<1>1. session[r].at # "idle"
  BY DEF Kinded, Kind, Resting
<1> QED
  BY <1>1, Steady

\* A row that goes while no request does anything, and whose repository stands, is marked,
\* and the mark stays with the repository.
LEMMA WrongedSteps ==
  ASSUME Typed, [Next]_vars, NEW n \in Names, Exists(n), Exists(n)',
         \/ n \in wronged
         \/ \E p \in Tracked : /\ row[p].name = n /\ row'[p] = NoRow
                               /\ \A q \in Requests : session'[q] = session[q]
  PROVE  n \in wronged'
<1>1. CASE Remember
  <2>1. n \in wronged \/ \E p \in Tracked : Wrongs(p) /\ row[p].name = n
    BY DEF Wrongs
  <2> QED
    BY <1>1, <2>1 DEF Remember
<1>2. CASE UNCHANGED vars
  BY <1>2 DEF vars, Tracked
<1> QED
  BY <1>1, <1>2, Remembered

LEMMA HeldNext ==
  ASSUME Typed, Kinded, RowsOnce, ReadsHold, AllHeld, [Next]_vars, NEW r \in Requests, Placed(r)',
         repo'[session'[r].name].maker = r
  PROVE  Held(r)'
<1> DEFINE p == <<r, 1>>
<1>0. /\ Kind(session[r]) /\ session[r] \in Session /\ session[r].kind \in Creations
      /\ p \in Project /\ row \in [Project -> Row] /\ r # NoOne
      /\ Typed'
  BY PlacedSteps, NextTypes, ProvisioningAssumption DEF Kinded, Typed, TypeOK, Sessions, Creating, Project
<1>1. PICK n \in Names : n = session[r].name /\ session'[r].name = n
  BY <1>0, PlacedSteps DEF Kind
<1>2. repo'[n].maker = r /\ Exists(n)'
  BY <1>0, <1>1 DEF Exists
<1>3. SUFFICES (row'[p] # NoRow /\ row'[p].name = n) \/ Disowned(n)' \/ n \in wronged'
  BY <1>0, <1>1 DEF Held, Tracked, Disowned
<1>4. CASE InsertRow(r) /\ session[r].part = 1
  <2>1. Target(r) = n /\ Id(r) = p
    BY <1>1, <1>4 DEF Target, Id
  <2>2. row' = [row EXCEPT ![p] = [name |-> n, status |-> "provisioned", token |-> FALSE]]
    BY <1>4, <2>1 DEF InsertRow, Insert
  <2> QED
    BY <1>0, <2>2 DEF NoRow
<1>5. CASE Placed(r)
  <2>1. repo[n].maker = r
    <3>1. SUFFICES ASSUME Comes(n) PROVE FALSE
      BY <1>0, <1>2, RepoSteps DEF Stays, Goes, Absent
    <3>2. PICK q \in Requests : CreateRepo(q) /\ n = Target(q)
      BY <3>1 DEF Comes
    <3>3. repo'[n].maker = q
      BY <3>2 DEF CreateRepo, Absent, Typed, TypeOK
    <3>4. q = r /\ At(r, "repo")
      BY <1>2, <3>2, <3>3 DEF CreateRepo
    <3>5. session[r].part = 2 /\ session[r].name # session[r].twin
      BY <1>0, <1>5, <3>4 DEF Placed, At, Kind, Saga
    <3> QED
      BY <1>1, <3>2, <3>4, <3>5 DEF Target
  <2>2. \/ p \in Tracked /\ row[p].name = n
        \/ Disowned(n)
        \/ n \in wronged
    BY <1>1, <1>5, <2>1 DEF AllHeld, Held
  <2>3. Disowned(n) => Disowned(n)'
    BY AskedStays DEF Disowned
  <2>4. Exists(n)
    BY <1>0, <2>1 DEF Exists
  <2>5. n \in wronged => n \in wronged'
    BY <1>2, <2>4, WrongedSteps
  <2>6. ASSUME p \in Tracked, row[p].name = n, row'[p] # NoRow
        PROVE  row'[p].name = n
    <3>1. p \in Tracked' /\ ~ToCome(p)
      BY <1>0, <2>6 DEF Tracked, RowsOnce
    <3> HIDE DEF p
    <3> QED
      BY <2>6, <3>1, RowComes
  <2>7. ASSUME p \in Tracked, row[p].name = n, row'[p] = NoRow
        PROVE  Disowned(n)' \/ n \in wronged'
    <3>1. ~\E q \in Requests : UndoRow(q) /\ p = Id(q)
      BY PlacedSteps DEF Id
    <3> HIDE DEF p
    <3>2. CASE \E q \in Requests : session'[q].kind = "disconnect" /\ session'[q].name = row[p].name
      BY <2>7, <3>2 DEF Disowned
    <3>3. CASE \E q \in Requests : At(q, "drop") /\ session[q].project = p
      <4>1. PICK q \in Requests : At(q, "drop") /\ session[q].project = p
        BY <3>3
      <4>2. session[q].kind = "delete" /\ Pinned(p, session[q].name)
        BY <4>1 DEF Kinded, Kind, ReadsHold, Reads, At
      <4>3. session[q].name = n
        BY <2>7, <4>2 DEF Pinned
      <4> QED
        BY <4>2, <4>3, AskedStays DEF Disowned
    <3>4. CASE \A q \in Requests : session'[q] = session[q]
      BY <1>2, <2>4, <2>7, <3>4, WrongedSteps
    <3> QED
      BY <2>7, <3>1, <3>2, <3>3, <3>4, RowGoes
  <2> HIDE DEF p
  <2> QED
    BY <2>2, <2>3, <2>5, <2>6, <2>7
<1> QED
  BY <1>4, <1>5, PlacedSteps

\* What becomes of what has a name.
LEMMA RepoWrites ==
  ASSUME Typed, [Next]_vars, NEW n \in Names
  PROVE  \/ repo'[n] = repo[n]
         \/ repo'[n] = Absent
         \/ Comes(n)
         \/ \E q \in Requests : SetSecret(q) /\ n = Target(q) /\ repo'[n] = [repo[n] EXCEPT !.token = Id(q)]
         \/ \E q \in Requests :
              PushWorkflow(q) /\ n = Target(q) /\ repo'[n] = [repo[n] EXCEPT !.workflow = TRUE]
         \/ \E q \in Requests : UndoSecret(q) /\ n = Target(q) /\ repo'[n] = [repo[n] EXCEPT !.token = NoOne]
<1>0. repo \in [Names -> Repository]
  BY DEF Typed, TypeOK
<1>1. ASSUME NEW m, DeleteRepo(m) PROVE repo'[n] = repo[n] \/ repo'[n] = Absent
  BY <1>0, <1>1 DEF DeleteRepo
<1>2. ASSUME NEW r \in Requests, CreateRepo(r) PROVE repo'[n] = repo[n] \/ Comes(n)
  BY <1>0, <1>2 DEF CreateRepo, Comes
<1>3. ASSUME NEW r \in Requests, SetSecret(r)
      PROVE  repo'[n] = repo[n] \/ (n = Target(r) /\ repo'[n] = [repo[n] EXCEPT !.token = Id(r)])
  BY <1>0, <1>3 DEF SetSecret
<1>4. ASSUME NEW r \in Requests, PushWorkflow(r)
      PROVE  repo'[n] = repo[n] \/ (n = Target(r) /\ repo'[n] = [repo[n] EXCEPT !.workflow = TRUE])
  BY <1>0, <1>4 DEF PushWorkflow
<1>5. ASSUME NEW r \in Requests, UndoSecret(r)
      PROVE  repo'[n] = repo[n] \/ (n = Target(r) /\ repo'[n] = [repo[n] EXCEPT !.token = NoOne])
  BY <1>0, <1>5 DEF UndoSecret
<1>6. CASE \E r \in Requests : NewRequest(r) \/ RequestStep(r)
  <2>1. PICK r \in Requests : NewRequest(r) \/ RequestStep(r)
    BY <1>6
  <2>2. \/ repo' = repo \/ CreateRepo(r) \/ (\E m : DeleteRepo(m))
        \/ SetSecret(r) \/ PushWorkflow(r) \/ UndoSecret(r)
    BY <2>1 DEF NewRequest, CreateProject, SetupProject, Disconnect, DisconnectAndDelete, SyncProjects,
         RequestStep, SagaStep, CreateRepoRefused, InsertRow, IssueToken, UpdateStatus, MakeBranches,
         InsertSecondRow, StepFails, UndoRow, UndoRepo, DeleteRepoForUser, DropRow, CheckRepo,
         CheckInconclusive, MarkOrphaned, MarkReachable
  <2> QED
    BY <1>1, <1>2, <1>3, <1>4, <1>5, <2>2
<1>7. CASE \/ CronStep \/ (\E r \in Sessions : Crash(r)) \/ UNCHANGED vars
           \/ \E m \in Names : HandleRepositoryDeleted(m) \/ NewsLost(m)
  BY <1>7 DEF CronStep, Reconcile, CheckRepo, CheckInconclusive, DeleteGone, ReconcileEnds, Crash, vars,
       HandleRepositoryDeleted, NewsLost
<1>8. CASE \E m \in Names : OutsideDelete(m)
  BY <1>1, <1>8 DEF OutsideDelete
<1> QED
  BY <1>6, <1>7, <1>8 DEF Next, Step

LEMMA ArmedSteps ==
  ASSUME Typed, [Next]_vars, NEW r \in Requests, session'[r].at = "workflow", session'[r] # session[r]
  PROVE  SetSecret(r) /\ Same(r)
<1>1. SagaStep(r)
  BY SessionSteps DEF Begun, Checked, Turned, Ended
<1>2. session[r].at \in Saga \ {"second"} /\ Onward(r)
  BY <1>1, SagaTurns DEF Turned, Ended, Ends
<1>3. session[r].at = "secret"
  BY <1>2 DEF Onward, Ended, After, At, Saga
<1>4. ~GiveUp(r)
  BY <1>2, GiveUpTurns DEF Turned, Ended
<1>5. SetSecret(r) /\ Continue(r)
  BY <1>1, <1>3, <1>4 DEF SagaStep, CreateRepo, CreateRepoRefused, InsertRow, IssueToken, SetSecret, PushWorkflow,
       UpdateStatus, MakeBranches, InsertSecondRow, StepFails, UndoRow, UndoRepo, UndoSecret, At, Answered
<1> QED
  BY <1>2, <1>5, AnsweredSteps DEF AtWork, Saga

LEMMA ArmedNext ==
  ASSUME Typed, Kinded, AllArmed, [Next]_vars, NEW r \in Requests
  PROVE  Armed(r)'
<1> SUFFICES ASSUME session'[r].at = "workflow", repo'[Target(r)'].maker # NoOne
             PROVE  \/ repo'[Target(r)'].token # NoOne \/ Rivalled(r, Target(r))'
                    \/ <<r, Target(r)'>> \in renewed'
  BY DEF Armed, At, Exists
<1>0. repo \in [Names -> Repository] /\ Typed' /\ r \in Sessions
  BY NextTypes DEF Typed, TypeOK, Sessions
<1>1. PICK n : n = Target(r)'
  OBVIOUS
<1>2. n \in Names
  BY <1>0, <1>1, Targets DEF Typed, TypeOK, Aimed, Aim, Target, Session, Saga
<1>3. SUFFICES repo'[n].token # NoOne \/ Rivalled(r, n)' \/ <<r, n>> \in renewed'
  BY <1>1 DEF Rivalled
<1>4. CASE SetSecret(r) /\ Same(r)
  <2>1. Target(r) = n /\ Id(r) \in Project
    BY <1>1, <1>4, SameTarget, Targets
  <2>2. repo'[n].token = Id(r)
    BY <1>0, <1>2, <1>4, <2>1 DEF SetSecret, Repository
  <2> QED
    BY <2>1, <2>2, ProvisioningAssumption
<1>5. CASE session'[r] = session[r]
  <2>1. Target(r) = n /\ At(r, "workflow")
    BY <1>1, <1>5 DEF Target, At
  <2>2. Exists(n)' /\ Knows(r)' /\ repo'[n] # Absent
    BY <1>1, <1>5, <2>1 DEF Exists, Knows, At, Saga, Absent
  <2>3. CASE ~Exists(n)
    <3>1. repo'[n].maker # r
      BY <1>2, <2>1, <2>2, <2>3, Makers DEF CreateRepo, At
    <3> QED
      BY <1>0, <1>2, <2>2, <2>3, <3>1, Marked
  <2>4. SUFFICES ASSUME Exists(n) PROVE repo'[n].token # NoOne \/ Rivalled(r, n)' \/ <<r, n>> \in renewed'
    BY <2>3
  <2>5. repo[n].token # NoOne \/ Rivalled(r, n) \/ <<r, n>> \in renewed
    BY <2>1, <2>4 DEF AllArmed, Armed
  <2>8. <<r, n>> \in renewed => <<r, n>> \in renewed'
    BY <1>0, <1>2, <2>2, <2>4, Marked
  <2>6. Rivalled(r, n) => Rivalled(r, n)'
    BY AskedStays DEF Rivalled
  <2>7. ASSUME repo[n].token # NoOne, repo'[n].token = NoOne PROVE Rivalled(r, n)'
    <3>1. repo[n] \in Repository
      BY <1>0, <1>2
    <3>2. PICK q \in Requests : UndoSecret(q) /\ n = Target(q)
      <4>1. ASSUME NEW q \in Requests, repo'[n] = [repo[n] EXCEPT !.token = Id(q)] PROVE FALSE
        <5>1. Id(q) \in Project /\ repo'[n].token = Id(q)
          BY <3>1, <4>1, Targets DEF Repository
        <5> QED
          BY <2>7, <5>1, ProvisioningAssumption
      <4>2. ASSUME repo'[n] = [repo[n] EXCEPT !.workflow = TRUE] PROVE FALSE
        BY <2>7, <3>1, <4>2 DEF Repository
      <4> QED
        BY <1>2, <2>2, <2>4, <2>7, <4>1, <4>2, RepoWrites DEF Comes, CreateRepo
    <3>3. q # r /\ session[q].kind = "setup" /\ session[q].name = n
      BY <2>1, <3>2 DEF UndoSecret, At, Kinded, Kind, Target
    <3> QED
      BY <3>3, AskedStays DEF Rivalled
  <2> QED
    BY <2>5, <2>6, <2>7, <2>8
<1> QED
  BY <1>4, <1>5, ArmedSteps

LEMMA TrackingNext ==
  ASSUME Typed, Tracking, [Next]_vars
  PROVE  Tracking'
<1>1. RowsOnce' /\ Kinded' /\ ReadsHold' /\ AllArmed'
  BY RowsOnceNext, KindNext, ReadsNext, ArmedNext DEF Tracking, Kinded, ReadsHold, AllArmed, Kind
<1>2. ASSUME NEW r \in Requests PROVE Held(r)'
  BY HeldNext DEF Tracking, Held
<1> QED
  BY <1>1, <1>2 DEF Tracking, AllHeld

LEMMA InitTracking == Init => Tracking
<1> SUFFICES ASSUME Init PROVE Tracking
  OBVIOUS
<1>1. \A r \in Requests : session[r] = Resting
  BY DEF Init, Sessions
<1>2. \A p \in Tracked : p \in start.tracked \X {0}
  BY DEF Init, Tracked
<1>3. RowsOnce
  BY <1>2 DEF RowsOnce, ToCome
<1>4. Kinded
  <2>1. /\ Resting.at = "idle" /\ Resting.kind = "sync" /\ Resting.part = 1 /\ Resting.gone = {}
        /\ "idle" \notin Saga \cup Undoing \cup Ends /\ "sync" \notin Creations
    BY DEF Resting, Saga, Undoing, Ends, Creations
  <2> QED
    BY <1>1, <2>1 DEF Kinded, Kind
<1>5. ReadsHold
  BY <1>1 DEF ReadsHold, Reads, Resting
<1>6. AllHeld /\ AllArmed
  BY <1>1 DEF AllHeld, AllArmed, Held, Armed, Placed, At, Resting
<1> QED
  BY <1>3, <1>4, <1>5, <1>6 DEF Tracking

LEMMA InvariantTracking == Spec => [](Typed /\ Tracking)
<1>1. Init => Typed /\ Tracking
  BY InitTyped, InitTracking
<1>2. (Typed /\ Tracking) /\ [Next]_vars => (Typed /\ Tracking)'
  BY NextTypes, TrackingNext
<1> QED
  BY <1>1, <1>2, PTL DEF Spec

\* The first workflow file of a repository is pushed when its secret is there, unless
\* somebody else sets the repository up, or it is not the one that was given the secret.
THEOREM TokenFirst == Spec => FirstRunHasToken
<1>1. ASSUME Typed, Tracking, [Next]_vars, NEW r \in Requests,
             At(r, "workflow"), ~repo[Target(r)].workflow, repo'[Target(r)].workflow
      PROVE  \/ repo[Target(r)].token # NoOne
             \/ \E q \in Requests \ {r} : session[q].kind = "setup" /\ session[q].name = Target(r)
             \/ <<r, Target(r)>> \in renewed
  <2>1. PICK n \in Names : n = Target(r)
    BY <1>1, Targets DEF At, Saga
  <2>2. repo[n] \in Repository /\ ~repo[n].workflow /\ repo'[n].workflow
    BY <1>1, <2>1 DEF Typed, TypeOK
  <2>3. ~Comes(n)
    BY <2>2, <1>1 DEF Comes, CreateRepo, Absent, Typed, TypeOK
  <2>4. \A q \in Requests : /\ repo'[n] # [repo[n] EXCEPT !.token = Id(q)]
                            /\ repo'[n] # [repo[n] EXCEPT !.token = NoOne]
    BY <2>2 DEF Repository
  <2>5. PICK q \in Requests : PushWorkflow(q) /\ n = Target(q)
    <3>1. repo'[n] # repo[n] /\ repo'[n] # Absent
      BY <2>2 DEF Absent
    <3> QED
      BY <1>1, <2>3, <2>4, <3>1, RepoWrites, Zenon
  <2>6. Exists(n)
    BY <2>5 DEF PushWorkflow
  <2> QED
    BY <1>1, <2>1, <2>6 DEF Tracking, AllArmed, Armed, Rivalled
<1>2. Typed /\ Tracking /\ [Next]_vars
        => [\A r \in Requests :
              At(r, "workflow") /\ ~repo[Target(r)].workflow /\ repo'[Target(r)].workflow
                => \/ repo[Target(r)].token # NoOne
                   \/ \E q \in Requests \ {r} : session[q].kind = "setup" /\ session[q].name = Target(r)
                   \/ <<r, Target(r)>> \in renewed]_vars
  BY <1>1
<1> QED
  BY <1>2, InvariantTracking, PTL DEF Spec, FirstRunHasToken

\* Only a synchronisation marks a project as orphaned.
LEMMA OrphanSteps ==
  ASSUME Typed, [Next]_vars, NEW p \in Tracked,
         row[p].status = "provisioned", row'[p].status = "orphaned"
  PROVE  \E r \in Requests : session'[r] # session[r] /\ \E x \in session[r].gone : p = x[1]
<1>0. /\ p \in Project /\ row[p] # NoRow /\ row \in [Project -> Row] /\ row[p] \in Row
      /\ row'[p] # row[p] /\ row'[p] # NoRow
  BY DEF Tracked, Typed, TypeOK, NoRow
<1>1. ASSUME NEW ps, Delete(ps) PROVE FALSE
  BY <1>0, <1>1 DEF Delete
<1>2. ASSUME NEW ps, SetStatus(ps, "provisioned") PROVE FALSE
  BY <1>0, <1>2 DEF SetStatus, Row
<1>3. ASSUME NEW r \in Requests, IssueToken(r) \/ UpdateStatus(r) \/ InsertRow(r) \/ InsertSecondRow(r)
      PROVE  FALSE
  <2>1. row' # row
    BY <1>0
  <2>2. CASE InsertRow(r) \/ InsertSecondRow(r)
    <3>1. \E i, n : Insert(i, n)
      BY <2>1, <2>2 DEF InsertRow, InsertSecondRow
    <3> QED
      BY <1>0, <3>1 DEF Insert
  <2>3. CASE IssueToken(r) \/ UpdateStatus(r)
    <3>1. \/ row' = [row EXCEPT ![Id(r)] = [row[Id(r)] EXCEPT !.token = TRUE]]
          \/ row' = [row EXCEPT ![Id(r)] = [row[Id(r)] EXCEPT !.status = "provisioned"]]
      BY <2>1, <2>3 DEF IssueToken, UpdateStatus
    <3> QED
      BY <1>0, <3>1 DEF Row
  <2> QED
    BY <1>3, <2>2, <2>3
<1>4. ASSUME NEW r \in Requests, MarkOrphaned(r)
      PROVE  session'[r] # session[r] /\ \E x \in session[r].gone : p = x[1]
  <2>1. Turned(r, "reach") /\ At(r, "check")
    BY <1>4, GotoTurns DEF MarkOrphaned
  <2>2. session'[r] # session[r]
    BY <2>1 DEF Turned, At
  <2> QED
    BY <1>0, <1>4, <2>2 DEF MarkOrphaned, SetStatus
<1>5. CASE \E r \in Requests : NewRequest(r) \/ RequestStep(r)
  <2>1. PICK r \in Requests : NewRequest(r) \/ RequestStep(r)
    BY <1>5
  <2>2. \/ row' = row
        \/ \E ps : Delete(ps) \/ SetStatus(ps, "provisioned")
        \/ IssueToken(r) \/ UpdateStatus(r) \/ InsertRow(r) \/ InsertSecondRow(r) \/ MarkOrphaned(r)
    BY <2>1 DEF NewRequest, CreateProject, SetupProject, Disconnect, DisconnectAndDelete, SyncProjects,
         RequestStep, SagaStep, CreateRepo, CreateRepoRefused, SetSecret, PushWorkflow, MakeBranches,
         StepFails, UndoRow, UndoRepo, UndoSecret, DeleteRepoForUser, DropRow, CheckRepo, CheckInconclusive,
         MarkReachable
  <2> QED
    BY <1>0, <1>1, <1>2, <1>3, <1>4, <2>2
<1>6. CASE \/ CronStep \/ (\E r \in Sessions : Crash(r)) \/ UNCHANGED vars
           \/ \E n \in Names : HandleRepositoryDeleted(n) \/ NewsLost(n) \/ OutsideDelete(n)
  <2>1. row' = row \/ \E ps : Delete(ps)
    BY <1>6 DEF CronStep, Reconcile, CheckRepo, CheckInconclusive, DeleteGone, ReconcileEnds, Crash, vars,
         HandleRepositoryDeleted, NewsLost, OutsideDelete, DeleteByRepoFullName
  <2> QED
    BY <1>0, <1>1, <2>1
<1> QED
  BY <1>5, <1>6 DEF Next, Step

\* A creation that reported success is tracked as long as its repository stands, unless a
\* user disconnects it, or word of an earlier repository of its name takes the row; and
\* what the console marks as orphaned is not there, or not to be seen with the user's
\* token, or was made while the synchronisation went on.
THEOREM TrackedTruly == Spec => TrackingIsTrue
<1>1. ASSUME Typed, Tracking
      PROVE  DoneIsTracked
  <2> SUFFICES ASSUME NEW r \in Requests, At(r, "done"), Creating(r), repo[session[r].name].maker = r
               PROVE  \/ Named(session[r].name) # {}
                      \/ \E q \in Requests : /\ session[q].kind \in {"disconnect", "delete"}
                                             /\ session[q].name = session[r].name
                      \/ session[r].name \in wronged
    BY DEF DoneIsTracked
  <2>1. Placed(r)
    BY DEF Placed, At
  <2>2. \/ <<r, 1>> \in Tracked /\ row[<<r, 1>>].name = session[r].name
        \/ Disowned(session[r].name) \/ session[r].name \in wronged
    BY <1>1, <2>1 DEF Tracking, AllHeld, Held
  <2> QED
    BY <2>2 DEF Named, Disowned
<1>2. ASSUME Typed, Tracking, [Next]_vars, NEW p \in Tracked,
             row[p].status = "provisioned", row'[p].status = "orphaned"
      PROVE  \/ ~Exists(row[p].name) \/ row[p].name \in Unseen
             \/ \E r \in Requests : session'[r] # session[r] /\ <<r, row[p].name>> \in renewed
  <2>1. PICK r \in Requests : session'[r] # session[r] /\ \E x \in session[r].gone : p = x[1]
    BY <1>2, OrphanSteps
  <2>2. PICK x \in session[r].gone : p = x[1]
    BY <2>1
  <2>3. row[p].name = x[2] /\ (Exists(x[2]) => x[2] \in Unseen \/ <<r, x[2]>> \in renewed)
    BY <1>2, <2>2 DEF Tracking, ReadsHold, Reads, Pinned
  <2> QED
    BY <2>1, <2>3
<1>3. Typed /\ Tracking /\ [Next]_vars
        => [\A p \in Tracked :
              row[p].status = "provisioned" /\ row'[p].status = "orphaned"
                => \/ ~Exists(row[p].name) \/ row[p].name \in Unseen
                   \/ \E r \in Requests : session'[r] # session[r] /\ <<r, row[p].name>> \in renewed]_vars
  BY <1>2
<1> QED
  BY <1>1, <1>3, InvariantTracking, PTL DEF Spec, TrackingIsTrue, OrphansAreGone

====
