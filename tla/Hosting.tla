---- MODULE Hosting ----
(***************************************************************************)
(* Hosting of one project: deployment targets at Render (backends) and     *)
(* Vercel (frontends), the GitHub Actions secrets a deployment needs, and  *)
(* the environment variables of a target.                                  *)
(*                                                                         *)
(* A request is a sequence of awaits and nothing spans two of them: no     *)
(* transaction, no lock.  So a resource exists before its row, a row's     *)
(* metadata is written whole from an earlier reading, and Render's         *)
(* variables are replaced as a list that was fetched before.               *)
(***************************************************************************)
EXTENDS Naturals, Sequences, FiniteSets

CONSTANTS
  Sessions,    \* requests of the console, each made at most once
  Rows,        \* ids of target rows
  Resources,   \* ids of services at Render and projects at Vercel
  Standing,    \* those that were there before and may be registered
  Keys,        \* names of environment variables
  LinkKey,     \* the one the cross-link pass injects (FRONTEND_URL, API_URL)
  Limit,       \* the plan's limit of targets
  Byo,         \* ownership mode: the user's own account, not the platform's
  Teams,       \* whether the user's Vercel connection may be one of a team
  Asks,        \* kinds of requests that are made
  Faults,      \* kinds of faults that happen
  MaxTargetFaults, \* bound: faults in a behaviour
  Absent       \* no row, no resource

ASSUME HostingAssumption ==
  /\ Standing \subseteq Resources /\ LinkKey \in Keys
  /\ IsFiniteSet(Rows) /\ IsFiniteSet(Sessions)
  /\ Absent \notin Rows \cup Resources \cup {"failed"} /\ "failed" \notin Rows
  /\ Limit \in Nat /\ MaxTargetFaults \in Nat
  /\ Byo \in BOOLEAN /\ Teams \subseteq BOOLEAN

VARIABLES
  resource,    \* provider side: state, provider, variables with who set them
  row,         \* env_provisioning.project_deployment_targets with its variables
  project,     \* the project: "new", "provisioned" or "gone"
  connection,  \* the user's connections: still active, and whether a team's
  secret,      \* Actions secrets per slot: the service they name, part by part
  session,     \* requests between two awaits
  targetFaults \* how many faults there were

hostingVars == <<resource, row, project, connection, secret, session, targetFaults>>

Providers == {"render", "vercel"}
Kinds == {"provision", "create", "register", "sync", "detach", "delete", "set", "unset"}
FaultKinds == {"refused", "unanswered", "crash", "outside", "revoked", "gone"}
Values == {"none", "user", "link"}
Bare == [k \in Keys |-> "none"]

Resource == [state : {"none", "live", "gone"}, on : Providers, env : [Keys -> Values]]
Metadata == [secrets : BOOLEAN, found : BOOLEAN]
Row == [state : {"none", "stored", "deleted"}, resource : Resources \cup {Absent},
        metadata : Metadata, keys : SUBSET Keys]
Empty == [state |-> "none", resource |-> Absent,
          metadata |-> [secrets |-> FALSE, found |-> FALSE], keys |-> {}]
Deleted(v) == [Empty EXCEPT !.state = "deleted", !.resource = v.resource]

Steps == {"idle", "done", "admit", "create", "insert", "secretId", "secretUrl", "record", "envRead",
          "envWrite", "envRecord", "status", "metadata", "destroy", "drop"}
Session ==
  [pc : Steps, ask : Kinds \cup {"none", "link"}, asked : SUBSET Providers, todo : Seq(Providers),
   row : Rows \cup {Absent}, on : Resources \cup {Absent},
   read : Metadata, env : [Keys -> Values], count : Nat, wants : SUBSET Keys,
   said : {"none", "deleted", "error", "kept"},
   report : [Providers -> Rows \cup {Absent, "failed"}]]

Nothing == [p \in Providers |-> Absent]
IdleSession == [pc |-> "idle", ask |-> "none", asked |-> {}, todo |-> <<>>, row |-> Absent, on |-> Absent,
                read |-> Empty.metadata, env |-> Bare, count |-> 0, wants |-> {},
                said |-> "none", report |-> Nothing]

\* A new project, or one with a target that was registered.
HostingInit ==
  /\ resource = [r \in Resources |->
                   [state |-> IF r \in Standing THEN "live" ELSE "none", on |-> "render", env |-> Bare]]
  /\ \/ row = [i \in Rows |-> Empty] /\ project = "new"
     \/ /\ \E i \in Rows, r \in Standing :
             row = [[j \in Rows |-> Empty] EXCEPT ![i] = [Empty EXCEPT !.state = "stored", !.resource = r]]
        /\ project = "provisioned"
  /\ connection \in [active : {TRUE}, team : Teams]
  /\ secret = [p \in Providers |-> [id |-> Absent, url |-> Absent]]
  /\ session = [s \in Sessions |-> IdleSession]
  /\ targetFaults = 0

Live(r) == resource[r].state = "live"
Stored(i) == i \in Rows /\ row[i].state = "stored"
Unused == {i \in Rows : row[i].state = "none"}
Count == Cardinality({i \in Rows : Stored(i)})

\* The platform's token is configured; the user's is found while the connection is active.
HasToken == Byo => connection.active

\* A call that is not about a team's account ends with the configured scope, or none.
RightScope(p) == ~(p = "vercel" /\ Byo /\ connection.team)

----------------------------------------------------------------------------
\* Requests

Begin(s, v) ==
  /\ session[s].pc = "idle"
  /\ v.ask \in Asks
  /\ session' = [session EXCEPT ![s] = v]

\* A creation or setup of a project asks for its targets, once.
ProvisionForProject(s) ==
  /\ project = "new"
  /\ \E todo \in {<<"render">>, <<"vercel">>, <<"render", "vercel">>}, wants \in {{LinkKey}, Keys \ {LinkKey}} :
       Begin(s, [IdleSession EXCEPT !.ask = "provision", !.pc = "admit", !.todo = todo, !.wants = wants,
                                    !.asked = {todo[n] : n \in DOMAIN todo}])
  /\ project' = "provisioned"
  /\ UNCHANGED <<resource, row, connection, secret, targetFaults>>

CreateTarget(s) ==
  /\ project # "gone"
  /\ \E ask \in {"create", "register"}, p \in Providers : 
       Begin(s, [IdleSession EXCEPT !.ask = ask, !.pc = "admit", !.todo = <<p>>])
  /\ UNCHANGED <<resource, row, project, connection, secret, targetFaults>>

\* A request about a target reads its row first (getOwnedTargetOrThrow).
OnTarget(s, ask, pc, i, wants) ==
  /\ Stored(i)
  /\ Begin(s, [IdleSession EXCEPT !.ask = ask, !.pc = pc, !.row = i, !.on = row[i].resource,
                                  !.read = row[i].metadata, !.wants = wants,
                                  !.todo = <<resource[row[i].resource].on>>])
  /\ UNCHANGED <<resource, row, project, connection, secret, targetFaults>>

SyncTarget(s) == \E i \in Rows : OnTarget(s, "sync", "status", i, {})
DetachTarget(s) == \E i \in Rows : OnTarget(s, "detach", "drop", i, {})
DeleteTarget(s) == \E i \in Rows : OnTarget(s, "delete", "destroy", i, {})
ProvisionEnvVars(s) == \E i \in Rows, k \in Keys : OnTarget(s, "set", "envRead", i, {k})
DeleteEnvMetadata(s) == \E i \in Rows : \E k \in row[i].keys : OnTarget(s, "unset", "envRead", i, {k})

\* The user revokes the connection; a disconnected project takes its rows along (cascade).
RevokeConnection ==
  /\ "revoked" \in Faults /\ Byo /\ connection.active
  /\ connection' = [connection EXCEPT !.active = FALSE]
  /\ UNCHANGED <<resource, row, project, secret, session, targetFaults>>

DisconnectProject ==
  /\ "gone" \in Faults /\ project = "provisioned"
  /\ project' = "gone"
  /\ row' = [i \in Rows |-> IF Stored(i) THEN Deleted(row[i]) ELSE row[i]]
  /\ UNCHANGED <<resource, connection, secret, session, targetFaults>>

\* Someone deletes a resource in the provider's dashboard.
DeletedOutside ==
  /\ "outside" \in Faults /\ targetFaults < MaxTargetFaults
  /\ \E r \in Resources : Live(r) /\ resource' = [resource EXCEPT ![r].state = "gone"]
  /\ targetFaults' = targetFaults + 1
  /\ UNCHANGED <<row, project, connection, secret, session>>

----------------------------------------------------------------------------
\* How a request goes on

At(s, pc) == session[s].pc = pc
Head1(s) == Head(session[s].todo)
Provisions(s) == session[s].ask \in {"provision", "link"}

\* The cross-link pass needs a backend and a frontend, and spares the user's own keys.
Links(v) == \A p \in Providers : v.report[p] \in Rows
LinkPass(v) == [v EXCEPT !.ask = "link", !.todo = <<"render", "vercel">>, !.pc = "envRead", !.row = v.report["render"]]

Ended(v) == [IdleSession EXCEPT !.pc = "done", !.ask = v.ask, !.asked = v.asked, !.report = v.report]

\* The next target of a provisioning, the pass after the last one, or the end.
Onward(v, outcome) ==
  LET told == IF v.ask = "provision" THEN [v EXCEPT !.report[Head(v.todo)] = outcome] ELSE v
      rest == [told EXCEPT !.todo = Tail(@)]
  IN  CASE v.ask \notin {"provision", "link"} -> Ended(rest)
        [] rest.todo # <<>> /\ v.ask = "provision" ->
             [IdleSession EXCEPT !.pc = "admit", !.ask = v.ask, !.asked = v.asked, !.todo = rest.todo,
                       !.wants = v.wants, !.report = rest.report]
        [] rest.todo # <<>> /\ v.ask = "link" -> [rest EXCEPT !.pc = "envRead", !.row = rest.report[Head(rest.todo)]]
        [] rest.todo = <<>> /\ v.ask = "provision" /\ Links(rest) /\ LinkKey \notin rest.wants -> LinkPass(rest)
        [] OTHER -> Ended(rest)

Done(s) == session' = [session EXCEPT ![s] = Onward(@, @.row)]

\* An error: caught per target by a provisioning, and what ends any other request.
Fails(s) == session' = [session EXCEPT ![s] = Onward(@, "failed")]

\* Mutant: the URL's secret is forgotten.
AfterOneSecret(s) ==
  CASE session[s].pc = "insert" -> IF Provisions(s) THEN "secretId" ELSE "done"
    [] session[s].pc = "secretId" -> "record"
    [] session[s].pc = "record" -> IF session[s].wants = {} THEN "done" ELSE "envRead"
    [] OTHER -> "done"

After(s) ==
  CASE session[s].pc = "insert" /\ ~Provisions(s) -> "done"
    [] session[s].pc = "insert" /\ Provisions(s) -> "secretId"
    [] session[s].pc = "secretId" -> IF Head1(s) = "render" THEN "secretUrl" ELSE "record"
    [] session[s].pc = "secretUrl" -> "record"
    [] session[s].pc = "record" -> IF session[s].wants = {} THEN "done" ELSE "envRead"
    [] OTHER -> "done"

\* The step after this one, or the end of the target.
Advance(s, v) ==
  session' = [session EXCEPT ![s] =
    IF After(s) = "done" THEN Onward(v, v.row) ELSE [v EXCEPT !.pc = After(s)]]

\* Mutant: the clean-up of a failed target deletes its row, not its resource.
StepFailsTidy(s) ==
  /\ "refused" \in Faults /\ targetFaults < MaxTargetFaults
  /\ session[s].pc \notin {"idle", "done", "drop", "destroy", "status", "metadata"}
  /\ Fails(s)
  /\ targetFaults' = targetFaults + 1
  /\ row' = IF Stored(session[s].row) THEN [row EXCEPT ![session[s].row] = Deleted(@)] ELSE row
  /\ UNCHANGED <<resource, project, connection, secret>>

\* An external call or statement fails; the row or the token may be the reason.
StepFails(s) ==
  /\ "refused" \in Faults /\ targetFaults < MaxTargetFaults
  /\ session[s].pc \notin {"idle", "done", "drop", "destroy", "status", "metadata"}
  /\ Fails(s)
  /\ targetFaults' = targetFaults + 1
  /\ UNCHANGED <<resource, row, project, connection, secret>>

Crash(s) ==
  /\ "crash" \in Faults /\ targetFaults < MaxTargetFaults
  /\ session[s].pc \notin {"idle", "done"}
  /\ session' = [session EXCEPT ![s] = Ended(IdleSession)]
  /\ targetFaults' = targetFaults + 1
  /\ UNCHANGED <<resource, row, project, connection, secret>>

Answered(s, v) ==
  \/ Advance(s, v) /\ targetFaults' = targetFaults
  \/ "unanswered" \in Faults /\ targetFaults < MaxTargetFaults /\ Fails(s) /\ targetFaults' = targetFaults + 1

----------------------------------------------------------------------------
\* createDeploymentTarget

\* Bound: a request is let in only while there are ids for what it inserts.
Spare == Cardinality(Unused) > Cardinality({t \in Sessions : session[t].pc \in {"create", "insert"}})

\* The quota is counted and the token read; the insert is several awaits away.
Admit(s) ==
  /\ At(s, "admit")
  /\ IF Count + 1 <= Limit /\ HasToken /\ project # "gone" /\ Spare
     THEN session' = [session EXCEPT ![s].pc = "create", ![s].count = Count]
     ELSE Fails(s)
  /\ UNCHANGED <<resource, row, project, connection, secret, targetFaults>>

Fresh(r) == resource[r].state = "none"
OfItsKind(s, r) == Live(r) /\ resource[r].on = Head1(s)

Born(s) == [state |-> "live", on |-> Head1(s), env |-> Bare]

CreateResource(s) ==
  /\ At(s, "create") /\ session[s].ask # "register"
  /\ \E r \in Resources : Fresh(r)
  /\ LET r == CHOOSE x \in Resources : Fresh(x) IN
       /\ resource' = [resource EXCEPT ![r] = Born(s)]
       /\ \/ /\ session' = [session EXCEPT ![s].pc = "insert", ![s].on = r, ![s].read.found = TRUE]
             /\ targetFaults' = targetFaults
          \/ "unanswered" \in Faults /\ targetFaults < MaxTargetFaults /\ Fails(s) /\ targetFaults' = targetFaults + 1
  /\ UNCHANGED <<row, project, connection, secret>>

\* Bound: no id is left, which a request takes for a refusal.
CreateRefused(s) ==
  /\ At(s, "create")
  /\ \A r \in Resources : IF session[s].ask = "register" THEN ~OfItsKind(s, r) ELSE ~Fresh(r)
  /\ Fails(s)
  /\ UNCHANGED <<resource, row, project, connection, secret, targetFaults>>

\* Nothing is asked of the provider: the ids are taken from the request.
RegisterExisting(s) ==
  /\ At(s, "create") /\ session[s].ask \in {"register", "provision"}
  /\ \E r \in Resources : /\ OfItsKind(s, r)
                          /\ session' = [session EXCEPT ![s].pc = "insert", ![s].on = r, ![s].read.found = FALSE]
  /\ UNCHANGED <<resource, row, project, connection, secret, targetFaults>>

InsertRow(s) ==
  /\ At(s, "insert") /\ project # "gone"
  /\ LET i == CHOOSE j \in Unused : TRUE IN
       /\ row' = [row EXCEPT ![i] = [Empty EXCEPT !.state = "stored", !.resource = session[s].on, !.metadata = session[s].read]]
       /\ Answered(s, [session[s] EXCEPT !.row = i])
  /\ UNCHANGED <<resource, project, connection, secret>>

\* The project is gone: its foreign key refuses the row.
InsertRefused(s) ==
  /\ At(s, "insert") /\ project = "gone"
  /\ Fails(s)
  /\ UNCHANGED <<resource, row, project, connection, secret, targetFaults>>

----------------------------------------------------------------------------
\* What provisionForProject does with a created target

\* One PUT per secret, in order: the service's id, then where it is reached.
PutSecret(s, part) ==
  /\ secret' = [secret EXCEPT ![Head1(s)][part] = session[s].on]
  /\ Answered(s, session[s])

InstallSecretId(s) ==
  /\ At(s, "secretId")
  /\ IF ~HasToken
     THEN Fails(s) /\ UNCHANGED <<secret, targetFaults>>
     ELSE IF Head1(s) = "render"
          THEN PutSecret(s, "id")
          ELSE /\ secret' = [secret EXCEPT !["vercel"] = [id |-> session[s].on, url |-> session[s].on]]
               /\ Answered(s, session[s])
  /\ UNCHANGED <<resource, row, project, connection>>

InstallSecretUrl(s) ==
  /\ At(s, "secretUrl")
  /\ PutSecret(s, "url")
  /\ UNCHANGED <<resource, row, project, connection>>

\* The metadata is written whole: what the creation returned, and the names of the secrets.
RecordedMetadata(s) == [session[s].read EXCEPT !.secrets = TRUE]

RecordSecrets(s) ==
  /\ At(s, "record")
  /\ IF Stored(session[s].row)
     THEN /\ row' = [row EXCEPT ![session[s].row].metadata = RecordedMetadata(s)]
          /\ Answered(s, session[s])
     ELSE Fails(s) /\ UNCHANGED <<row, targetFaults>>
  /\ UNCHANGED <<resource, project, connection, secret>>

----------------------------------------------------------------------------
\* Environment variables

Vars(s) == IF session[s].ask = "link" THEN {LinkKey} ELSE session[s].wants
Value(s) == IF session[s].ask = "link" THEN "link" ELSE IF session[s].ask = "unset" THEN "none" ELSE "user"

\* The row, the token, and Render's list as it is now.
EnvRead(s) ==
  /\ At(s, "envRead")
  /\ IF Stored(session[s].row) /\ HasToken /\ Live(row[session[s].row].resource)
     THEN session' = [session EXCEPT ![s].pc = "envWrite", ![s].on = row[session[s].row].resource,
                                     ![s].env = resource[row[session[s].row].resource].env]
     ELSE Fails(s)
  /\ UNCHANGED <<resource, row, project, connection, secret, targetFaults>>

\* Mutant: the list that is sent holds only the request's variables.
Alone(s) == [k \in Keys |-> IF k \in Vars(s) THEN Value(s) ELSE "none"]

\* Render gets the whole list that was read, changed; Vercel one variable at a time.
Changed(s, base) == [k \in Keys |-> IF k \in Vars(s) THEN Value(s) ELSE base[k]]
ReplacedList(s) == Changed(s, session[s].env)
UpsertedVars(s) == Changed(s, resource[session[s].on].env)
Sent(s) == IF Head1(s) = "render" THEN ReplacedList(s) ELSE UpsertedVars(s)

EnvWrite(s) ==
  /\ At(s, "envWrite")
  /\ IF Live(session[s].on) /\ RightScope(Head1(s))
     THEN /\ resource' = [resource EXCEPT ![session[s].on].env = Sent(s)]
          /\ \/ session' = [session EXCEPT ![s].pc = "envRecord"] /\ targetFaults' = targetFaults
             \/ "unanswered" \in Faults /\ targetFaults < MaxTargetFaults /\ Fails(s) /\ targetFaults' = targetFaults + 1
     ELSE Fails(s) /\ UNCHANGED <<resource, targetFaults>>
  /\ UNCHANGED <<row, project, connection, secret>>

EnvRecord(s) ==
  /\ At(s, "envRecord")
  /\ IF Stored(session[s].row)
     THEN /\ row' = [row EXCEPT ![session[s].row].keys =
                       IF session[s].ask = "unset" THEN @ \ Vars(s) ELSE @ \cup Vars(s)]
          /\ Done(s)
     ELSE Fails(s) /\ UNCHANGED row
  /\ UNCHANGED <<resource, project, connection, secret, targetFaults>>

----------------------------------------------------------------------------
\* syncDeploymentTarget

Exists(s) == Live(session[s].on)

\* A live check that cannot be made, or finds nothing, is only a finding.
CheckStatus(s) ==
  /\ At(s, "status")
  /\ IF HasToken /\ Exists(s) /\ ~session[s].read.found
     THEN session' = [session EXCEPT ![s].pc = "metadata"]
     ELSE Done(s)
  /\ UNCHANGED <<resource, row, project, connection, secret, targetFaults>>

\* The discovered fields are added to the metadata as it was read.
Backfill(s) ==
  /\ At(s, "metadata")
  /\ row' = IF Stored(session[s].row)
            THEN [row EXCEPT ![session[s].row].metadata = [session[s].read EXCEPT !.found = TRUE]]
            ELSE row
  /\ Done(s)
  /\ UNCHANGED <<resource, project, connection, secret, targetFaults>>

----------------------------------------------------------------------------
\* detachDeploymentTarget

Removed(r) == resource' = [resource EXCEPT ![r].state = "gone"]

\* What the provider's DELETE answers, and does: a 404 counts as deleted.
DeleteResource(s) ==
  LET r == session[s].on
      Says(what) == session' = [session EXCEPT ![s].pc = "drop", ![s].said = what]
  IN  /\ At(s, "destroy")
      /\ \/ ~HasToken /\ Says("error") /\ UNCHANGED <<resource, targetFaults>>
         \/ HasToken /\ Live(r) /\ RightScope(Head1(s)) /\ Removed(r) /\ Says("deleted") /\ UNCHANGED targetFaults
         \/ HasToken /\ (Live(r) => ~RightScope(Head1(s))) /\ Says("deleted") /\ UNCHANGED <<resource, targetFaults>>
         \/ /\ Faults \cap {"refused", "unanswered"} # {} /\ targetFaults < MaxTargetFaults
            /\ Says("error") /\ targetFaults' = targetFaults + 1
            /\ \/ "refused" \in Faults /\ UNCHANGED resource
               \/ "unanswered" \in Faults /\ HasToken /\ Live(r) /\ RightScope(Head1(s)) /\ Removed(r)
      /\ UNCHANGED <<row, project, connection, secret>>

\* The row goes whatever the provider said.
DropRow(s) ==
  /\ At(s, "drop")
  /\ row' = IF Stored(session[s].row) THEN [row EXCEPT ![session[s].row] = Deleted(@)] ELSE row
  /\ Done(s)
  /\ UNCHANGED <<resource, project, connection, secret, targetFaults>>

----------------------------------------------------------------------------
MakeRequest(s) ==
  \/ ProvisionForProject(s) \/ CreateTarget(s) \/ SyncTarget(s) \/ DetachTarget(s)
  \/ DeleteTarget(s) \/ ProvisionEnvVars(s) \/ DeleteEnvMetadata(s)

Step(s) ==
  \/ Admit(s) \/ CreateResource(s) \/ CreateRefused(s) \/ RegisterExisting(s) \/ InsertRow(s) \/ InsertRefused(s)
  \/ InstallSecretId(s) \/ InstallSecretUrl(s) \/ RecordSecrets(s)
  \/ EnvRead(s) \/ EnvWrite(s) \/ EnvRecord(s)
  \/ CheckStatus(s) \/ Backfill(s) \/ DeleteResource(s) \/ DropRow(s)

Mishap(s) == StepFails(s) \/ Crash(s)

HostingNext ==
  \/ \E s \in Sessions : MakeRequest(s) \/ Step(s) \/ Mishap(s)
  \/ RevokeConnection \/ DisconnectProject \/ DeletedOutside

HostingSpec == HostingInit /\ [][HostingNext]_hostingVars

----------------------------------------------------------------------------
\* Properties

\* Tables, secrets, resources and requests have the shapes the code gives them.
HostingTypeOK ==
  /\ resource \in [Resources -> Resource]
  /\ row \in [Rows -> Row]
  /\ project \in {"new", "provisioned", "gone"}
  /\ connection \in [active : BOOLEAN, team : BOOLEAN]
  /\ secret \in [Providers -> [id : Resources \cup {Absent}, url : Resources \cup {Absent}]]
  /\ session \in [Sessions -> Session]
  /\ targetFaults \in 0..MaxTargetFaults

\* A target that a provisioning reports as created has all of its deployment
\* secrets in the repository, and they name its own service: a failure of any of
\* the PUTs is the target's failure.
CreatedIsWhole ==
  \A s \in Sessions, p \in Providers : session[s].report[p] \in Rows =>
    LET r == row[session[s].report[p]].resource IN secret[p] = [id |-> r, url |-> r]

\* When a detach is about to tell its user that the resource was deleted, it is
\* not there any more.  But for a resource of a team's Vercel account: DELETE is
\* sent without the team, and the 404 it gets counts as deleted.
DeletedIsGone ==
  \A s \in Sessions : At(s, "drop") /\ session[s].said = "deleted" =>
    ~Live(session[s].on) \/ ~RightScope(Head1(s))

Tracked(r) ==
  \/ \E i \in Rows : Stored(i) /\ row[i].resource = r
  \/ \E s \in Sessions : At(s, "insert") /\ session[s].on = r

\* A running resource is lost track of only when its project is disconnected, when
\* a detach that does not call it deleted drops its row, or when the request that
\* created it ends before the row is written: never by a failure after that.
StrandedOnlyBeforeItsRow ==
  [][\A r \in Resources : Tracked(r) /\ ~Tracked(r)' /\ Live(r)' =>
       \/ project' = "gone"
       \/ \E s \in Sessions : /\ session[s].on = r
                              /\ \/ At(s, "insert")
                                 \/ At(s, "drop") /\ (session[s].said = "deleted" => ~RightScope(Head1(s)))]_hostingVars

\* A variable that a running service has disappears only because its removal was
\* asked for, or because of a list that was read before the variable was there.
KeyLostOnlyByOverlap ==
  [][\A r \in Resources, k \in Keys :
       Live(r) /\ resource[r].env[k] # "none" /\ resource'[r].env[k] = "none" =>
         \E s \in Sessions : /\ At(s, "envWrite") /\ session[s].on = r
                            /\ \/ session[s].ask = "unset" /\ k \in Vars(s)
                               \/ session[s].env[k] = "none"]_hostingVars

\* What a target's metadata records is forgotten only through a write that was
\* prepared before it was recorded.
ForgottenOnlyByStaleWrite ==
  [][\A i \in Rows, f \in {"secrets", "found"} :
       Stored(i) /\ Stored(i)' /\ row[i].metadata[f] /\ ~row'[i].metadata[f] =>
         \E s \in Sessions : session[s].row = i /\ ~session[s].read[f]]_hostingVars

\* A row over the plan's limit is inserted only by a request that counted before
\* another one inserted: one request at a time never exceeds it.
OvershootOnlyByOverlap ==
  [][Count' > Limit /\ Count' > Count =>
       \E s \in Sessions : At(s, "insert") /\ session[s].count < Count]_hostingVars

\* When a provisioning has ended, each target it was asked for is reported, created
\* or failed: one target's failure does not keep the next from its turn.
EveryTargetReported ==
  \A s \in Sessions : At(s, "done") =>
    \A p \in session[s].asked : session[s].report[p] # Absent

\* What a provisioning or a detach tells its user of every target is so, and the
\* state is of its type.  (provisionForProject,
\* detachDeploymentTarget.)
ReportsAreTrue == HostingTypeOK /\ CreatedIsWhole /\ DeletedIsGone /\ EveryTargetReported

\* No variable of a service and nothing recorded of a target is lost, and no limit
\* exceeded, but by two requests that read and wrote across one another.  (provisionEnvVars,
\* deleteEnvMetadata.)
LostOnlyByOverlap == KeyLostOnlyByOverlap /\ ForgottenOnlyByStaleWrite /\ OvershootOnlyByOverlap
====
