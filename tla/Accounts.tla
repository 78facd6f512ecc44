---- MODULE Accounts ----
(***************************************************************************)
(* The account of one GitHub user: signing in from several browsers,       *)
(* archiving, restoring, starting fresh, the retention purge, and the      *)
(* subscription rows of the account.                                       *)
(*                                                                         *)
(* The row is found by the GitHub id, sessions by the row's id.  A session *)
(* keeps a copy of its user and is not looked up again, and what a browser *)
(* is asked to choose about an archived account is kept in its session,    *)
(* whatever becomes of the account meanwhile.                              *)
(***************************************************************************)
EXTENDS Naturals, FiniteSets, FiniteSetsExt

CONSTANTS
  Browsers,   \* browsers of the user, each with one session and one request at a time
  MaxIds,     \* bound: rows the account may have, one after the other
  MaxStamps,  \* bound: subscription rows of one row of the account
  MaxFaults   \* bound: requests that are cut short

ASSUME AccountsAssumption == MaxIds \in Nat /\ MaxStamps \in Nat /\ MaxFaults \in Nat

VARIABLES
  account,    \* identity.app_users: the row with the GitHub id, id 0 if there is none
  made,       \* how many rows were inserted; their ids are 1, 2, ...
  plans,      \* billing.user_subscriptions of that row; "at" orders created_at
  states,     \* identity.oauth_states: browsers whose state is stored and not expired
  session,    \* per browser: the signed-in row's id or 0, and pendingArchived
  flow,       \* per browser: its request between two awaits
  faults,
  \* What happened before, for the properties to tell a mishap from the rule:
  stale,      \* signed-in browsers whose account was ended by another browser or the purge
  overtaken,  \* browsers whose pending choice is about an archive that is no more
  mishap      \* "purged", "broken fresh", "crossed plans"

vars == <<account, made, plans, states, session, flow, faults, stale, overtaken, mishap>>

Steps == {"idle", "github", "resolve", "upsert", "plan", "free", "session", "destroy",
          "cancel old", "insert paid"}
Plan == [at : 1..MaxStamps, plan : {"free", "pro"}, active : BOOLEAN]
Idle == [at |-> "idle", id |-> 0, fresh |-> FALSE, late |-> FALSE, mark |-> 0, hit |-> {}]
SignedOut == [user |-> 0, pending |-> FALSE]
NoAccount == [id |-> 0, archived |-> "no"]

TypeOK ==
  /\ account \in [id : 0..MaxIds, archived : {"no", "recent", "expired"}]
  /\ made \in 0..MaxIds /\ account.id <= made
  /\ plans \subseteq Plan
  /\ states \subseteq Browsers
  /\ session \in [Browsers -> [user : 0..MaxIds, pending : BOOLEAN]]
  /\ flow \in [Browsers -> [at : Steps, id : 0..MaxIds, fresh : BOOLEAN, late : BOOLEAN,
                            mark : 0..MaxStamps, hit : SUBSET (1..MaxStamps)]]
  /\ faults \in 0..MaxFaults
  /\ stale \subseteq Browsers /\ overtaken \subseteq Browsers
  /\ mishap \subseteq {"purged", "broken fresh", "crossed plans"}

Init ==
  /\ account = NoAccount /\ made = 0 /\ plans = {} /\ states = {}
  /\ session = [b \in Browsers |-> SignedOut]
  /\ flow = [b \in Browsers |-> Idle]
  /\ faults = 0 /\ stale = {} /\ overtaken = {} /\ mishap = {}

At(b, step) == flow[b].at = step
To(b, step) == flow' = [flow EXCEPT ![b].at = step]
Done(b) == flow' = [flow EXCEPT ![b] = Idle]

Active(id) == id # 0 /\ account = [id |-> id, archived |-> "no"]
SignedIn(b) == session[b].user # 0
Busy(b) == ~At(b, "idle") /\ ~At(b, "github")
HasFound(b) == flow[b].at \in {"upsert", "plan", "free", "session"}

\* What the end of the account leaves behind: sessions of an account that is not
\* there, and sign-ins that found it before.
SignedInExcept(bs) == {c \in Browsers \ bs : SignedIn(c)}
Overtake(b, mine) ==
  flow' = [c \in Browsers |-> IF c = b THEN mine ELSE [flow[c] EXCEPT !.late = @ \/ HasFound(c)]]
Choosing == {c \in Browsers : session[c].pending}

----------------------------------------------------------------------------
\* Signing in

StartGitHubAuth(b) ==
  /\ At(b, "idle")
  /\ states' = states \cup {b}
  /\ To(b, "github")
  /\ UNCHANGED <<account, made, plans, session, faults, stale, overtaken, mishap>>

\* Ten minutes pass; the row counts for nothing, pruned or not.
StateExpires(b) ==
  /\ b \in states
  /\ states' = states \ {b}
  /\ UNCHANGED <<account, made, plans, session, flow, faults, stale, overtaken, mishap>>

\* The state is deleted by the statement that looks it up; without it, invalid_state.
HandleCallback(b) ==
  /\ At(b, "github")
  /\ states' = states \ {b}
  /\ To(b, IF b \in states THEN "resolve" ELSE "idle")
  /\ UNCHANGED <<account, made, plans, session, faults, stale, overtaken, mishap>>

\* GitHub refuses the code or does not answer, or the internal organisation's gate
\* does not let the user in: nothing is stored.
Unauthorized(b) ==
  /\ At(b, "resolve")
  /\ Done(b)
  /\ UNCHANGED <<account, made, plans, states, session, faults, stale, overtaken, mishap>>

\* Mutant: an archived account signs its user in.
ResolveAnyAccount(b) ==
  /\ At(b, "resolve")
  /\ To(b, "upsert")
  /\ UNCHANGED <<account, made, plans, states, session, faults, stale, overtaken, mishap>>

\* An archived account signs nobody in; the session gets the choice to make.
ResolveAccountState(b) ==
  /\ At(b, "resolve")
  /\ IF account.archived # "no"
     THEN /\ session' = [session EXCEPT ![b].pending = TRUE]
          /\ overtaken' = overtaken \ {b}
          /\ Done(b)
     ELSE To(b, "upsert") /\ UNCHANGED <<session, overtaken>>
  /\ UNCHANGED <<account, made, plans, states, faults, stale, mishap>>

\* INSERT ... ON CONFLICT (github_user_id): a row that is there stays as it is,
\* archived if it was archived since it was read.
UpsertGitHubUser(b) ==
  /\ At(b, "upsert")
  /\ IF account.id # 0
     THEN UNCHANGED <<account, made>>
     ELSE made < MaxIds /\ made' = made + 1 /\ account' = [id |-> made + 1, archived |-> "no"]
  /\ flow' = [flow EXCEPT ![b].at = "plan", ![b].id = account'.id]
  /\ UNCHANGED <<plans, states, session, faults, stale, overtaken, mishap>>

\* Reads of a row that is gone find no subscription.
CurrentRow(id) ==
  IF id # account.id \/ plans = {} THEN {}
  ELSE {CHOOSE p \in plans : \A q \in plans : q.at <= p.at}

GetCurrentPlan(b) ==
  /\ At(b, "plan")
  /\ To(b, IF CurrentRow(flow[b].id) = {} THEN "free" ELSE "session")
  /\ UNCHANGED <<account, made, plans, states, session, faults, stale, overtaken, mishap>>

Stamp == Max({0} \cup {p.at : p \in plans} \cup {flow[b].mark : b \in Browsers}) + 1

\* The foreign key refuses a row for an account that is gone, and the sign-in fails.
InsertFreePlan(b) ==
  /\ At(b, "free")
  /\ IF flow[b].id = account.id
     THEN /\ Stamp <= MaxStamps
          /\ plans' = plans \cup {[at |-> Stamp, plan |-> "free", active |-> TRUE]}
          /\ mishap' = mishap \cup (IF plans # {} \/ \E c \in Browsers : At(c, "insert paid")
                                    THEN {"crossed plans"} ELSE {})
          /\ To(b, "session")
     ELSE UNCHANGED <<plans, mishap>> /\ Done(b)
  /\ UNCHANGED <<account, made, states, session, faults, stale, overtaken>>

EstablishSession(b) ==
  /\ At(b, "session")
  /\ session' = [session EXCEPT ![b] = [user |-> flow[b].id, pending |-> FALSE]]
  /\ stale' = IF flow[b].late THEN stale \cup {b} ELSE stale \ {b}
  /\ overtaken' = overtaken \ {b}
  /\ Done(b)
  /\ UNCHANGED <<account, made, plans, states, faults, mishap>>

Logout(b) ==
  /\ At(b, "idle") /\ SignedIn(b)
  /\ session' = [session EXCEPT ![b] = SignedOut]
  /\ stale' = stale \ {b} /\ overtaken' = overtaken \ {b}
  /\ UNCHANGED <<account, made, plans, states, flow, faults, mishap>>

----------------------------------------------------------------------------
\* Archiving, restoring, starting fresh

\* A row that is gone or archived already is left as it is, and the session ends
\* all the same.
DeleteAccount(b) ==
  /\ At(b, "idle") /\ SignedIn(b)
  /\ IF Active(session[b].user)
     THEN /\ account' = [account EXCEPT !.archived = "recent"]
          /\ stale' = stale \cup SignedInExcept({b})
          /\ Overtake(b, [flow[b] EXCEPT !.at = "destroy"])
     ELSE UNCHANGED <<account, stale>> /\ To(b, "destroy")
  /\ UNCHANGED <<made, plans, states, session, faults, overtaken, mishap>>

DestroySession(b) ==
  /\ At(b, "destroy")
  /\ session' = [session EXCEPT ![b] = SignedOut]
  /\ stale' = stale \ {b} /\ overtaken' = overtaken \ {b}
  /\ Done(b)
  /\ UNCHANGED <<account, made, plans, states, faults, mishap>>

\* By the GitHub id, archived or not; without a row the request fails.
RestoreArchivedAccount(b) ==
  /\ At(b, "idle") /\ session[b].pending /\ account.id # 0
  /\ account' = [account EXCEPT !.archived = "no"]
  /\ overtaken' = overtaken \cup Choosing
  /\ flow' = [flow EXCEPT ![b].at = "session", ![b].id = account.id]
  /\ UNCHANGED <<made, plans, states, session, faults, stale, mishap>>

\* The row of the GitHub id goes, archived or not, and everything with it.
StartFreshAccount(b) ==
  /\ At(b, "idle") /\ session[b].pending
  /\ account' = NoAccount /\ plans' = {}
  /\ stale' = stale \cup SignedInExcept({})
  /\ Overtake(b, [Idle EXCEPT !.at = "upsert", !.fresh = TRUE])
  /\ overtaken' = overtaken \cup Choosing
  /\ UNCHANGED <<made, states, session, faults, mishap>>

RetentionPasses ==
  /\ account.archived = "recent"
  /\ account' = [account EXCEPT !.archived = "expired"]
  /\ UNCHANGED <<made, plans, states, session, flow, faults, stale, overtaken, mishap>>

\* Mutant: the purge forgets the retention.
PurgeArchived ==
  /\ account.archived # "no"
  /\ account' = NoAccount /\ plans' = {}
  /\ flow' = [c \in Browsers |-> [flow[c] EXCEPT !.late = @ \/ HasFound(c)]]
  /\ stale' = stale \cup SignedInExcept({})
  /\ overtaken' = overtaken \cup Choosing
  /\ mishap' = mishap \cup {"purged"}
  /\ UNCHANGED <<made, states, session, faults>>

\* Run from outside, once a day.
PurgeExpiredArchived ==
  /\ account.archived = "expired"
  /\ account' = NoAccount /\ plans' = {}
  /\ flow' = [c \in Browsers |-> [flow[c] EXCEPT !.late = @ \/ HasFound(c)]]
  /\ stale' = stale \cup SignedInExcept({})
  /\ overtaken' = overtaken \cup Choosing
  /\ mishap' = mishap \cup {"purged"}
  /\ UNCHANGED <<made, states, session, faults>>

----------------------------------------------------------------------------
\* Subscriptions

\* NOW() is the start of the transaction, whatever is inserted before it commits.
BeginMonthlyPlan(b) ==
  /\ At(b, "idle") /\ SignedIn(b) /\ Stamp <= MaxStamps
  /\ flow' = [flow EXCEPT ![b].at = "cancel old", ![b].id = session[b].user, ![b].mark = Stamp]
  /\ UNCHANGED <<account, made, plans, states, session, faults, stale, overtaken, mishap>>

\* Mutant: a new plan is inserted beside the active one.
CancelNoPlans(b) ==
  /\ At(b, "cancel old")
  /\ To(b, "insert paid")
  /\ UNCHANGED <<account, made, plans, states, session, faults, stale, overtaken, mishap>>

CancelActivePlans(b) ==
  /\ At(b, "cancel old")
  /\ flow' = [flow EXCEPT ![b].at = "insert paid",
                          ![b].hit = IF flow[b].id = account.id
                                     THEN {p.at : p \in {q \in plans : q.active}} ELSE {}]
  /\ UNCHANGED <<account, made, plans, states, session, faults, stale, overtaken, mishap>>

\* INSERT and COMMIT; the rows found active are canceled in the same transaction.
InsertMonthlyPlan(b) ==
  /\ At(b, "insert paid")
  /\ IF flow[b].id = account.id
     THEN /\ plans' = {[p EXCEPT !.active = @ /\ p.at \notin flow[b].hit] : p \in plans}
                      \cup {[at |-> flow[b].mark, plan |-> "pro", active |-> TRUE]}
          /\ mishap' = mishap \cup
               (IF \/ \E c \in Browsers \ {b} : At(c, "insert paid")
                   \/ \E p \in plans : p.at > flow[b].mark
                THEN {"crossed plans"} ELSE {})
     ELSE UNCHANGED <<plans, mishap>>
  /\ Done(b)
  /\ UNCHANGED <<account, made, states, session, faults, stale, overtaken>>

\* The newest row, active or not.
CancelCurrent(b) ==
  /\ At(b, "idle") /\ SignedIn(b)
  /\ LET current == CurrentRow(session[b].user)
     IN  plans' = (plans \ current) \cup {[p EXCEPT !.active = FALSE] : p \in current}
  /\ UNCHANGED <<account, made, states, session, flow, faults, stale, overtaken, mishap>>

----------------------------------------------------------------------------
\* The process stops, or the database refuses a statement: what was done stays.
StepFails(b) ==
  /\ Busy(b) /\ faults < MaxFaults
  /\ faults' = faults + 1
  /\ stale' = IF At(b, "destroy") THEN stale \cup {b} ELSE stale
  /\ mishap' = IF flow[b].fresh /\ At(b, "upsert") THEN mishap \cup {"broken fresh"} ELSE mishap
  /\ Done(b)
  /\ UNCHANGED <<account, made, plans, states, session, overtaken>>

SignInStep(b) ==
  \/ StartGitHubAuth(b) \/ StateExpires(b) \/ HandleCallback(b) \/ Unauthorized(b)
  \/ ResolveAccountState(b) \/ UpsertGitHubUser(b) \/ GetCurrentPlan(b) \/ InsertFreePlan(b)
  \/ EstablishSession(b) \/ Logout(b)

AccountStep(b) ==
  \/ DeleteAccount(b) \/ DestroySession(b) \/ RestoreArchivedAccount(b) \/ StartFreshAccount(b)

PlanStep(b) ==
  \/ BeginMonthlyPlan(b) \/ CancelActivePlans(b) \/ InsertMonthlyPlan(b) \/ CancelCurrent(b)

Next ==
  \/ \E b \in Browsers : SignInStep(b) \/ AccountStep(b) \/ PlanStep(b) \/ StepFails(b)
  \/ RetentionPasses \/ PurgeExpiredArchived

Spec == Init /\ [][Next]_vars

----------------------------------------------------------------------------
\* Properties

\* Nobody is signed in to an account that is archived or gone, but for browsers in
\* which the account was found, or was open, before another one ended it, and the
\* one that ended it while its session is being destroyed or if that failed.
\* (deleteAccount, auth.service.ts:152: "so the user cannot continue using a
\* now-archived account"; it ends one session.)
HeldOnlyElsewhere ==
  \A b \in Browsers :
    SignedIn(b) /\ ~Active(session[b].user) => b \in stale \/ At(b, "destroy")

\* Only an archived account is ever deleted: by the purge once the retention has
\* passed, or by the choice of a browser to start fresh; an account in use goes
\* only by a choice made about an archive that is no more.
\* (hardDeleteByGithubUserId: "Hard-delete an archived row".)
DeletedOnlyAsArchived ==
  [][account.id # 0 /\ account'.id = 0
       => \/ account.archived = "expired"
          \/ \E b \in Browsers :
               /\ session[b].pending /\ flow'[b].fresh
               /\ account.archived = "recent" \/ b \in overtaken]_vars

\* Who had an account has one, unless it was purged or a fresh start is under way
\* or was cut short between the deletion and the insertion.
GoneOnlyByMishap ==
  made > 0 /\ account.id = 0
    => \/ mishap \cap {"purged", "broken fresh"} # {}
       \/ \E b \in Browsers : flow[b].fresh /\ At(b, "upsert")

\* No session outlives its account, and no account goes unasked; the state is of
\* its type.  (resolveAccountState, startFreshAccount.)
SessionsMatchAccounts == TypeOK /\ HeldOnlyElsewhere /\ GoneOnlyByMishap

\* At most one subscription is active, and it is the one that getCurrentByUserId
\* returns, unless insertions crossed.  (activateMonthlyPlan cancels what it finds;
\* ensureDefaultFreeSubscription reads, then inserts.)
PlanInForce ==
  "crossed plans" \notin mishap
    => \A p \in plans : p.active => \A q \in plans : q.at <= p.at
====
