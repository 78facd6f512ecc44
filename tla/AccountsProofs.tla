---- MODULE AccountsProofs ----
(***************************************************************************)
(* Sessions, subscriptions and deletions of Accounts, for any number of    *)
(* browsers, rows and subscriptions; and, in the second half, who may do   *)
(* what by Roles, for any number of users, requests, changes and faults.   *)
(***************************************************************************)
EXTENDS Accounts, Roles, FiniteSetTheorems, TLAPS

-----------------------------------------------------------------------------
(* The next place in the order of created_at is above all that are taken.  *)

LEMMA MaxOfNaturals ==
  ASSUME NEW n \in Nat, NEW S, S \subseteq 0..n, S # {}
  PROVE  Max(S) \in S /\ \A x \in S : x <= Max(S)
<1> DEFINE Above(x) == {y \in S : y > x}
           T == {Above(x) : x \in S}
<1>0. S \in SUBSET Nat /\ \A x \in S : x \in Nat /\ x <= n
  OBVIOUS
<1>1. IsFiniteSet(S)
  BY <1>0, FS_BoundedSetOfNaturals
<1>2. PICK t \in T : \A s \in T : ~(<<s, t>> \in StrictSubsetOrdering(S))
  <2>1. T \subseteq SUBSET S
    OBVIOUS
  <2>2. T # {}
    OBVIOUS
  <2>3. IsWellFoundedOn(StrictSubsetOrdering(S), SUBSET S)
    BY <1>1, FS_StrictSubsetOrderingWellFounded, FS_FiniteSubsetsOfFinite, Zenon
  <2> HIDE DEF T
  <2> QED
    BY <2>1, <2>2, <2>3, WFMin, Zenon
<1>3. PICK x \in S : t = Above(x)
  OBVIOUS
<1>4. ASSUME NEW y \in S, ~(y <= x) PROVE FALSE
  <2>1. y > x /\ \A z \in S : z > y => z > x
    BY <1>0, <1>4
  <2>2. Above(y) \in T /\ y \in Above(x)
    BY <2>1
  <2>3. y \notin Above(y)
    BY <1>0
  <2>4. Above(y) \subseteq Above(x)
    BY <2>1
  <2> HIDE DEF Above, T
  <2>5. Above(y) \in SUBSET S /\ Above(x) \in SUBSET S
    BY DEF Above
  <2>6. <<Above(y), t>> \in StrictSubsetOrdering(S)
    BY <1>3, <2>2, <2>3, <2>4, <2>5 DEF StrictSubsetOrdering
  <2> QED
    BY <1>2, <2>2, <2>6
<1>5. \A y \in S : x >= y
  BY <1>0, <1>4
<1>6. Max(S) \in S /\ \A y \in S : Max(S) >= y
  BY <1>5 DEF Max
<1> QED
  BY <1>0, <1>6

LEMMA StampIsNext ==
  ASSUME TypeOK
  PROVE  Stamp \in 1..(MaxStamps + 1)
<1> DEFINE S == {0} \cup {p.at : p \in plans} \cup {flow[b].mark : b \in Browsers}
<1>1. S \subseteq 0..MaxStamps /\ S # {}
  <2>1. \A p \in plans : p.at \in 0..MaxStamps
    <3>1. \A p \in Plan : p.at \in 0..MaxStamps
      BY DEF Plan
    <3> QED
      BY <3>1 DEF TypeOK
  <2>2. \A b \in Browsers : flow[b].mark \in 0..MaxStamps
    BY DEF TypeOK
  <2> QED
    BY <2>1, <2>2, AccountsAssumption DEF AccountsAssumption
<1>2. Max(S) \in 0..MaxStamps
  BY <1>1, MaxOfNaturals, AccountsAssumption DEF AccountsAssumption
<1> QED
  BY <1>2, AccountsAssumption DEF Stamp, AccountsAssumption

-----------------------------------------------------------------------------
(* Type correctness.  A request that buys has taken its place in the order *)
(* of created_at.                                                          *)

Buying(b) == flow[b].at \in {"cancel old", "insert paid"}
MarksSet == \A b \in Browsers : Buying(b) => flow[b].mark # 0
Typed == TypeOK /\ MarksSet

Flow == [at : Steps, id : 0..MaxIds, fresh : BOOLEAN, late : BOOLEAN,
         mark : 0..MaxStamps, hit : SUBSET (1..MaxStamps)]

\* The rest of the type invariant.
AccountTyped ==
  /\ account \in [id : 0..MaxIds, archived : {"no", "recent", "expired"}]
  /\ made \in 0..MaxIds /\ account.id <= made
PlansTyped == plans \subseteq Plan
SessionTyped == session \in [Browsers -> [user : 0..MaxIds, pending : BOOLEAN]]
FaultsTyped == faults \in 0..MaxFaults
PastTyped == states \subseteq Browsers /\ stale \subseteq Browsers /\ overtaken \subseteq Browsers
MishapTyped == mishap \subseteq {"purged", "broken fresh", "crossed plans"}
RestTyped ==
  AccountTyped /\ PlansTyped /\ SessionTyped /\ FaultsTyped /\ PastTyped /\ MishapTyped
FlowTyped == flow \in [Browsers -> Flow] /\ MarksSet

LEMMA TypedParts == (Typed <=> RestTyped /\ FlowTyped) /\ (Typed' <=> RestTyped' /\ FlowTyped')
  BY DEF Typed, TypeOK, RestTyped, FlowTyped, Flow, AccountTyped, PlansTyped, SessionTyped,
         FaultsTyped, PastTyped, MishapTyped

LEMMA IdleTypes == Idle \in Flow
  BY AccountsAssumption DEF Idle, Flow, Steps, AccountsAssumption

LEMMA ToTypes ==
  ASSUME FlowTyped, NEW b \in Browsers, NEW step \in Steps, To(b, step),
         step \in {"cancel old", "insert paid"} => Buying(b)
  PROVE  FlowTyped'
  BY DEF To, FlowTyped, Flow, MarksSet, Buying

LEMMA DoneTypes ==
  ASSUME FlowTyped, NEW b \in Browsers, Done(b)
  PROVE  FlowTyped'
  BY IdleTypes DEF Done, FlowTyped, MarksSet, Buying, Idle

\* Who found the account before it ended is marked late, and nothing else changes.
Late(c) == [flow[c] EXCEPT !.late = @ \/ HasFound(c)]

LEMMA LateTypes ==
  ASSUME FlowTyped, NEW c \in Browsers
  PROVE  /\ Late(c) \in Flow
         /\ Late(c).at = flow[c].at /\ Late(c).id = flow[c].id /\ Late(c).mark = flow[c].mark
         /\ Late(c).hit = flow[c].hit /\ Late(c).fresh = flow[c].fresh
         /\ Late(c).late <=> (flow[c].late \/ HasFound(c))
<1>1. flow[c] \in Flow
  BY DEF FlowTyped
<1> QED
  BY <1>1 DEF Late, HasFound, Flow

LEMMA OvertakeTypes ==
  ASSUME FlowTyped, NEW b \in Browsers, NEW mine \in Flow, mine.at \notin {"cancel old", "insert paid"},
         Overtake(b, mine)
  PROVE  FlowTyped'
<1>1. flow' = [c \in Browsers |-> IF c = b THEN mine ELSE Late(c)]
  BY DEF Overtake, Late
<1>2. flow' \in [Browsers -> Flow]
  BY <1>1, LateTypes
<1>3. \A c \in Browsers : Buying(c)' => flow'[c].mark # 0
  BY <1>1, LateTypes DEF Buying, FlowTyped, MarksSet
<1> QED
  BY <1>2, <1>3 DEF FlowTyped, MarksSet

LEMMA SignedOutTypes == SignedOut \in [user : 0..MaxIds, pending : BOOLEAN]
  BY AccountsAssumption DEF SignedOut, AccountsAssumption

LEMMA StampWithin ==
  ASSUME TypeOK, Stamp <= MaxStamps
  PROVE  Stamp \in 1..MaxStamps
  BY StampIsNext, AccountsAssumption DEF AccountsAssumption

LEMMA SignInTypes == ASSUME Typed, NEW b \in Browsers, SignInStep(b) PROVE Typed'
<1>0. RestTyped /\ FlowTyped
  BY TypedParts
<1>1. FlowTyped'
  <2>1. CASE StartGitHubAuth(b)
    BY <1>0, <2>1, ToTypes DEF StartGitHubAuth, Steps
  <2>2. CASE StateExpires(b)
    BY <1>0, <2>2 DEF StateExpires, FlowTyped, MarksSet, Buying
  <2>3. CASE HandleCallback(b)
    BY <1>0, <2>3, ToTypes DEF HandleCallback, Steps
  <2>4. CASE Unauthorized(b)
    BY <1>0, <2>4, DoneTypes DEF Unauthorized
  <2>5. CASE ResolveAccountState(b)
    BY <1>0, <2>5, ToTypes, DoneTypes DEF ResolveAccountState, Steps
  <2>6. CASE UpsertGitHubUser(b)
    <3>1. account'.id \in 0..MaxIds
      BY <1>0, <2>6, AccountsAssumption DEF UpsertGitHubUser, RestTyped, AccountTyped, AccountsAssumption
    <3> QED
      BY <1>0, <2>6, <3>1 DEF UpsertGitHubUser, FlowTyped, Flow, Steps, MarksSet, Buying
  <2>7. CASE GetCurrentPlan(b)
    BY <1>0, <2>7, ToTypes DEF GetCurrentPlan, Steps
  <2>8. CASE InsertFreePlan(b)
    BY <1>0, <2>8, ToTypes, DoneTypes DEF InsertFreePlan, Steps
  <2>9. CASE EstablishSession(b)
    BY <1>0, <2>9, DoneTypes DEF EstablishSession
  <2>10. CASE Logout(b)
    BY <1>0, <2>10 DEF Logout, FlowTyped, MarksSet, Buying
  <2> QED
    BY <2>1, <2>2, <2>3, <2>4, <2>5, <2>6, <2>7, <2>8, <2>9, <2>10 DEF SignInStep
<1>2. RestTyped'
  <2>1. CASE StartGitHubAuth(b)
    <3>1. PastTyped'
      BY <1>0, <2>1 DEF StartGitHubAuth, RestTyped, PastTyped
    <3> QED
      BY <1>0, <2>1, <3>1 DEF StartGitHubAuth, RestTyped, AccountTyped, PlansTyped, SessionTyped, FaultsTyped, MishapTyped
  <2>2. CASE StateExpires(b)
    <3>1. PastTyped'
      BY <1>0, <2>2 DEF StateExpires, RestTyped, PastTyped
    <3> QED
      BY <1>0, <2>2, <3>1 DEF StateExpires, RestTyped, AccountTyped, PlansTyped, SessionTyped, FaultsTyped, MishapTyped
  <2>3. CASE HandleCallback(b)
    <3>1. PastTyped'
      BY <1>0, <2>3 DEF HandleCallback, RestTyped, PastTyped
    <3> QED
      BY <1>0, <2>3, <3>1 DEF HandleCallback, RestTyped, AccountTyped, PlansTyped, SessionTyped, FaultsTyped, MishapTyped
  <2>4. CASE Unauthorized(b)
    <3> QED
      BY <1>0, <2>4 DEF Unauthorized, RestTyped, AccountTyped, PlansTyped, SessionTyped, FaultsTyped, PastTyped, MishapTyped
  <2>5. CASE ResolveAccountState(b)
    <3>1. SessionTyped'
      BY <1>0, <2>5 DEF ResolveAccountState, RestTyped, SessionTyped
    <3>2. PastTyped'
      BY <1>0, <2>5 DEF ResolveAccountState, RestTyped, PastTyped
    <3> QED
      BY <1>0, <2>5, <3>1, <3>2 DEF ResolveAccountState, RestTyped, AccountTyped, PlansTyped, FaultsTyped, MishapTyped
  <2>6. CASE UpsertGitHubUser(b)
    <3>1. AccountTyped'
      BY <1>0, <2>6, AccountsAssumption DEF UpsertGitHubUser, RestTyped, AccountTyped, AccountsAssumption
    <3> QED
      BY <1>0, <2>6, <3>1 DEF UpsertGitHubUser, RestTyped, PlansTyped, SessionTyped, FaultsTyped, PastTyped, MishapTyped
  <2>7. CASE GetCurrentPlan(b)
    <3> QED
      BY <1>0, <2>7 DEF GetCurrentPlan, RestTyped, AccountTyped, PlansTyped, SessionTyped, FaultsTyped, PastTyped, MishapTyped
  <2>8. CASE InsertFreePlan(b)
    <3>1. PlansTyped'
      <4>1. CASE flow[b].id = account.id
        <5>1. Stamp \in 1..MaxStamps
          <6>1. Stamp <= MaxStamps
            BY <2>8, <4>1 DEF InsertFreePlan
          <6> QED
            BY <6>1, StampWithin DEF Typed
        <5>2. [at |-> Stamp, plan |-> "free", active |-> TRUE] \in Plan
          BY <5>1 DEF Plan
        <5> QED
          BY <1>0, <2>8, <4>1, <5>2 DEF InsertFreePlan, RestTyped, PlansTyped
      <4> QED
        BY <1>0, <2>8, <4>1 DEF InsertFreePlan, RestTyped, PlansTyped
    <3>2. MishapTyped'
      BY <1>0, <2>8 DEF InsertFreePlan, RestTyped, MishapTyped
    <3> QED
      BY <1>0, <2>8, <3>1, <3>2
      DEF InsertFreePlan, RestTyped, AccountTyped, SessionTyped, FaultsTyped, PastTyped
  <2>9. CASE EstablishSession(b)
    <3>1. SessionTyped'
      BY <1>0, <2>9 DEF EstablishSession, RestTyped, SessionTyped, FlowTyped, Flow
    <3>2. PastTyped'
      BY <1>0, <2>9 DEF EstablishSession, RestTyped, PastTyped
    <3> QED
      BY <1>0, <2>9, <3>1, <3>2 DEF EstablishSession, RestTyped, AccountTyped, PlansTyped, FaultsTyped, MishapTyped
  <2>10. CASE Logout(b)
    <3>1. SessionTyped'
      BY <1>0, <2>10, SignedOutTypes DEF Logout, RestTyped, SessionTyped
    <3>2. PastTyped'
      BY <1>0, <2>10 DEF Logout, RestTyped, PastTyped
    <3> QED
      BY <1>0, <2>10, <3>1, <3>2 DEF Logout, RestTyped, AccountTyped, PlansTyped, FaultsTyped, MishapTyped
  <2> QED
    BY <2>1, <2>2, <2>3, <2>4, <2>5, <2>6, <2>7, <2>8, <2>9, <2>10 DEF SignInStep
<1> QED
  BY <1>1, <1>2, TypedParts

LEMMA AccountTypes == ASSUME Typed, NEW b \in Browsers, AccountStep(b) PROVE Typed'
<1>0. RestTyped /\ FlowTyped
  BY TypedParts
<1>1. CASE DeleteAccount(b)
  <2>1. [flow[b] EXCEPT !.at = "destroy"] \in Flow /\ [flow[b] EXCEPT !.at = "destroy"].at = "destroy"
    BY <1>0 DEF FlowTyped, Flow, Steps
  <2>2. FlowTyped'
    BY <1>0, <1>1, <2>1, OvertakeTypes, ToTypes DEF DeleteAccount, Steps
  <2>3. RestTyped'
    <3>1. AccountTyped'
      BY <1>0, <1>1 DEF DeleteAccount, RestTyped, AccountTyped
    <3>2. PastTyped'
      BY <1>0, <1>1 DEF DeleteAccount, RestTyped, PastTyped, SignedInExcept
    <3> QED
      BY <1>0, <1>1, <3>1, <3>2 DEF DeleteAccount, RestTyped, PlansTyped, SessionTyped, FaultsTyped, MishapTyped
  <2> QED
    BY <2>2, <2>3, TypedParts
<1>2. CASE DestroySession(b)
  <2>2. FlowTyped'
    BY <1>0, <1>2, DoneTypes DEF DestroySession
  <2>3. RestTyped'
    <3>1. SessionTyped'
      BY <1>0, <1>2, SignedOutTypes DEF DestroySession, RestTyped, SessionTyped
    <3>2. PastTyped'
      BY <1>0, <1>2 DEF DestroySession, RestTyped, PastTyped
    <3> QED
      BY <1>0, <1>2, <3>1, <3>2 DEF DestroySession, RestTyped, AccountTyped, PlansTyped, FaultsTyped, MishapTyped
  <2> QED
    BY <2>2, <2>3, TypedParts
<1>3. CASE RestoreArchivedAccount(b)
  <2>1. FlowTyped'
    <3>1. account.id \in 0..MaxIds
      BY <1>0 DEF RestTyped, AccountTyped
    <3> QED
      BY <1>0, <1>3, <3>1 DEF RestoreArchivedAccount, FlowTyped, Flow, Steps, MarksSet, Buying
  <2>2. RestTyped'
    <3>1. AccountTyped'
      BY <1>0, <1>3 DEF RestoreArchivedAccount, RestTyped, AccountTyped
    <3>2. PastTyped'
      BY <1>0, <1>3 DEF RestoreArchivedAccount, RestTyped, PastTyped, Choosing
    <3> QED
      BY <1>0, <1>3, <3>1, <3>2 DEF RestoreArchivedAccount, RestTyped, PlansTyped, SessionTyped, FaultsTyped, MishapTyped
  <2> QED
    BY <2>1, <2>2, TypedParts
<1>4. CASE StartFreshAccount(b)
  <2>1. /\ [Idle EXCEPT !.at = "upsert", !.fresh = TRUE] \in Flow
        /\ [Idle EXCEPT !.at = "upsert", !.fresh = TRUE].at = "upsert"
    BY IdleTypes DEF Flow, Steps
  <2>2. FlowTyped'
    BY <1>0, <1>4, <2>1, OvertakeTypes DEF StartFreshAccount
  <2>3. RestTyped'
    <3>1. AccountTyped'
      BY <1>0, <1>4, AccountsAssumption DEF StartFreshAccount, RestTyped, AccountTyped, NoAccount, AccountsAssumption
    <3>2. PlansTyped'
      BY <1>0, <1>4 DEF StartFreshAccount, RestTyped, PlansTyped
    <3>3. PastTyped'
      BY <1>0, <1>4 DEF StartFreshAccount, RestTyped, PastTyped, SignedInExcept, Choosing
    <3> QED
      BY <1>0, <1>4, <3>1, <3>2, <3>3 DEF StartFreshAccount, RestTyped, SessionTyped, FaultsTyped, MishapTyped
  <2> QED
    BY <2>2, <2>3, TypedParts
<1> QED
  BY <1>1, <1>2, <1>3, <1>4 DEF AccountStep

\* What CHOOSE picks in CurrentRow is a row, and the newest.
LEMMA CurrentRowIsNewest ==
  ASSUME plans \subseteq Plan, NEW id, NEW p \in CurrentRow(id)
  PROVE  p \in plans /\ id = account.id /\ \A q \in plans : q.at <= p.at
<1> DEFINE S == {q.at : q \in plans}
<1>1. id = account.id /\ plans # {} /\ p = CHOOSE r \in plans : \A q \in plans : q.at <= r.at
  BY DEF CurrentRow
<1>2. S \subseteq 0..MaxStamps /\ S # {}
  BY <1>1, AccountsAssumption DEF Plan, AccountsAssumption
<1>3. Max(S) \in S /\ \A x \in S : x <= Max(S)
  BY <1>2, MaxOfNaturals, AccountsAssumption DEF AccountsAssumption
<1>4. \E r \in plans : \A q \in plans : q.at <= r.at
  BY <1>3
<1> QED
  BY <1>1, <1>4

LEMMA PlanTypes == ASSUME Typed, NEW b \in Browsers, PlanStep(b) PROVE Typed'
<1>0. RestTyped /\ FlowTyped
  BY TypedParts
<1>1. CASE BeginMonthlyPlan(b)
  <2>1. Stamp \in 1..MaxStamps /\ session[b].user \in 0..MaxIds
    <3>1. Stamp <= MaxStamps
      BY <1>1 DEF BeginMonthlyPlan
    <3> QED
      BY <1>0, <3>1, StampWithin DEF Typed, RestTyped, SessionTyped
  <2>2. FlowTyped'
    <3>1. flow' = [flow EXCEPT ![b] = [flow[b] EXCEPT !.at = "cancel old", !.id = session[b].user, !.mark = Stamp]]
      BY <1>0, <1>1 DEF BeginMonthlyPlan, FlowTyped
    <3>2. Stamp \in 0..MaxStamps /\ Stamp # 0
      BY <2>1, AccountsAssumption DEF AccountsAssumption
    <3> QED
      BY <1>0, <2>1, <3>1, <3>2 DEF FlowTyped, Flow, Steps, MarksSet, Buying
  <2>3. RestTyped'
    <3> QED
      BY <1>0, <1>1 DEF BeginMonthlyPlan, RestTyped, AccountTyped, PlansTyped, SessionTyped, FaultsTyped, PastTyped, MishapTyped
  <2> QED
    BY <2>2, <2>3, TypedParts
<1>2. CASE CancelActivePlans(b)
  <2>1. {p.at : p \in {q \in plans : q.active}} \subseteq 1..MaxStamps
    BY <1>0 DEF Plan, RestTyped, PlansTyped
  <2>2. FlowTyped'
    <3>1. PICK hit \in SUBSET (1..MaxStamps) :
             flow' = [flow EXCEPT ![b].at = "insert paid", ![b].hit = hit]
      BY <1>2, <2>1 DEF CancelActivePlans
    <3>2. flow[b].mark # 0
      BY <1>0, <1>2 DEF CancelActivePlans, At, FlowTyped, MarksSet, Buying
    <3> QED
      BY <1>0, <3>1, <3>2 DEF FlowTyped, Flow, Steps, MarksSet, Buying
  <2>3. RestTyped'
    <3> QED
      BY <1>0, <1>2 DEF CancelActivePlans, RestTyped, AccountTyped, PlansTyped, SessionTyped, FaultsTyped, PastTyped, MishapTyped
  <2> QED
    BY <2>2, <2>3, TypedParts
<1>3. CASE InsertMonthlyPlan(b)
  <2>1. [at |-> flow[b].mark, plan |-> "pro", active |-> TRUE] \in Plan
    <3>1. flow[b].mark \in 0..MaxStamps /\ flow[b].mark # 0
      BY <1>0, <1>3 DEF InsertMonthlyPlan, At, Buying, FlowTyped, MarksSet, Flow
    <3>2. flow[b].mark \in 1..MaxStamps
      BY <3>1, AccountsAssumption DEF AccountsAssumption
    <3> QED
      BY <3>2 DEF Plan
  <2>2. \A p \in plans : [p EXCEPT !.active = @ /\ p.at \notin flow[b].hit] \in Plan
    BY <1>0 DEF Plan, RestTyped, PlansTyped
  <2>3. PlansTyped'
    BY <1>0, <1>3, <2>1, <2>2 DEF InsertMonthlyPlan, RestTyped, PlansTyped
  <2>4. MishapTyped'
    BY <1>0, <1>3 DEF InsertMonthlyPlan, RestTyped, MishapTyped
  <2>5. FlowTyped'
    BY <1>0, <1>3, DoneTypes DEF InsertMonthlyPlan
  <2>6. RestTyped'
    <3> QED
      BY <1>0, <1>3, <2>3, <2>4 DEF InsertMonthlyPlan, RestTyped, AccountTyped, PlansTyped, SessionTyped, FaultsTyped, PastTyped, MishapTyped
  <2> QED
    BY <2>5, <2>6, TypedParts
<1>4. CASE CancelCurrent(b)
  <2>1. CurrentRow(session[b].user) \subseteq plans
    BY <1>0, CurrentRowIsNewest DEF RestTyped, PlansTyped
  <2>2. \A p \in plans : [p EXCEPT !.active = FALSE] \in Plan
    BY <1>0 DEF Plan, RestTyped, PlansTyped
  <2>3. PlansTyped'
    BY <1>0, <1>4, <2>1, <2>2 DEF CancelCurrent, RestTyped, PlansTyped
  <2>4. FlowTyped'
    BY <1>0, <1>4 DEF CancelCurrent, FlowTyped, MarksSet, Buying
  <2>5. RestTyped'
    <3> QED
      BY <1>0, <1>4, <2>3 DEF CancelCurrent, RestTyped, AccountTyped, PlansTyped, SessionTyped, FaultsTyped, PastTyped, MishapTyped
  <2> QED
    BY <2>4, <2>5, TypedParts
<1> QED
  BY <1>1, <1>2, <1>3, <1>4 DEF PlanStep

LEMMA PurgeOvertakes ==
  ASSUME FlowTyped, PurgeExpiredArchived
  PROVE  flow' = [c \in Browsers |-> Late(c)] /\ FlowTyped'
<1>1. flow' = [c \in Browsers |-> Late(c)]
  BY DEF PurgeExpiredArchived, Late
<1>2. flow' \in [Browsers -> Flow]
  BY <1>1, LateTypes
<1>3. \A c \in Browsers : Buying(c)' => flow'[c].mark # 0
  BY <1>1, LateTypes DEF Buying, FlowTyped, MarksSet
<1> QED
  BY <1>1, <1>2, <1>3 DEF FlowTyped, MarksSet

LEMMA NextTypes == ASSUME Typed, [Next]_vars PROVE Typed'
<1>0. RestTyped /\ FlowTyped
  BY TypedParts
<1>1. ASSUME NEW b \in Browsers, SignInStep(b) \/ AccountStep(b) \/ PlanStep(b) PROVE Typed'
  BY <1>1, SignInTypes, AccountTypes, PlanTypes
<1>2. ASSUME NEW b \in Browsers, StepFails(b) PROVE Typed'
  <2>1. FlowTyped'
    BY <1>0, <1>2, DoneTypes DEF StepFails
  <2>2. RestTyped'
    <3>1. FaultsTyped'
      <4>1. faults < MaxFaults /\ faults' = faults + 1
        BY <1>2 DEF StepFails
      <4> QED
        BY <1>0, <4>1, AccountsAssumption DEF RestTyped, FaultsTyped, AccountsAssumption
    <3>2. PastTyped'
      BY <1>0, <1>2 DEF StepFails, RestTyped, PastTyped
    <3>3. MishapTyped'
      BY <1>0, <1>2 DEF StepFails, RestTyped, MishapTyped
    <3> QED
      BY <1>0, <1>2, <3>1, <3>2, <3>3 DEF StepFails, RestTyped, AccountTyped, PlansTyped, SessionTyped
  <2> QED
    BY <2>1, <2>2, TypedParts
<1>3. CASE RetentionPasses
  <2>1. FlowTyped'
    BY <1>0, <1>3 DEF RetentionPasses, FlowTyped, MarksSet, Buying
  <2>2. RestTyped'
    <3>1. AccountTyped'
      BY <1>0, <1>3 DEF RetentionPasses, RestTyped, AccountTyped
    <3> QED
      BY <1>0, <1>3, <3>1 DEF RetentionPasses, RestTyped, PlansTyped, SessionTyped, FaultsTyped, PastTyped, MishapTyped
  <2> QED
    BY <2>1, <2>2, TypedParts
<1>4. CASE PurgeExpiredArchived
  <2>1. RestTyped'
    <3>1. AccountTyped'
      BY <1>0, <1>4, AccountsAssumption DEF PurgeExpiredArchived, RestTyped, AccountTyped, NoAccount, AccountsAssumption
    <3>2. PlansTyped'
      BY <1>0, <1>4 DEF PurgeExpiredArchived, RestTyped, PlansTyped
    <3>3. PastTyped'
      BY <1>0, <1>4 DEF PurgeExpiredArchived, RestTyped, PastTyped, SignedInExcept, Choosing
    <3>4. MishapTyped'
      BY <1>0, <1>4 DEF PurgeExpiredArchived, RestTyped, MishapTyped
    <3> QED
      BY <1>0, <1>4, <3>1, <3>2, <3>3, <3>4 DEF PurgeExpiredArchived, RestTyped, SessionTyped, FaultsTyped
  <2> QED
    BY <1>0, <1>4, <2>1, PurgeOvertakes, TypedParts
<1>5. CASE UNCHANGED vars
  BY <1>5 DEF vars, Typed, TypeOK, MarksSet, Buying
<1> QED
  BY <1>1, <1>2, <1>3, <1>4, <1>5 DEF Next

LEMMA InitTypes == ASSUME Init PROVE Typed
<1>1. FlowTyped
  BY IdleTypes DEF Init, FlowTyped, MarksSet, Buying, Idle
<1>2. AccountTyped /\ PlansTyped /\ FaultsTyped
  BY AccountsAssumption DEF Init, NoAccount, AccountTyped, PlansTyped, FaultsTyped, AccountsAssumption
<1>3. SessionTyped /\ PastTyped /\ MishapTyped
  BY SignedOutTypes DEF Init, SessionTyped, PastTyped, MishapTyped
<1> QED
  BY <1>1, <1>2, <1>3, TypedParts DEF RestTyped

-----------------------------------------------------------------------------
(* The inductive invariants.                                               *)

\* Whoever found the account and was not overtaken is right about it.
Found(b) ==
  ~flow[b].late
    => /\ At(b, "upsert") => account.archived = "no"
       /\ flow[b].at \in {"plan", "free", "session"} => Active(flow[b].id)

\* The choice put to a browser is about an archive that is there.
Asked(b) == session[b].pending => account.archived # "no" \/ b \in overtaken

Held(b) == SignedIn(b) /\ ~Active(session[b].user) => b \in stale \/ At(b, "destroy")

NoneIsPlain == account.id = 0 => account.archived = "no"

SessionInv == NoneIsPlain /\ (\A b \in Browsers : Found(b) /\ Asked(b) /\ Held(b)) /\ GoneOnlyByMishap

\* Ids are given in order, so that nobody holds the id of an account to come.
IdsMade == \A b \in Browsers : session[b].user <= made /\ flow[b].id <= made

\* A transaction about to insert has found what is active, and no two of them
\* are there: nothing is later than the one that began last.
PaidSees ==
  "crossed plans" \notin mishap
    => \A b \in Browsers : At(b, "insert paid") /\ flow[b].id = account.id
         => \A p \in plans : p.active => p.at \in flow[b].hit

PlanInv == IdsMade /\ PaidSees /\ PlanInForce

-----------------------------------------------------------------------------
(* What the steps do to a request.                                         *)

OthersRest(b) == \A c \in Browsers \ {b} : flow'[c] = flow[c]

LEMMA ToIs ==
  ASSUME FlowTyped, NEW b \in Browsers, NEW step, To(b, step)
  PROVE  /\ OthersRest(b) /\ flow'[b].at = step
         /\ flow'[b].id = flow[b].id /\ flow'[b].late = flow[b].late
         /\ flow'[b].fresh = flow[b].fresh /\ flow'[b].hit = flow[b].hit
  BY DEF FlowTyped, To, OthersRest, Flow

LEMMA DoneIs ==
  ASSUME FlowTyped, NEW b \in Browsers, Done(b)
  PROVE  OthersRest(b) /\ flow'[b] = Idle /\ flow'[b].at = "idle" /\ flow'[b].id = 0 /\ ~flow'[b].late
  BY DEF FlowTyped, Done, OthersRest, Idle

\* Whoever is not touched stays as it is.
LEMMA RestKeeps ==
  ASSUME NEW c \in Browsers, Found(c), Asked(c), Held(c),
         account' = account, flow'[c] = flow[c], session'[c] = session[c],
         c \in stale' <=> c \in stale, c \in overtaken' <=> c \in overtaken
  PROVE  Found(c)' /\ Asked(c)' /\ Held(c)'
  BY DEF Found, Asked, Held, At, Active, SignedIn

\* A request that takes a step and finds nothing out.
LEMMA StepKeeps ==
  ASSUME SessionInv, NEW b \in Browsers, account' = account, made' = made, mishap \subseteq mishap',
         OthersRest(b), Found(b)', Asked(b)', Held(b)',
         flow[b].fresh /\ At(b, "upsert") => "broken fresh" \in mishap',
         \A c \in Browsers \ {b} : /\ session'[c] = session[c]
                                   /\ c \in stale' <=> c \in stale
                                   /\ c \in overtaken' <=> c \in overtaken
  PROVE  SessionInv'
<1>1. NoneIsPlain'
  BY DEF SessionInv, NoneIsPlain
<1>2. \A c \in Browsers : Found(c)' /\ Asked(c)' /\ Held(c)'
  <2>1. ASSUME NEW c \in Browsers, c # b PROVE Found(c)' /\ Asked(c)' /\ Held(c)'
    <3>1. Found(c) /\ Asked(c) /\ Held(c)
      BY DEF SessionInv
    <3>2. /\ flow'[c] = flow[c] /\ session'[c] = session[c]
          /\ (c \in stale' <=> c \in stale) /\ (c \in overtaken' <=> c \in overtaken)
      BY <2>1 DEF OthersRest
    <3> QED
      BY <3>1, <3>2, RestKeeps
  <2> QED
    BY <2>1
<1>3. GoneOnlyByMishap'
  BY DEF SessionInv, GoneOnlyByMishap, OthersRest, At
<1> QED
  BY <1>1, <1>2, <1>3 DEF SessionInv

LEMMA SignInKeeps ==
  ASSUME Typed, SessionInv, NEW b \in Browsers, SignInStep(b)
  PROVE  SessionInv'
<1>0. AccountTyped /\ SessionTyped /\ FlowTyped /\ Found(b) /\ Asked(b) /\ Held(b)
  BY TypedParts DEF RestTyped, SessionInv
<1>1. CASE StartGitHubAuth(b)
  <2>1. OthersRest(b) /\ Found(b)' /\ Asked(b)' /\ Held(b)'
    BY <1>0, <1>1, ToIs DEF StartGitHubAuth, Found, Asked, Held, At, Active, SignedIn
  <2>2. ~(flow[b].fresh /\ At(b, "upsert"))
    BY <1>1 DEF StartGitHubAuth, At
  <2> QED
    BY <1>1, <2>1, <2>2, StepKeeps DEF StartGitHubAuth
<1>2. CASE StateExpires(b)
  BY <1>2 DEF StateExpires, SessionInv, NoneIsPlain, Found, Asked, Held, GoneOnlyByMishap, At, Active, SignedIn
<1>3. CASE HandleCallback(b)
  <2>1. OthersRest(b) /\ Found(b)' /\ Asked(b)' /\ Held(b)'
    BY <1>0, <1>3, ToIs DEF HandleCallback, Found, Asked, Held, At, Active, SignedIn
  <2>2. ~(flow[b].fresh /\ At(b, "upsert"))
    BY <1>3 DEF HandleCallback, At
  <2> QED
    BY <1>3, <2>1, <2>2, StepKeeps DEF HandleCallback
<1>4. CASE Unauthorized(b)
  <2>1. OthersRest(b) /\ Found(b)' /\ Asked(b)' /\ Held(b)'
    BY <1>0, <1>4, DoneIs DEF Unauthorized, Found, Asked, Held, At, Active, SignedIn
  <2>2. ~(flow[b].fresh /\ At(b, "upsert"))
    BY <1>4 DEF Unauthorized, At
  <2> QED
    BY <1>4, <2>1, <2>2, StepKeeps DEF Unauthorized
<1>5. CASE ResolveAccountState(b)
  <2>1. session'[b].user = session[b].user /\ (session'[b].pending => session[b].pending \/ account.archived # "no")
    BY <1>0, <1>5 DEF ResolveAccountState, SessionTyped
  <2>2. \A c \in Browsers \ {b} : session'[c] = session[c]
    BY <1>0, <1>5 DEF ResolveAccountState, SessionTyped
  <2>3. OthersRest(b) /\ (flow'[b].at = "idle" \/ (flow'[b].at = "upsert" /\ account.archived = "no"))
    BY <1>0, <1>5, ToIs, DoneIs DEF ResolveAccountState
  <2>4. Found(b)' /\ Held(b)'
    BY <1>0, <1>5, <2>1, <2>3 DEF ResolveAccountState, Found, Held, At, Active, SignedIn
  <2>5. Asked(b)'
    BY <1>0, <1>5, <2>1 DEF ResolveAccountState, Asked
  <2>6. \A c \in Browsers \ {b} : c \in overtaken' <=> c \in overtaken
    BY <1>5 DEF ResolveAccountState
  <2>7. ~(flow[b].fresh /\ At(b, "upsert"))
    BY <1>5 DEF ResolveAccountState, At
  <2> QED
    BY <1>5, <2>2, <2>3, <2>4, <2>5, <2>6, <2>7, StepKeeps DEF ResolveAccountState
<1>6. CASE UpsertGitHubUser(b)
  <2>1. OthersRest(b) /\ flow'[b].at = "plan" /\ flow'[b].id = account'.id /\ flow'[b].late = flow[b].late
    BY <1>0, <1>6 DEF UpsertGitHubUser, FlowTyped, Flow, OthersRest
  <2>2. CASE account.id # 0
    <3>1. account' = account /\ made' = made
      BY <1>6, <2>2 DEF UpsertGitHubUser
    <3>2. account = [id |-> account.id, archived |-> account.archived]
      BY <1>0 DEF AccountTyped
    <3>3. Found(b)'
      BY <1>0, <1>6, <2>1, <2>2, <3>1, <3>2 DEF UpsertGitHubUser, Found, At, Active
    <3>4. Asked(b)' /\ Held(b)'
      BY <1>0, <1>6, <2>1, <3>1 DEF UpsertGitHubUser, Asked, Held, At, Active, SignedIn
    <3>5. \A c \in Browsers \ {b} : Found(c)' /\ Asked(c)' /\ Held(c)'
      BY <1>6, <2>1, <3>1, RestKeeps DEF UpsertGitHubUser, SessionInv, OthersRest
    <3>6. NoneIsPlain' /\ GoneOnlyByMishap'
      BY <2>2, <3>1 DEF SessionInv, NoneIsPlain, GoneOnlyByMishap
    <3> QED
      BY <3>3, <3>4, <3>5, <3>6 DEF SessionInv
  <2>3. CASE account.id = 0
    <3>1. account' = [id |-> made + 1, archived |-> "no"] /\ account'.archived = "no" /\ account'.id # 0
      BY <1>0, <1>6, <2>3, AccountsAssumption DEF UpsertGitHubUser, AccountTyped, AccountsAssumption
    <3>2. account' = [id |-> account'.id, archived |-> "no"]
      BY <3>1
    <3>3. \A c \in Browsers : Found(c)'
      BY <2>1, <2>3, <3>1, <3>2 DEF SessionInv, OthersRest, Found, At, Active
    <3>4. \A c \in Browsers : Held(c) /\ ~Active(session[c].user)
      BY <2>3 DEF SessionInv, Active
    <3>5. \A c \in Browsers : Held(c)'
      BY <1>6, <2>1, <3>4 DEF UpsertGitHubUser, Held, OthersRest, At, SignedIn
    <3>6. \A c \in Browsers : Asked(c)'
      BY <1>6, <2>3 DEF UpsertGitHubUser, SessionInv, Asked, NoneIsPlain
    <3> QED
      BY <3>1, <3>3, <3>5, <3>6 DEF SessionInv, NoneIsPlain, GoneOnlyByMishap
  <2> QED
    BY <2>2, <2>3
<1>7. CASE GetCurrentPlan(b)
  <2>1. /\ OthersRest(b) /\ flow'[b].at \in {"free", "session", "idle"}
        /\ flow'[b].at = "idle" \/ (flow'[b].id = flow[b].id /\ flow'[b].late = flow[b].late)
    BY <1>0, <1>7, ToIs, DoneIs DEF GetCurrentPlan
  <2>2. Found(b)' /\ Asked(b)' /\ Held(b)'
    BY <1>0, <1>7, <2>1 DEF GetCurrentPlan, Found, Asked, Held, At, Active, SignedIn
  <2>3. ~(flow[b].fresh /\ At(b, "upsert")) /\ mishap \subseteq mishap'
    BY <1>7 DEF GetCurrentPlan, At
  <2> QED
    BY <1>7, <2>1, <2>2, <2>3, StepKeeps DEF GetCurrentPlan
<1>8. CASE InsertFreePlan(b)
  <2>1. /\ OthersRest(b) /\ flow'[b].at \in {"free", "session", "idle"}
        /\ flow'[b].at = "idle" \/ (flow'[b].id = flow[b].id /\ flow'[b].late = flow[b].late)
    BY <1>0, <1>8, ToIs, DoneIs DEF InsertFreePlan
  <2>2. Found(b)' /\ Asked(b)' /\ Held(b)'
    BY <1>0, <1>8, <2>1 DEF InsertFreePlan, Found, Asked, Held, At, Active, SignedIn
  <2>3. ~(flow[b].fresh /\ At(b, "upsert")) /\ mishap \subseteq mishap'
    BY <1>8 DEF InsertFreePlan, At
  <2> QED
    BY <1>8, <2>1, <2>2, <2>3, StepKeeps DEF InsertFreePlan
<1>9. CASE EstablishSession(b)
  <2>1. OthersRest(b) /\ flow'[b].at = "idle"
    BY <1>0, <1>9, DoneIs DEF EstablishSession
  <2>2. session'[b].user = flow[b].id /\ ~session'[b].pending /\ \A c \in Browsers \ {b} : session'[c] = session[c]
    BY <1>0, <1>9 DEF EstablishSession, SessionTyped
  <2>3. ~flow[b].late => Active(flow[b].id)
    BY <1>0, <1>9 DEF EstablishSession, Found, At
  <2>4. Found(b)' /\ Asked(b)'
    BY <2>1, <2>2 DEF Found, Asked, At
  <2>5. Held(b)'
    BY <1>9, <2>2, <2>3 DEF EstablishSession, Held, Active
  <2>6. \A c \in Browsers \ {b} : (c \in stale' <=> c \in stale) /\ (c \in overtaken' <=> c \in overtaken)
    BY <1>9 DEF EstablishSession
  <2>7. ~(flow[b].fresh /\ At(b, "upsert"))
    BY <1>9 DEF EstablishSession, At
  <2> QED
    BY <1>9, <2>1, <2>2, <2>4, <2>5, <2>6, <2>7, StepKeeps DEF EstablishSession
<1>10. CASE Logout(b)
  <2>1. OthersRest(b) /\ flow'[b] = flow[b]
    BY <1>10 DEF Logout, OthersRest
  <2>2. ~SignedIn(b)' /\ ~session'[b].pending /\ \A c \in Browsers \ {b} : session'[c] = session[c]
    BY <1>0, <1>10 DEF Logout, SessionTyped, SignedOut, SignedIn
  <2>3. Found(b)' /\ Asked(b)' /\ Held(b)'
    BY <1>10, <2>1, <2>2 DEF Logout, Found, Asked, Held, At
  <2>4. \A c \in Browsers \ {b} : (c \in stale' <=> c \in stale) /\ (c \in overtaken' <=> c \in overtaken)
    BY <1>10 DEF Logout
  <2>5. ~(flow[b].fresh /\ At(b, "upsert"))
    BY <1>10 DEF Logout, At
  <2> QED
    BY <1>10, <2>1, <2>2, <2>3, <2>4, <2>5, StepKeeps DEF Logout
<1> QED
  BY <1>1, <1>2, <1>3, <1>4, <1>5, <1>6, <1>7, <1>8, <1>9, <1>10 DEF SignInStep

LEMMA AccountKeeps ==
  ASSUME Typed, SessionInv, NEW b \in Browsers, AccountStep(b)
  PROVE  SessionInv'
<1>0. AccountTyped /\ SessionTyped /\ FlowTyped /\ Found(b) /\ Asked(b) /\ Held(b)
  BY TypedParts DEF RestTyped, SessionInv
<1>1. CASE DeleteAccount(b) /\ ~Active(session[b].user)
  <2>1. OthersRest(b) /\ flow'[b].at = "destroy"
    BY <1>0, <1>1, ToIs DEF DeleteAccount
  <2>2. Found(b)' /\ Asked(b)' /\ Held(b)'
    BY <1>0, <1>1, <2>1 DEF DeleteAccount, Found, Asked, Held, At
  <2>3. ~(flow[b].fresh /\ At(b, "upsert"))
    BY <1>1 DEF DeleteAccount, At
  <2> QED
    BY <1>1, <2>1, <2>2, <2>3, StepKeeps DEF DeleteAccount
<1>2. CASE DeleteAccount(b) /\ Active(session[b].user)
  <2>1. account'.archived = "recent" /\ account'.id = account.id /\ account.id # 0 /\ account.archived = "no"
    BY <1>0, <1>2 DEF DeleteAccount, AccountTyped, Active
  <2>2. flow'[b].at = "destroy" /\ \A c \in Browsers \ {b} : flow'[c] = Late(c)
    BY <1>0, <1>2 DEF DeleteAccount, Overtake, Late, FlowTyped, Flow
  <2>3. ASSUME NEW c \in Browsers PROVE Found(c)' /\ Asked(c)'
    <3>1. Asked(c)'
      BY <2>1 DEF Asked
    <3>2. Found(c)'
      BY <1>0, <2>2, LateTypes DEF Found, At, HasFound
    <3> QED
      BY <3>1, <3>2
  <2>4. ASSUME NEW c \in Browsers PROVE Held(c)'
    BY <1>2, <2>2 DEF DeleteAccount, SignedInExcept, Held, At, SignedIn
  <2> QED
    BY <2>1, <2>3, <2>4 DEF SessionInv, NoneIsPlain, GoneOnlyByMishap
<1>3. CASE DestroySession(b)
  <2>1. OthersRest(b) /\ flow'[b].at = "idle"
    BY <1>0, <1>3, DoneIs DEF DestroySession
  <2>2. ~SignedIn(b)' /\ ~session'[b].pending /\ \A c \in Browsers \ {b} : session'[c] = session[c]
    BY <1>0, <1>3 DEF DestroySession, SessionTyped, SignedOut, SignedIn
  <2>3. Found(b)' /\ Asked(b)' /\ Held(b)'
    BY <2>1, <2>2 DEF Found, Asked, Held, At
  <2>4. \A c \in Browsers \ {b} : (c \in stale' <=> c \in stale) /\ (c \in overtaken' <=> c \in overtaken)
    BY <1>3 DEF DestroySession
  <2>5. ~(flow[b].fresh /\ At(b, "upsert"))
    BY <1>3 DEF DestroySession, At
  <2> QED
    BY <1>3, <2>1, <2>2, <2>3, <2>4, <2>5, StepKeeps DEF DestroySession
<1>4. CASE RestoreArchivedAccount(b)
  <2>1. account'.archived = "no" /\ account'.id = account.id /\ account.id # 0
    BY <1>0, <1>4 DEF RestoreArchivedAccount, AccountTyped
  <2>2. account' = [id |-> account.id, archived |-> "no"]
    BY <1>0, <1>4 DEF RestoreArchivedAccount, AccountTyped
  <2>3. OthersRest(b) /\ flow'[b].at = "session" /\ flow'[b].id = account.id
    BY <1>0, <1>4 DEF RestoreArchivedAccount, FlowTyped, Flow, OthersRest
  <2>4. ASSUME NEW c \in Browsers PROVE Found(c)'
    <3>1. Found(c)
      BY DEF SessionInv
    <3> QED
      BY <2>1, <2>2, <2>3, <3>1 DEF Found, OthersRest, At, Active
  <2>5. ASSUME NEW c \in Browsers PROVE Asked(c)'
    BY <1>4 DEF RestoreArchivedAccount, Choosing, Asked
  <2>6. ASSUME NEW c \in Browsers PROVE Held(c)'
    <3>1. Held(c) /\ session' = session /\ stale' = stale
      BY <1>4 DEF SessionInv, RestoreArchivedAccount
    <3>2. \A id : Active(id) => Active(id)'
      BY <2>1, <2>2 DEF Active
    <3>3. ~Active(session[c].user)' => ~Active(session[c].user)
      BY <3>1, <3>2 DEF Active
    <3>4. At(c, "destroy") => At(c, "destroy")'
      BY <1>4, <2>3 DEF RestoreArchivedAccount, At, OthersRest
    <3> QED
      BY <3>1, <3>3, <3>4 DEF Held, SignedIn
  <2> QED
    BY <2>1, <2>4, <2>5, <2>6 DEF SessionInv, NoneIsPlain, GoneOnlyByMishap
<1>5. CASE StartFreshAccount(b)
  <2>1. account'.id = 0 /\ account'.archived = "no"
    BY <1>5 DEF StartFreshAccount, NoAccount
  <2>2. /\ flow'[b].at = "upsert" /\ flow'[b].fresh
        /\ \A c \in Browsers \ {b} : flow'[c] = Late(c)
    BY <1>0, <1>5 DEF StartFreshAccount, Overtake, Late, FlowTyped, Flow, Idle
  <2>3. ASSUME NEW c \in Browsers PROVE Found(c)'
    BY <1>0, <2>1, <2>2, LateTypes DEF Found, At, HasFound
  <2>4. ASSUME NEW c \in Browsers PROVE Asked(c)' /\ Held(c)'
    BY <1>5 DEF StartFreshAccount, Choosing, SignedInExcept, Asked, Held, SignedIn
  <2>5. GoneOnlyByMishap'
    BY <2>2 DEF GoneOnlyByMishap, At
  <2> QED
    BY <2>1, <2>3, <2>4, <2>5 DEF SessionInv, NoneIsPlain
<1> QED
  BY <1>1, <1>2, <1>3, <1>4, <1>5 DEF AccountStep

LEMMA PlanKeeps ==
  ASSUME Typed, SessionInv, NEW b \in Browsers, PlanStep(b)
  PROVE  SessionInv'
<1>0. FlowTyped /\ Found(b) /\ Asked(b) /\ Held(b)
  BY TypedParts DEF SessionInv
<1>1. /\ UNCHANGED <<account, made, session, stale, overtaken>> /\ mishap \subseteq mishap'
      /\ ~At(b, "destroy") /\ ~At(b, "upsert")
  BY DEF PlanStep, BeginMonthlyPlan, CancelActivePlans, InsertMonthlyPlan, CancelCurrent, At
<1>2. OthersRest(b) /\ flow'[b].at \notin {"upsert", "plan", "free", "session"}
  <2>1. CASE BeginMonthlyPlan(b)
    BY <1>0, <2>1 DEF BeginMonthlyPlan, FlowTyped, Flow, OthersRest
  <2>2. CASE CancelActivePlans(b)
    BY <1>0, <2>2 DEF CancelActivePlans, FlowTyped, Flow, OthersRest
  <2>3. CASE InsertMonthlyPlan(b)
    BY <1>0, <2>3, DoneIs DEF InsertMonthlyPlan
  <2>4. CASE CancelCurrent(b)
    BY <2>4 DEF CancelCurrent, OthersRest, At
  <2> QED
    BY <2>1, <2>2, <2>3, <2>4 DEF PlanStep
<1>3. Found(b)' /\ Asked(b)' /\ Held(b)'
  BY <1>0, <1>1, <1>2 DEF Found, Asked, Held, At, Active, SignedIn
<1> QED
  BY <1>1, <1>2, <1>3, StepKeeps

LEMMA SessionsKept == ASSUME Typed, SessionInv, [Next]_vars PROVE SessionInv'
<1>0. AccountTyped /\ SessionTyped /\ FlowTyped
  BY TypedParts DEF RestTyped
<1>1. ASSUME NEW b \in Browsers, StepFails(b) PROVE SessionInv'
  <2>1. OthersRest(b) /\ flow'[b].at = "idle"
    BY <1>0, <1>1, DoneIs DEF StepFails
  <2>2. Found(b)' /\ Asked(b)'
    BY <1>1, <2>1 DEF SessionInv, StepFails, Found, Asked, At
  <2>3. Held(b)'
    BY <1>1 DEF SessionInv, StepFails, Held, Active, SignedIn
  <2>4. \A c \in Browsers \ {b} : (c \in stale' <=> c \in stale) /\ (c \in overtaken' <=> c \in overtaken)
    BY <1>1 DEF StepFails
  <2>5. flow[b].fresh /\ At(b, "upsert") => "broken fresh" \in mishap'
    BY <1>1 DEF StepFails
  <2> QED
    BY <1>1, <2>1, <2>2, <2>3, <2>4, <2>5, StepKeeps DEF StepFails
<1>2. CASE RetentionPasses
  <2>1. account.archived = "recent" /\ account'.archived = "expired" /\ account'.id = account.id
    BY <1>0, <1>2 DEF RetentionPasses, AccountTyped
  <2>2. \A id : ~Active(id) /\ ~Active(id)'
    BY <2>1 DEF Active
  <2>3. \A c \in Browsers : Found(c)' /\ Asked(c)' /\ Held(c)'
    BY <1>2, <2>1, <2>2 DEF RetentionPasses, SessionInv, Found, Asked, Held, At, SignedIn
  <2> QED
    BY <1>2, <2>1, <2>3 DEF RetentionPasses, SessionInv, NoneIsPlain, GoneOnlyByMishap, At
<1>3. CASE PurgeExpiredArchived
  <2>1. account'.id = 0 /\ account'.archived = "no"
    BY <1>3 DEF PurgeExpiredArchived, NoAccount
  <2>2. \A c \in Browsers : flow'[c] = Late(c)
    BY <1>0, <1>3, PurgeOvertakes
  <2>3. \A c \in Browsers : Found(c)'
    BY <1>0, <2>1, <2>2, LateTypes DEF Found, At, HasFound
  <2>4. \A c \in Browsers : Asked(c)' /\ Held(c)'
    BY <1>3 DEF PurgeExpiredArchived, Choosing, SignedInExcept, Asked, Held, SignedIn
  <2>5. GoneOnlyByMishap'
    BY <1>3 DEF PurgeExpiredArchived, GoneOnlyByMishap
  <2> QED
    BY <2>1, <2>3, <2>4, <2>5 DEF SessionInv, NoneIsPlain
<1>4. CASE UNCHANGED vars
  BY <1>4 DEF vars, SessionInv, NoneIsPlain, Found, Asked, Held, GoneOnlyByMishap, At, Active, SignedIn
<1> QED
  BY <1>1, <1>2, <1>3, <1>4, SignInKeeps, AccountKeeps, PlanKeeps DEF Next

-----------------------------------------------------------------------------
(* Subscriptions.                                                          *)

LEMMA IdsKept == ASSUME Typed, IdsMade, [Next]_vars PROVE IdsMade'
<1>0. AccountTyped /\ SessionTyped /\ FlowTyped
  BY TypedParts DEF RestTyped
<1>1. account.id <= made /\ account.id \in Nat /\ made \in Nat
  BY <1>0, AccountsAssumption DEF AccountTyped, AccountsAssumption
<1>2. \A c \in Browsers : session[c].user \in Nat /\ flow[c].id \in Nat
  BY <1>0, AccountsAssumption DEF SessionTyped, FlowTyped, Flow, AccountsAssumption
<1>3. ASSUME NEW b \in Browsers, UpsertGitHubUser(b) PROVE IdsMade'
  <2>1. OthersRest(b) /\ flow'[b].id = account'.id
    BY <1>0, <1>3 DEF UpsertGitHubUser, FlowTyped, Flow, OthersRest
  <2>2. made' \in Nat /\ made <= made' /\ account'.id <= made'
    BY <1>1, <1>3 DEF UpsertGitHubUser
  <2> QED
    <3>1. ASSUME NEW c \in Browsers PROVE session'[c].user <= made'
      <4>1. session'[c].user = session[c].user /\ session[c].user <= made
        BY <1>3 DEF UpsertGitHubUser, IdsMade
      <4> QED
        BY <1>1, <1>2, <2>2, <4>1
    <3>2. ASSUME NEW c \in Browsers PROVE flow'[c].id <= made'
      <4>1. CASE c = b
        BY <2>1, <2>2, <4>1
      <4>2. CASE c # b
        <5>1. flow'[c].id = flow[c].id /\ flow[c].id <= made
          BY <2>1, <4>2 DEF IdsMade, OthersRest
        <5> QED
          BY <1>1, <1>2, <2>2, <5>1
      <4> QED
        BY <4>1, <4>2
    <3> QED
      BY <3>1, <3>2 DEF IdsMade
<1>4. ASSUME made' = made,
             \A c \in Browsers : \/ session'[c].user = session[c].user
                                \/ session'[c].user = 0
                                \/ session'[c].user = flow[c].id,
             \A c \in Browsers : \/ flow'[c].id = flow[c].id
                                \/ flow'[c].id = 0
                                \/ flow'[c].id = session[c].user
                                \/ flow'[c].id = account.id
      PROVE  IdsMade'
  BY <1>1, <1>2, <1>4 DEF IdsMade
<1>5. ASSUME NEW b \in Browsers, SignInStep(b), ~UpsertGitHubUser(b) PROVE IdsMade'
  <2>1. made' = made
    BY <1>5 DEF SignInStep, StartGitHubAuth, StateExpires, HandleCallback, Unauthorized, ResolveAccountState,
                GetCurrentPlan, InsertFreePlan, EstablishSession, Logout
  <2>2. \A c \in Browsers : \/ session'[c].user = session[c].user
                           \/ session'[c].user = 0
                           \/ session'[c].user = flow[c].id
    <3>1. CASE EstablishSession(b)
      BY <1>0, <3>1 DEF EstablishSession, SessionTyped
    <3>2. CASE Logout(b)
      BY <1>0, <3>2 DEF Logout, SignedOut, SessionTyped
    <3>3. CASE ResolveAccountState(b)
      BY <1>0, <3>3 DEF ResolveAccountState, SessionTyped
    <3> QED
      BY <1>5, <3>1, <3>2, <3>3
      DEF SignInStep, StartGitHubAuth, StateExpires, HandleCallback, Unauthorized, GetCurrentPlan, InsertFreePlan
  <2>3. (\E step : To(b, step)) \/ Done(b) \/ flow' = flow
    BY <1>5 DEF SignInStep, StartGitHubAuth, StateExpires, HandleCallback, Unauthorized, ResolveAccountState,
                GetCurrentPlan, InsertFreePlan, EstablishSession, Logout
  <2>4. \A c \in Browsers : flow'[c].id = flow[c].id \/ flow'[c].id = 0
    BY <1>0, <2>3, ToIs, DoneIs DEF OthersRest
  <2> QED
    BY <1>4, <2>1, <2>2, <2>4
<1>6. ASSUME NEW b \in Browsers, AccountStep(b) PROVE IdsMade'
  <2>1. made' = made
    BY <1>6 DEF AccountStep, DeleteAccount, DestroySession, RestoreArchivedAccount, StartFreshAccount
  <2>2. \A c \in Browsers : session'[c].user = session[c].user \/ session'[c].user = 0
    BY <1>0, <1>6 DEF AccountStep, DeleteAccount, DestroySession, RestoreArchivedAccount, StartFreshAccount,
                SignedOut, SessionTyped
  <2>3. \A c \in Browsers : flow'[c].id = flow[c].id \/ flow'[c].id = 0 \/ flow'[c].id = account.id
    <3>1. CASE DeleteAccount(b)
      <4>1. CASE Active(session[b].user)
        <5>1. flow'[b].id = flow[b].id /\ \A c \in Browsers \ {b} : flow'[c] = Late(c)
          BY <1>0, <3>1, <4>1 DEF DeleteAccount, Overtake, Late, FlowTyped, Flow
        <5> QED
          BY <1>0, <5>1, LateTypes
      <4> QED
        BY <1>0, <3>1, <4>1, ToIs DEF DeleteAccount, OthersRest
    <3>2. CASE DestroySession(b)
      BY <1>0, <3>2, DoneIs DEF DestroySession, OthersRest
    <3>3. CASE RestoreArchivedAccount(b)
      BY <1>0, <3>3 DEF RestoreArchivedAccount, FlowTyped, Flow
    <3>4. CASE StartFreshAccount(b)
      <4>1. flow'[b].id = 0 /\ \A c \in Browsers \ {b} : flow'[c] = Late(c)
        BY <1>0, <3>4 DEF StartFreshAccount, Overtake, Late, FlowTyped, Flow, Idle
      <4> QED
        BY <1>0, <4>1, LateTypes
    <3> QED
      BY <1>6, <3>1, <3>2, <3>3, <3>4 DEF AccountStep
  <2> QED
    BY <1>4, <2>1, <2>2, <2>3
<1>7. ASSUME NEW b \in Browsers, PlanStep(b) \/ StepFails(b) PROVE IdsMade'
  <2>1. made' = made /\ session' = session
    BY <1>7 DEF PlanStep, BeginMonthlyPlan, CancelActivePlans, InsertMonthlyPlan, CancelCurrent, StepFails
  <2>2. \A c \in Browsers : flow'[c].id = flow[c].id \/ flow'[c].id = 0 \/ flow'[c].id = session[c].user
    <3>1. CASE BeginMonthlyPlan(b)
      BY <1>0, <3>1 DEF BeginMonthlyPlan, FlowTyped, Flow
    <3>2. CASE CancelActivePlans(b)
      BY <1>0, <3>2 DEF CancelActivePlans, FlowTyped, Flow
    <3>3. CASE InsertMonthlyPlan(b) \/ StepFails(b)
      BY <1>0, <3>3, DoneIs DEF InsertMonthlyPlan, StepFails, OthersRest
    <3>4. CASE CancelCurrent(b)
      BY <3>4 DEF CancelCurrent
    <3> QED
      BY <1>7, <3>1, <3>2, <3>3, <3>4 DEF PlanStep
  <2> QED
    BY <1>4, <2>1, <2>2
<1>8. CASE RetentionPasses
  BY <1>4, <1>8 DEF RetentionPasses
<1>9. CASE PurgeExpiredArchived
  <2>1. \A c \in Browsers : flow'[c] = Late(c)
    BY <1>0, <1>9, PurgeOvertakes
  <2>2. \A c \in Browsers : flow'[c].id = flow[c].id
    BY <1>0, <2>1, LateTypes
  <2> QED
    BY <1>4, <1>9, <2>2 DEF PurgeExpiredArchived
<1>10. CASE UNCHANGED vars
  BY <1>10 DEF vars, IdsMade
<1> QED
  BY <1>3, <1>5, <1>6, <1>7, <1>8, <1>9, <1>10 DEF Next

\* A step that leaves the subscriptions of the row alone, or takes them all away.
LEMMA PlansRest ==
  ASSUME PlanInv, IdsMade', mishap \subseteq mishap',
         plans' = {} \/ (plans' = plans /\ account'.id = account.id),
         \A c \in Browsers : At(c, "insert paid")'
           => At(c, "insert paid") /\ flow'[c].id = flow[c].id /\ flow'[c].hit = flow[c].hit
  PROVE  PlanInv'
<1>1. PlanInForce'
  BY DEF PlanInv, PlanInForce
<1>2. PaidSees'
  BY DEF PlanInv, PaidSees, At
<1> QED
  BY <1>1, <1>2 DEF PlanInv

LEMMA InsertFreeKeeps ==
  ASSUME Typed, PlanInv, IdsMade', NEW b \in Browsers, InsertFreePlan(b)
  PROVE  PlanInv'
<1>0. PlansTyped /\ FlowTyped
  BY TypedParts DEF RestTyped
<1>1. CASE flow[b].id # account.id
  <2>1. OthersRest(b) /\ flow'[b].at = "idle"
    BY <1>0, <1>1, DoneIs DEF InsertFreePlan
  <2>2. plans' = plans /\ account'.id = account.id /\ mishap' = mishap
    BY <1>1 DEF InsertFreePlan
  <2>3. \A c \in Browsers : At(c, "insert paid")'
          => At(c, "insert paid") /\ flow'[c].id = flow[c].id /\ flow'[c].hit = flow[c].hit
    BY <2>1 DEF At, OthersRest
  <2> QED
    BY <2>2, <2>3, PlansRest
<1>2. CASE flow[b].id = account.id
  <2>1. OthersRest(b) /\ flow'[b].at = "session"
    <3>1. To(b, "session")
      BY <1>2 DEF InsertFreePlan
    <3> QED
      BY <1>0, <3>1, ToIs
  <2>2. CASE plans # {} \/ \E c \in Browsers : At(c, "insert paid")
    <3>1. "crossed plans" \in mishap'
      BY <1>2, <2>2 DEF InsertFreePlan
    <3> QED
      BY <3>1 DEF PlanInv, PaidSees, PlanInForce
  <2>3. CASE plans = {} /\ \A c \in Browsers : ~At(c, "insert paid")
    <3>1. plans' = {[at |-> Stamp, plan |-> "free", active |-> TRUE]} /\ Stamp \in 1..MaxStamps
      BY <1>2, <2>3, StampWithin DEF InsertFreePlan, Typed
    <3>2. PlanInForce'
      <4>1. \A p \in plans' : p.at = Stamp
        BY <3>1
      <4>2. Stamp <= Stamp
        BY <3>1, AccountsAssumption DEF AccountsAssumption
      <4> QED
        BY <4>1, <4>2 DEF PlanInForce
    <3>3. PaidSees'
      BY <2>1, <2>3 DEF PaidSees, At, OthersRest
    <3> QED
      BY <3>2, <3>3 DEF PlanInv
  <2> QED
    BY <2>2, <2>3
<1> QED
  BY <1>1, <1>2

LEMMA InsertMonthlyKeeps ==
  ASSUME Typed, PlanInv, IdsMade', NEW b \in Browsers, InsertMonthlyPlan(b)
  PROVE  PlanInv'
<1>0. PlansTyped /\ FlowTyped
  BY TypedParts DEF RestTyped
<1>1. OthersRest(b) /\ flow'[b].at = "idle"
  BY <1>0, DoneIs DEF InsertMonthlyPlan
<1>2. CASE flow[b].id # account.id
  <2>1. plans' = plans /\ account'.id = account.id /\ mishap' = mishap
    BY <1>2 DEF InsertMonthlyPlan
  <2>2. \A c \in Browsers : At(c, "insert paid")'
          => At(c, "insert paid") /\ flow'[c].id = flow[c].id /\ flow'[c].hit = flow[c].hit
    BY <1>1 DEF At, OthersRest
  <2> QED
    BY <2>1, <2>2, PlansRest
<1>3. CASE flow[b].id = account.id /\ "crossed plans" \in mishap'
  BY <1>3 DEF PlanInv, PaidSees, PlanInForce
<1>4. CASE flow[b].id = account.id /\ "crossed plans" \notin mishap'
  <2> DEFINE mark == flow[b].mark
             Ended(p) == [p EXCEPT !.active = @ /\ p.at \notin flow[b].hit]
  <2>1. /\ \A c \in Browsers \ {b} : ~At(c, "insert paid")
        /\ \A p \in plans : ~(p.at > mark)
        /\ "crossed plans" \notin mishap
        /\ plans' = {Ended(p) : p \in plans} \cup {[at |-> mark, plan |-> "pro", active |-> TRUE]}
    BY <1>4 DEF InsertMonthlyPlan
  <2>2. \A p \in plans : Ended(p).at = p.at /\ ~Ended(p).active
    <3>1. \A p \in plans : p.active => p.at \in flow[b].hit
      BY <1>4, <2>1 DEF InsertMonthlyPlan, PlanInv, PaidSees
    <3> QED
      BY <1>0, <3>1 DEF PlansTyped, Plan
  <2>3. mark \in Nat /\ \A p \in plans : p.at \in Nat
    BY <1>0 DEF PlansTyped, Plan, FlowTyped, Flow
  <2> HIDE DEF Ended, mark
  <2>8. \A q \in plans' : (\E p \in plans : q = Ended(p)) \/ q = [at |-> mark, plan |-> "pro", active |-> TRUE]
    BY <2>1
  <2>4. ASSUME NEW q \in plans' PROVE q.at <= mark
    <3>1. CASE q = [at |-> mark, plan |-> "pro", active |-> TRUE]
      BY <2>3, <3>1
    <3>2. ASSUME NEW p \in plans, q = Ended(p) PROVE q.at <= mark
      <4>1. q.at = p.at /\ p.at \in Nat /\ ~(p.at > mark)
        BY <2>1, <2>2, <2>3, <3>2
      <4> QED
        BY <2>3, <4>1
    <3> QED
      BY <2>8, <3>1, <3>2
  <2>5. \A p \in plans' : p.active => p.at = mark
    BY <2>2, <2>8
  <2>6. PlanInForce'
    BY <2>4, <2>5 DEF PlanInForce
  <2>7. PaidSees'
    BY <1>1, <2>1 DEF PaidSees, At, OthersRest
  <2> QED
    BY <2>6, <2>7 DEF PlanInv
<1> QED
  BY <1>2, <1>3, <1>4

LEMMA CancelCurrentKeeps ==
  ASSUME Typed, PlanInv, IdsMade', NEW b \in Browsers, CancelCurrent(b)
  PROVE  PlanInv'
<1>0. PlansTyped
  BY TypedParts DEF RestTyped
<1> DEFINE current == CurrentRow(session[b].user)
           Ended(p) == [p EXCEPT !.active = FALSE]
<1>1. plans' = (plans \ current) \cup {Ended(p) : p \in current} /\ current \subseteq plans
  BY <1>0, CurrentRowIsNewest DEF CancelCurrent, PlansTyped
<1>2. \A p \in current : Ended(p).at = p.at /\ ~Ended(p).active
  BY <1>0, <1>1 DEF PlansTyped, Plan
<1> HIDE DEF current, Ended
<1>3. \A p \in plans' : p.active => p \in plans
  BY <1>1, <1>2
<1>4. \A q \in plans' : \E p \in plans : q.at = p.at
  BY <1>1, <1>2
<1>5. flow' = flow /\ mishap' = mishap /\ account' = account
  BY DEF CancelCurrent
<1>6. PlanInForce'
  BY <1>3, <1>4, <1>5 DEF PlanInv, PlanInForce
<1>7. PaidSees'
  BY <1>3, <1>5 DEF PlanInv, PaidSees, At
<1> QED
  BY <1>6, <1>7 DEF PlanInv

LEMMA PlansKept == ASSUME Typed, PlanInv, [Next]_vars PROVE PlanInv'
<1>0. FlowTyped
  BY TypedParts
<1>1. IdsMade'
  BY IdsKept DEF PlanInv
<1> DEFINE Same(c) == At(c, "insert paid")'
             => At(c, "insert paid") /\ flow'[c].id = flow[c].id /\ flow'[c].hit = flow[c].hit
<1>2. ASSUME \/ \E b \in Browsers : OthersRest(b) /\ flow'[b].at # "insert paid"
             \/ \A c \in Browsers : flow'[c] = Late(c) \/ flow'[c].at # "insert paid"
             \/ flow' = flow
      PROVE  \A c \in Browsers : Same(c)
  BY <1>0, <1>2, LateTypes DEF OthersRest, At
<1>3. ASSUME NEW b \in Browsers, UpsertGitHubUser(b) PROVE PlanInv'
  <2>1. OthersRest(b) /\ flow'[b].at = "plan" /\ plans' = plans /\ mishap' = mishap
    BY <1>0, <1>3 DEF UpsertGitHubUser, FlowTyped, Flow, OthersRest
  <2>2. \A c \in Browsers : Same(c)
    BY <1>2, <2>1
  <2>3. CASE account.id # 0
    BY <1>1, <1>3, <2>1, <2>2, <2>3, PlansRest DEF UpsertGitHubUser
  <2>4. CASE account.id = 0
    <3>1. account'.id = made + 1 /\ made \in Nat
      BY <1>3, <2>4, TypedParts, AccountsAssumption
      DEF UpsertGitHubUser, RestTyped, AccountTyped, AccountsAssumption
    <3>2. ASSUME NEW c \in Browsers PROVE flow[c].id # account'.id
      <4>1. flow[c].id <= made /\ flow[c].id \in Nat
        BY <1>0, AccountsAssumption DEF PlanInv, IdsMade, FlowTyped, Flow, AccountsAssumption
      <4> QED
        BY <3>1, <4>1
    <3>3. PaidSees'
      BY <2>2, <3>2 DEF PaidSees, At
    <3>4. PlanInForce'
      BY <2>1 DEF PlanInv, PlanInForce
    <3> QED
      BY <1>1, <3>3, <3>4 DEF PlanInv
  <2> QED
    BY <2>3, <2>4
<1>4. ASSUME NEW b \in Browsers, SignInStep(b), ~UpsertGitHubUser(b), ~InsertFreePlan(b) PROVE PlanInv'
  <2>1. plans' = plans /\ account' = account /\ mishap' = mishap
    BY <1>4 DEF SignInStep, StartGitHubAuth, StateExpires, HandleCallback, Unauthorized, ResolveAccountState,
                GetCurrentPlan, EstablishSession, Logout
  <2>2. (\E step : step # "insert paid" /\ To(b, step)) \/ Done(b) \/ flow' = flow
    BY <1>4 DEF SignInStep, StartGitHubAuth, StateExpires, HandleCallback, Unauthorized, ResolveAccountState,
                GetCurrentPlan, EstablishSession, Logout
  <2>3. \A c \in Browsers : Same(c)
    <3>1. ASSUME NEW step, step # "insert paid", To(b, step) PROVE \A c \in Browsers : Same(c)
      <4>1. OthersRest(b) /\ flow'[b].at = step
        BY <1>0, <3>1, ToIs
      <4> QED
        BY <1>2, <3>1, <4>1
    <3>2. CASE Done(b)
      <4>1. OthersRest(b) /\ flow'[b].at # "insert paid"
        BY <1>0, <3>2, DoneIs
      <4> QED
        BY <1>2, <4>1
    <3> QED
      BY <1>2, <2>2, <3>1, <3>2
  <2> QED
    BY <1>1, <2>1, <2>3, PlansRest
<1>5. ASSUME NEW b \in Browsers, AccountStep(b) PROVE PlanInv'
  <2>1. mishap' = mishap /\ (plans' = {} \/ (plans' = plans /\ account'.id = account.id))
    BY <1>5, TypedParts DEF AccountStep, DeleteAccount, DestroySession, RestoreArchivedAccount, StartFreshAccount,
                RestTyped, AccountTyped
  <2>2. \A c \in Browsers : Same(c)
    <3>1. CASE DeleteAccount(b)
      <4>1. CASE Active(session[b].user)
        <5>1. flow'[b].at = "destroy" /\ \A c \in Browsers \ {b} : flow'[c] = Late(c)
          BY <1>0, <3>1, <4>1 DEF DeleteAccount, Overtake, Late, FlowTyped, Flow
        <5> QED
          BY <1>2, <5>1
      <4>2. CASE ~Active(session[b].user)
        <5>1. To(b, "destroy")
          BY <3>1, <4>2 DEF DeleteAccount
        <5>2. OthersRest(b) /\ flow'[b].at = "destroy"
          BY <1>0, <5>1, ToIs
        <5> QED
          BY <1>2, <5>2
      <4> QED
        BY <4>1, <4>2
    <3>2. CASE DestroySession(b)
      BY <1>0, <1>2, <3>2, DoneIs DEF DestroySession
    <3>3. CASE RestoreArchivedAccount(b)
      <4>1. OthersRest(b) /\ flow'[b].at = "session"
        BY <1>0, <3>3 DEF RestoreArchivedAccount, FlowTyped, Flow, OthersRest
      <4> QED
        BY <1>2, <4>1
    <3>4. CASE StartFreshAccount(b)
      <4>1. flow'[b].at = "upsert" /\ \A c \in Browsers \ {b} : flow'[c] = Late(c)
        BY <1>0, <3>4 DEF StartFreshAccount, Overtake, Late, FlowTyped, Flow, Idle
      <4> QED
        BY <1>2, <4>1
    <3> QED
      BY <1>5, <3>1, <3>2, <3>3, <3>4 DEF AccountStep
  <2> QED
    BY <1>1, <2>1, <2>2, PlansRest
<1>6. ASSUME NEW b \in Browsers, BeginMonthlyPlan(b) \/ StepFails(b) PROVE PlanInv'
  <2>1. OthersRest(b) /\ flow'[b].at # "insert paid"
    BY <1>0, <1>6, DoneIs DEF BeginMonthlyPlan, StepFails, FlowTyped, Flow, OthersRest
  <2>2. plans' = plans /\ account' = account /\ mishap \subseteq mishap'
    BY <1>6 DEF BeginMonthlyPlan, StepFails
  <2> QED
    BY <1>1, <1>2, <2>1, <2>2, PlansRest
<1>7. ASSUME NEW b \in Browsers, CancelActivePlans(b) PROVE PlanInv'
  <2>1. /\ OthersRest(b) /\ flow'[b].id = flow[b].id
        /\ flow[b].id = account.id => flow'[b].hit = {p.at : p \in {q \in plans : q.active}}
    BY <1>0, <1>7 DEF CancelActivePlans, FlowTyped, Flow, OthersRest
  <2>2. plans' = plans /\ account' = account /\ mishap' = mishap
    BY <1>7 DEF CancelActivePlans
  <2>3. flow[b].id = account.id => \A p \in plans : p.active => p.at \in flow'[b].hit
    BY <2>1
  <2>4. PaidSees'
    BY <2>1, <2>2, <2>3 DEF PlanInv, PaidSees, OthersRest, At
  <2>5. PlanInForce'
    BY <2>2 DEF PlanInv, PlanInForce
  <2> QED
    BY <1>1, <2>4, <2>5 DEF PlanInv
<1>8. CASE RetentionPasses
  <2>1. plans' = plans /\ mishap' = mishap /\ flow' = flow /\ account'.id = account.id
    BY <1>8, TypedParts DEF RetentionPasses, RestTyped, AccountTyped
  <2> QED
    BY <1>1, <1>2, <2>1, PlansRest
<1>9. CASE PurgeExpiredArchived
  <2>1. \A c \in Browsers : flow'[c] = Late(c)
    BY <1>0, <1>9, PurgeOvertakes
  <2> QED
    BY <1>1, <1>2, <1>9, <2>1, PlansRest DEF PurgeExpiredArchived
<1>10. CASE UNCHANGED vars
  BY <1>10 DEF vars, PlanInv, IdsMade, PaidSees, PlanInForce, At
<1>11. ASSUME NEW b \in Browsers, InsertFreePlan(b) \/ InsertMonthlyPlan(b) \/ CancelCurrent(b) PROVE PlanInv'
  BY <1>1, <1>11, InsertFreeKeeps, InsertMonthlyKeeps, CancelCurrentKeeps
<1> QED
  BY <1>3, <1>4, <1>5, <1>6, <1>7, <1>8, <1>9, <1>10, <1>11 DEF Next, PlanStep

-----------------------------------------------------------------------------
(* The theorems.                                                           *)

LEMMA Inductive ==
  Spec => [](Typed /\ SessionInv /\ PlanInv)
<1>1. Init => Typed /\ SessionInv /\ PlanInv
  <2>1. ASSUME Init PROVE SessionInv
    BY <2>1 DEF Init, NoAccount, SignedOut, Idle, SessionInv, NoneIsPlain, Found, Asked, Held, GoneOnlyByMishap,
                At, SignedIn
  <2>2. ASSUME Init PROVE PlanInv
    BY <2>2 DEF Init, SignedOut, Idle, PlanInv, IdsMade, PaidSees, PlanInForce, At
  <2> QED
    BY <2>1, <2>2, InitTypes
<1>2. (Typed /\ SessionInv /\ PlanInv) /\ [Next]_vars => (Typed /\ SessionInv /\ PlanInv)'
  BY NextTypes, SessionsKept, PlansKept
<1> QED
  BY <1>1, <1>2, PTL DEF Spec

(* Nobody stays signed in to an account that was archived or deleted, but  *)
(* for browsers in which another one ended it, and no account is gone but  *)
(* by the purge or by a fresh start under way or cut short; every variable *)
(* is of its type.  (deleteAccount, resolveAccountState.)                  *)
THEOREM SessionsAlwaysMatch == Spec => []SessionsMatchAccounts
<1>1. Typed /\ SessionInv /\ PlanInv => SessionsMatchAccounts
  BY DEF Typed, SessionInv, Held, SessionsMatchAccounts, HeldOnlyElsewhere
<1> QED
  BY <1>1, Inductive, PTL

(* Unless insertions crossed, at most one subscription is active, and it   *)
(* is the newest.  (activateMonthlyPlan, ensureDefaultFreeSubscription.)   *)
THEOREM PlanStaysInForce == Spec => []PlanInForce
<1>1. Typed /\ SessionInv /\ PlanInv => PlanInForce
  BY DEF PlanInv
<1> QED
  BY <1>1, Inductive, PTL

(* An account is deleted by the purge once its retention has passed, or by *)
(* the choice of a browser to start fresh, made about an archive.          *)
(* (hardDeleteByGithubUserId.)                                             *)
THEOREM DeletedAsArchived == Spec => DeletedOnlyAsArchived
<1> DEFINE Rule == account.id # 0 /\ account'.id = 0
                     => \/ account.archived = "expired"
                        \/ \E b \in Browsers :
                             /\ session[b].pending /\ flow'[b].fresh
                             /\ account.archived = "recent" \/ b \in overtaken
<1>1. ASSUME Typed, SessionInv, PlanInv, [Next]_vars PROVE [Rule]_vars
  <2>0. AccountTyped /\ FlowTyped
    BY <1>1, TypedParts DEF RestTyped
  <2>1. ASSUME NEW b \in Browsers, StartFreshAccount(b) PROVE Rule
    <3>1. session[b].pending /\ Asked(b)
      BY <1>1, <2>1 DEF StartFreshAccount, SessionInv
    <3>2. flow'[b].fresh
      BY <2>0, <2>1 DEF StartFreshAccount, Overtake, Idle, FlowTyped
    <3>3. account.archived \in {"no", "recent", "expired"}
      BY <2>0 DEF AccountTyped
    <3> QED
      BY <3>1, <3>2, <3>3 DEF Asked
  <2>2. CASE PurgeExpiredArchived
    BY <2>2 DEF PurgeExpiredArchived
  <2>3. ASSUME NEW b \in Browsers, UpsertGitHubUser(b) PROVE Rule
    BY <2>3 DEF UpsertGitHubUser
  <2>4. ASSUME NEW b \in Browsers, SignInStep(b), ~UpsertGitHubUser(b) PROVE account' = account
    BY <2>4 DEF SignInStep, StartGitHubAuth, StateExpires, HandleCallback, Unauthorized, ResolveAccountState,
                GetCurrentPlan, InsertFreePlan, EstablishSession, Logout
  <2>5. ASSUME NEW b \in Browsers, AccountStep(b), ~StartFreshAccount(b) PROVE account'.id = account.id
    BY <2>0, <2>5 DEF AccountStep, DeleteAccount, DestroySession, RestoreArchivedAccount, AccountTyped
  <2>6. ASSUME NEW b \in Browsers, PlanStep(b) \/ StepFails(b) PROVE account' = account
    BY <2>6 DEF PlanStep, BeginMonthlyPlan, CancelActivePlans, InsertMonthlyPlan, CancelCurrent, StepFails
  <2>7. CASE RetentionPasses
    BY <2>0, <2>7 DEF RetentionPasses, AccountTyped
  <2> QED
    BY <1>1, <2>1, <2>2, <2>3, <2>4, <2>5, <2>6, <2>7 DEF Next
<1>2. (Typed /\ SessionInv /\ PlanInv) /\ [Next]_vars => [Rule]_vars
  BY <1>1
<1> QED
  BY <1>2, Inductive, PTL DEF Spec, DeletedOnlyAsArchived

-----------------------------------------------------------------------------
(* Roles: who may do what outside the groups.                              *)

\* A session is idle, or its request is one that may be made, at a step of its path.
Underway ==
  {r \in [ask : RoleAsks \cup PlatformAsks \cup WorkspaceAsks, at : ReqSteps \ {"none"},
          by : Users, on : Users, to : AppRoles \cup PlatformRoles \cup WorkspaceRoles,
          unread : BOOLEAN, stale : BOOLEAN] :
     /\ r.ask = "sync" => r.at \notin {"check", "count"} /\ r.to \in {"lead", "member"}
     /\ r.ask # "sync" => r.at \in {"check", "count", "write"} /\ r.to \in Grantable(r.ask)}
RequestsTyped == req \in [Sessions -> Underway \cup {NoRequest}]

\* What a request has checked is so until another one is written about it: of a
\* synchronisation, a setting in the admin tier, a grant, and a removal.
Checked(r) ==
  /\ r.ask = "sync" =>
       /\ Synced(r.on)
       /\ r.at = "developer" \/ (r.at = "write" /\ r.to = "member") =>
            team[r.on] \notin {"lead", "both"} \/ r.unread
       /\ r.at = "write" /\ r.to = "member" /\ r.unread => team[r.on] \in {"developer", "both"}
  /\ r.ask = "set" /\ r.at = "write" =>
       (role[r.on] = "admin" \/ r.to = "admin" => platform[r.by] = "super_admin")
  /\ r.ask \in PlatformAsks => platform[r.by] = "super_admin" /\ r.by # r.on
  /\ r.ask \in {"update", "remove"} /\ r.at = "write" =>
       \/ member[r.on] # "admin" \/ (r.ask = "update" /\ r.to = "admin")
       \/ \E u \in Users : u # r.on /\ member[u] = "admin"
RequestsChecked == \A s \in Sessions : ~req[s].stale => Checked(req[s])

\* What a sweep has listed, and the roster it has read, are as they were but for the
\* users it knows to be stale.
SweepCurrent ==
  /\ sweep.at = "write" => \A u \in sweep.todo \ sweep.stale : Synced(u)
  /\ sweep.at # "idle" /\ ~sweep.partial =>
       \A u \in Users \ sweep.stale : u \in sweep.leads <=> team[u] \in {"lead", "both"}

RolesIInv == RolesTypeOK /\ RequestsTyped /\ RequestsChecked /\ SweepCurrent

\* The state is of its type, in parts.
RolesTyped ==
  /\ role \in [Users -> AppRoles] /\ source \in [Users -> {"github_team", "manual"}]
  /\ platform \in [Users -> PlatformRoles] /\ member \in [Users -> WorkspaceRoles]
TeamsTyped == team \in [Users -> RoleTeams] /\ events \subseteq Users
SweepTyped ==
  sweep \in [at : {"idle", "list", "write"}, leads : SUBSET Users, todo : SUBSET Users,
             partial : BOOLEAN, stale : SUBSET Users]
LeftTyped == asks \subseteq Ask /\ left \in [requests : Nat, changes : Nat, faults : Nat]

LEMMA RequestShape ==
  ASSUME NEW r \in Underway \cup {NoRequest}
  PROVE  /\ DOMAIN r = DOMAIN NoRequest /\ r.at \in ReqSteps
         /\ {r.unread, r.stale} \subseteq BOOLEAN
         /\ r.by \in Users /\ r.on \in Users
         /\ r.at = "none" <=> r = NoRequest
         /\ r.ask = "none" <=> r = NoRequest
<1>1. CASE r = NoRequest
  BY <1>1, RolesAssumption DEF NoRequest, ReqSteps
<1>2. CASE r \in Underway
  <2>1. DOMAIN r = {"ask", "at", "by", "on", "to", "unread", "stale"}
    BY <1>2 DEF Underway
  <2>2. DOMAIN NoRequest = {"ask", "at", "by", "on", "to", "unread", "stale"}
    BY DEF NoRequest
  <2>3. r.at \in ReqSteps \ {"none"} /\ {r.unread, r.stale} \subseteq BOOLEAN /\ r.by \in Users /\ r.on \in Users
        /\ r.ask \in RoleAsks \cup PlatformAsks \cup WorkspaceAsks
    BY <1>2 DEF Underway
  <2> QED
    BY <2>1, <2>2, <2>3 DEF NoRequest, RoleAsks, PlatformAsks, WorkspaceAsks
<1> QED
  BY <1>1, <1>2

LEMMA RolesTypedParts ==
  ASSUME RequestsTyped, RolesTyped, TeamsTyped, SweepTyped, LeftTyped
  PROVE  RolesTypeOK
  BY RequestShape DEF RequestsTyped, RolesTyped, TeamsTyped, SweepTyped, LeftTyped, RolesTypeOK

\* The inductive invariant, in the parts that the steps are proved to keep.
RolesParts ==
  /\ RolesTyped /\ TeamsTyped /\ SweepTyped /\ LeftTyped
  /\ RequestsTyped /\ RequestsChecked /\ SweepCurrent

LEMMA RolesIInvParts == RolesIInv <=> RolesParts
  BY RolesTypedParts
     DEF RolesIInv, RolesParts, RolesTyped, TeamsTyped, SweepTyped, LeftTyped, RolesTypeOK

LEMMA RolesPartsInit == ASSUME RolesInit PROVE RolesParts
<1>1. RolesTyped /\ TeamsTyped /\ LeftTyped
  BY RolesAssumption DEF RolesInit, RolesTyped, TeamsTyped, LeftTyped, RoleIn, AppRoles,
         PlatformRoles, WorkspaceRoles, RoleTeams
<1>2. SweepTyped /\ SweepCurrent
  BY DEF RolesInit, NoSweep, SweepTyped, SweepCurrent
<1>3. RequestsTyped /\ RequestsChecked
  BY DEF RolesInit, NoRequest, RequestsTyped, RequestsChecked, Checked, PlatformAsks
<1> QED
  BY <1>1, <1>2, <1>3 DEF RolesParts

-----------------------------------------------------------------------------
(* What steps do to requests.                                              *)

\* A request goes on, ends or begins, and nothing that another one has checked changes.
LEMMA RequestGoesOn ==
  ASSUME RequestsTyped, RequestsChecked, UNCHANGED <<role, source, platform, team, member>>,
         NEW s \in Sessions, NEW r \in Underway \cup {NoRequest}, req' = [req EXCEPT ![s] = r],
         ~r.stale => Checked(r)
  PROVE  RequestsTyped' /\ RequestsChecked'
<1>1. RequestsTyped'
  BY DEF RequestsTyped
<1>2. ASSUME NEW t \in Sessions, ~req'[t].stale PROVE Checked(req[t])'
  <2>1. CASE t = s
    BY <1>2, <2>1 DEF RequestsTyped, Checked, Synced
  <2>2. CASE t # s
    BY <1>2, <2>2 DEF RequestsTyped, RequestsChecked, Checked, Synced
  <2> QED
    BY <2>1, <2>2
<1> QED
  BY <1>1, <1>2 DEF RequestsChecked

\* After a write a request that is not stale was not overtaken by it.
LEMMA WrittenLeaves ==
  ASSUME RequestsTyped, NEW s \in Sessions, NEW u \in Users, Written(s, u)
  PROVE  /\ RequestsTyped'
         /\ \A t \in Sessions : ~req'[t].stale =>
              \/ req'[t] = NoRequest
              \/ t # s /\ req'[t] = req[t] /\ ~req[t].stale /\ ~Overtakes(s, t, u)
<1>1. req' = [t \in Sessions |->
                IF t = s \/ VoidedBy(s, t) THEN NoRequest
                ELSE [req[t] EXCEPT !.stale = @ \/ Overtakes(s, t, u)]]
  BY DEF Written
<1>2. ASSUME NEW t \in Sessions
      PROVE  /\ req'[t] \in Underway \cup {NoRequest}
             /\ ~req'[t].stale =>
                  \/ req'[t] = NoRequest
                  \/ t # s /\ req'[t] = req[t] /\ ~req[t].stale /\ ~Overtakes(s, t, u)
  <2>1. CASE t = s \/ VoidedBy(s, t)
    BY <1>1, <2>1
  <2>2. CASE ~(t = s \/ VoidedBy(s, t)) /\ req[t] = NoRequest
    <3>1. ~Overtakes(s, t, u)
      BY <2>2 DEF Overtakes, NoRequest, PlatformAsks, WorkspaceAsks, RoleAsks
    <3>2. req'[t] = [NoRequest EXCEPT !.stale = NoRequest.stale \/ Overtakes(s, t, u)]
      BY <1>1, <2>2
    <3>3. NoRequest.stale = FALSE
      BY DEF NoRequest
    <3>4. req'[t] = [NoRequest EXCEPT !.stale = FALSE]
      BY <3>1, <3>2, <3>3
    <3> QED
      BY <3>4 DEF NoRequest
  <2>3. CASE ~(t = s \/ VoidedBy(s, t)) /\ req[t] \in Underway
    <3> DEFINE b == req[t].stale \/ Overtakes(s, t, u)
    <3>1. req'[t] = [req[t] EXCEPT !.stale = b]
      BY <1>1, <2>3
    <3>2. b \in BOOLEAN /\ req[t].stale \in BOOLEAN
      BY <2>3 DEF Underway
    <3>3. ~b => ~req[t].stale /\ ~Overtakes(s, t, u)
      OBVIOUS
    <3> HIDE DEF b
    <3>4. req'[t] \in Underway
      BY <2>3, <3>1, <3>2 DEF Underway
    <3>5. req'[t].stale = b
      BY <2>3, <3>1 DEF Underway
    <3>6. ~b => req'[t] = req[t]
      BY <2>3, <3>1, <3>2, <3>3 DEF Underway
    <3> QED
      BY <2>3, <3>3, <3>4, <3>5, <3>6
  <2> QED
    BY <2>1, <2>2, <2>3 DEF RequestsTyped
<1> QED
  BY <1>1, <1>2 DEF RequestsTyped

\* What stays with a write about u: what nobody but u is concerned by.
WritesAbout(s, u) ==
  /\ req[s].ask \in RoleAsks =>
       /\ UNCHANGED <<platform, team, member>>
       /\ \A v \in Users \ {u} : role'[v] = role[v] /\ source'[v] = source[v]
  /\ req[s].ask \in PlatformAsks =>
       /\ UNCHANGED <<role, source, team, member>>
       /\ \A v \in Users \ {u} : platform'[v] = platform[v]
  /\ req[s].ask \in WorkspaceAsks => UNCHANGED <<role, source, platform, team>>

LEMMA WriteKeepsRequests ==
  ASSUME RequestsTyped, RequestsChecked, NEW s \in Sessions, NEW u \in Users,
         req[s] # NoRequest, Written(s, u), WritesAbout(s, u)
  PROVE  RequestsTyped' /\ RequestsChecked'
<1>1. ASSUME NEW t \in Sessions, ~req'[t].stale PROVE Checked(req[t])'
  <2>1. CASE req'[t] = NoRequest
    BY <2>1 DEF Checked, NoRequest, PlatformAsks
  <2>2. CASE t # s /\ req'[t] = req[t] /\ ~req[t].stale /\ ~Overtakes(s, t, u) /\ req[t] # NoRequest
    <3>1. Checked(req[t]) /\ req[t] \in Underway /\ req[s] \in Underway
      BY <2>2 DEF RequestsTyped, RequestsChecked
    <3>2. req[t].on \in Users /\ req[t].by \in Users
      BY <3>1 DEF Underway
    <3>3. req[s].ask \in RoleAsks \cup PlatformAsks \cup WorkspaceAsks
      BY <3>1 DEF Underway
    <3>4. CASE req[t].ask \in RoleAsks
      <4>1. req[s].ask \in WorkspaceAsks \/ (req[t].on # u /\ req[t].by # u)
        BY <2>2, <3>4 DEF Overtakes
      <4>2. /\ role'[req[t].on] = role[req[t].on] /\ source'[req[t].on] = source[req[t].on]
            /\ platform'[req[t].by] = platform[req[t].by] /\ team' = team
        BY <3>2, <3>3, <4>1 DEF WritesAbout, RoleAsks, PlatformAsks, WorkspaceAsks
      <4> QED
        BY <2>2, <3>1, <3>4, <4>2
           DEF Checked, Synced, RoleAsks, PlatformAsks, WorkspaceAsks
    <3>5. CASE req[t].ask \in PlatformAsks
      <4>1. req[s].ask \notin PlatformAsks
        BY <2>2, <3>5 DEF Overtakes
      <4>2. platform' = platform
        BY <3>3, <4>1 DEF WritesAbout
      <4> QED
        BY <2>2, <3>1, <3>5, <4>2 DEF Checked, PlatformAsks
    <3>6. CASE req[t].ask \in WorkspaceAsks
      <4>1. req[s].ask \notin WorkspaceAsks
        BY <2>2, <3>6 DEF Overtakes
      <4>2. member' = member
        BY <3>3, <4>1 DEF WritesAbout
      <4> QED
        BY <2>2, <3>1, <3>6, <4>2 DEF Checked, WorkspaceAsks, PlatformAsks
    <3> QED
      BY <3>1, <3>4, <3>5, <3>6 DEF Underway
  <2> QED
    BY <1>1, <2>1, <2>2, WrittenLeaves
<1> QED
  BY <1>1, WrittenLeaves DEF RequestsChecked

LEMMA WriteKeepsSweep ==
  ASSUME SweepTyped, SweepCurrent, NEW s \in Sessions, NEW u \in Users,
         Written(s, u), WritesAbout(s, u),
         req[s].ask \in RoleAsks \cup PlatformAsks \cup WorkspaceAsks
  PROVE  SweepTyped' /\ SweepCurrent'
<1>1. team' = team
  BY DEF WritesAbout
<1>2. CASE sweep.at = "write" /\ req[s].ask \in RoleAsks
  <2>1. sweep' = [sweep EXCEPT !.stale = @ \cup {u}]
    BY <1>2 DEF Written
  <2>2. \A v \in Users \ {u} : role'[v] = role[v] /\ source'[v] = source[v]
    BY <1>2 DEF WritesAbout
  <2> QED
    BY <1>1, <1>2, <2>1, <2>2 DEF SweepTyped, SweepCurrent, Synced
<1>3. CASE ~(sweep.at = "write" /\ req[s].ask \in RoleAsks)
  <2>1. sweep' = sweep
    BY <1>3 DEF Written
  <2>2. sweep.at = "write" => UNCHANGED <<role, source>>
    BY <1>3 DEF WritesAbout
  <2> QED
    BY <1>1, <2>1, <2>2 DEF SweepTyped, SweepCurrent, Synced
<1> QED
  BY <1>2, <1>3

-----------------------------------------------------------------------------
(* The steps.                                                              *)

LEMMA BeginKeeps == ASSUME RolesParts, NEW s \in Sessions, Begin(s) PROVE RolesParts'
<1>1. PICK a \in asks :
        /\ Passes(a)
        /\ req' = [req EXCEPT ![s] = [ask |-> a.ask, at |-> Second(a.ask), by |-> a.by,
                                      on |-> a.on, to |-> a.to, unread |-> FALSE, stale |-> FALSE]]
  BY DEF Begin
<1> DEFINE r == [ask |-> a.ask, at |-> Second(a.ask), by |-> a.by,
                 on |-> a.on, to |-> a.to, unread |-> FALSE, stale |-> FALSE]
<1>2. a \in Ask
  BY DEF RolesParts, LeftTyped
<1>3. /\ a.ask \in (RoleAsks \cup PlatformAsks \cup WorkspaceAsks) \ {"sync"}
      /\ a.by \in Users /\ a.on \in Users /\ a.to \in Grantable(a.ask)
      /\ a.to \in AppRoles \cup PlatformRoles \cup WorkspaceRoles
  BY <1>1, <1>2 DEF Ask, Passes, PlatformAsks
<1>4. r \in Underway
  BY <1>3 DEF Underway, Second, ReqSteps
<1>5. Checked(r)
  BY <1>1, <1>3 DEF Checked, Passes, Second, PlatformAsks
<1>6. RequestsTyped' /\ RequestsChecked'
  <2> HIDE DEF r
  <2> QED
    BY <1>1, <1>4, <1>5, RequestGoesOn DEF RolesParts, Begin, data, r
<1> QED
  BY <1>6
     DEF RolesParts, Begin, data, RolesTyped, TeamsTyped, SweepTyped, LeftTyped, SweepCurrent, Synced

\* The first step of a synchronisation, of a sign-in or of an event.
LEMMA BeginSyncKeeps ==
  ASSUME RolesTyped, RequestsTyped, RequestsChecked, NEW s \in Sessions, NEW u \in Users,
         BeginSync(s, u), UNCHANGED <<role, source, platform, team, member>>
  PROVE  RequestsTyped' /\ RequestsChecked'
<1> DEFINE r == [ask |-> "sync", at |-> "lead", by |-> u, on |-> u, to |-> role[u], unread |-> FALSE, stale |-> FALSE]
<1>1. CASE Synced(u)
  <2>1. r \in Underway
    BY <1>1 DEF RolesTyped, Synced, Underway, AppRoles, RoleAsks, ReqSteps
  <2>2. Checked(r)
    BY <1>1 DEF Checked, PlatformAsks
  <2>3. req' = [req EXCEPT ![s] = r]
    BY <1>1 DEF BeginSync
  <2> HIDE DEF r
  <2> QED
    BY <2>1, <2>2, <2>3, RequestGoesOn
<1>2. CASE ~Synced(u)
  BY <1>2 DEF BeginSync, RequestsTyped, RequestsChecked, Checked, Synced
<1> QED
  BY <1>1, <1>2

LEMMA SyncAtLoginKeeps == ASSUME RolesParts, NEW s \in Sessions, SyncAtLogin(s) PROVE RolesParts'
<1>1. PICK a \in asks : a.ask = "sync" /\ BeginSync(s, a.on)
  BY DEF SyncAtLogin
<1>2. a.on \in Users
  BY DEF RolesParts, LeftTyped, Ask
<1>3. RequestsTyped' /\ RequestsChecked'
  BY <1>1, <1>2, BeginSyncKeeps DEF RolesParts, SyncAtLogin, data
<1> QED
  BY <1>3
     DEF RolesParts, SyncAtLogin, data, RolesTyped, TeamsTyped, SweepTyped, LeftTyped,
         SweepCurrent, Synced

LEMMA HandleMembershipEventKeeps ==
  ASSUME RolesParts, NEW s \in Sessions, HandleMembershipEvent(s) PROVE RolesParts'
<1>1. PICK u \in events : BeginSync(s, u) /\ events' = events \ {u}
  BY DEF HandleMembershipEvent
<1>2. u \in Users
  BY DEF RolesParts, TeamsTyped
<1>3. RequestsTyped' /\ RequestsChecked'
  BY <1>1, <1>2, BeginSyncKeeps DEF RolesParts, HandleMembershipEvent
<1> QED
  BY <1>1, <1>3
     DEF RolesParts, HandleMembershipEvent, RolesTyped, TeamsTyped, SweepTyped, LeftTyped,
         SweepCurrent, Synced

\* A step of a request that reads only, to the request r.
LEMMA ReadKeeps ==
  ASSUME RolesParts, NEW s \in Sessions, NEW r \in Underway \cup {NoRequest},
         req' = [req EXCEPT ![s] = r], ~r.stale => Checked(r),
         UNCHANGED <<data, asks, sweep>>, left' = left \/ Fault
  PROVE  RolesParts'
<1>1. RequestsTyped' /\ RequestsChecked'
  BY RequestGoesOn DEF RolesParts, data
<1>2. LeftTyped'
  BY DEF RolesParts, LeftTyped, Fault
<1> QED
  BY <1>1, <1>2
     DEF RolesParts, data, RolesTyped, TeamsTyped, SweepTyped, SweepCurrent, Synced

LEMMA EndKeeps ==
  ASSUME RolesParts, NEW s \in Sessions, End(s),
         UNCHANGED <<data, asks, sweep>>, left' = left \/ Fault
  PROVE  RolesParts'
<1>1. Checked(NoRequest)
  BY DEF Checked, NoRequest, PlatformAsks
<1> QED
  BY <1>1, ReadKeeps DEF End

LEMMA GoKeeps ==
  ASSUME RolesParts, NEW s \in Sessions, NEW step \in ReqSteps \ {"none"}, Go(s, step),
         req[s] # NoRequest,
         req[s].ask = "sync" => step \notin {"check", "count"},
         req[s].ask # "sync" => step \in {"check", "count", "write"},
         ~req[s].stale => Checked([req[s] EXCEPT !.at = step]),
         UNCHANGED <<data, asks, sweep>>, left' = left \/ Fault
  PROVE  RolesParts'
<1> DEFINE r == [req[s] EXCEPT !.at = step]
<1>1. req[s] \in Underway
  BY DEF RolesParts, RequestsTyped
<1>2. r \in Underway /\ r.stale = req[s].stale
  BY <1>1 DEF Underway
<1>3. req' = [req EXCEPT ![s] = r]
  BY <1>1 DEF Go
<1>4. ~r.stale => Checked(r)
  BY <1>2
<1> HIDE DEF r
<1> QED
  BY <1>2, <1>3, <1>4, ReadKeeps

LEMMA CheckRevokeKeeps ==
  ASSUME RolesParts, NEW s \in Sessions, CheckRevoke(s) PROVE RolesParts'
<1>1. req[s] \in Underway /\ req[s] # NoRequest /\ req[s].ask = "revoke"
  BY DEF CheckRevoke, RolesParts, RequestsTyped, NoRequest
<1>2. CASE End(s)
  BY <1>2, EndKeeps DEF CheckRevoke
<1>3. ASSUME NEW step \in {"count", "write"}, Go(s, step) PROVE RolesParts'
  <2>1. ~req[s].stale => Checked([req[s] EXCEPT !.at = step])
    BY <1>1 DEF Underway, Checked, RolesParts, RequestsChecked
  <2> QED
    BY <1>1, <1>3, <2>1, GoKeeps DEF CheckRevoke, ReqSteps
<1> QED
  BY <1>2, <1>3 DEF CheckRevoke

LEMMA CountSuperAdminsKeeps ==
  ASSUME RolesParts, NEW s \in Sessions, CountSuperAdmins(s) PROVE RolesParts'
<1>1. req[s] \in Underway /\ req[s] # NoRequest /\ req[s].ask = "revoke"
  BY DEF CountSuperAdmins, RolesParts, RequestsTyped, NoRequest
<1>2. CASE End(s)
  BY <1>2, EndKeeps DEF CountSuperAdmins
<1>3. CASE Go(s, "write")
  <2>1. ~req[s].stale => Checked([req[s] EXCEPT !.at = "write"])
    BY <1>1 DEF Underway, Checked, RolesParts, RequestsChecked
  <2> QED
    BY <1>1, <1>3, <2>1, GoKeeps DEF CountSuperAdmins, ReqSteps
<1> QED
  BY <1>2, <1>3 DEF CountSuperAdmins

LEMMA CheckTierKeeps ==
  ASSUME RolesParts, NEW s \in Sessions, CheckTier(s) PROVE RolesParts'
<1>1. req[s] \in Underway /\ req[s] # NoRequest /\ req[s].ask \in {"set", "reset"}
  BY DEF CheckTier, RolesParts, RequestsTyped, NoRequest
<1>2. CASE End(s)
  BY <1>2, EndKeeps DEF CheckTier
<1>3. CASE Go(s, "write") /\ ~End(s)
  <2>1. role[req[s].on] = "admin" \/ (req[s].ask = "set" /\ req[s].to = "admin") =>
          platform[req[s].by] = "super_admin"
    BY <1>3 DEF CheckTier
  <2>2. ~req[s].stale => Checked([req[s] EXCEPT !.at = "write"])
    BY <1>1, <2>1 DEF Underway, Checked, PlatformAsks
  <2> QED
    BY <1>1, <1>3, <2>2, GoKeeps DEF CheckTier, ReqSteps
<1> QED
  BY <1>2, <1>3 DEF CheckTier

LEMMA CheckMemberKeeps ==
  ASSUME RolesParts, NEW s \in Sessions, CheckMember(s) PROVE RolesParts'
<1> DEFINE leaves == member[req[s].on] = "admin" /\ ~(req[s].ask = "update" /\ req[s].to = "admin")
<1>1. req[s] \in Underway /\ req[s] # NoRequest /\ req[s].ask \in {"update", "remove"}
  BY DEF CheckMember, RolesParts, RequestsTyped, NoRequest
<1>2. ASSUME NEW step \in {"count", "write"}, Go(s, step), step = "write" => ~leaves
      PROVE  RolesParts'
  <2>1. ~req[s].stale => Checked([req[s] EXCEPT !.at = step])
    BY <1>1, <1>2 DEF Underway, Checked, PlatformAsks
  <2> QED
    BY <1>1, <1>2, <2>1, GoKeeps DEF CheckMember, ReqSteps
<1>3. Go(s, IF leaves THEN "count" ELSE "write")
  BY DEF CheckMember
<1> QED
  BY <1>2, <1>3

\* More than one owner: another one than the one who goes.
LEMMA AnotherOwner ==
  ASSUME NEW u, ~(Cardinality(Owners) <= 1)
  PROVE  \E v \in Users : v # u /\ member[v] = "admin"
<1>1. Cardinality({}) = 0 /\ Cardinality({u}) = 1
  BY FS_EmptySet, FS_Singleton
<1>2. Owners # {} /\ Owners # {u}
  BY <1>1
<1> QED
  BY <1>2 DEF Owners

LEMMA CountOwnersKeeps ==
  ASSUME RolesParts, NEW s \in Sessions, CountOwners(s) PROVE RolesParts'
<1>1. req[s] \in Underway /\ req[s] # NoRequest /\ req[s].ask \in {"update", "remove"}
  BY DEF CountOwners, RolesParts, RequestsTyped, NoRequest
<1>2. CASE End(s)
  BY <1>2, EndKeeps DEF CountOwners
<1>3. CASE Go(s, "write") /\ ~(Cardinality(Owners) <= 1)
  <2>1. \E u \in Users : u # req[s].on /\ member[u] = "admin"
    BY <1>3, AnotherOwner
  <2>2. ~req[s].stale => Checked([req[s] EXCEPT !.at = "write"])
    BY <1>1, <2>1 DEF Underway, Checked, PlatformAsks
  <2> QED
    BY <1>1, <1>3, <2>2, GoKeeps DEF CountOwners, ReqSteps
<1> QED
  BY <1>2, <1>3 DEF CountOwners

-----------------------------------------------------------------------------
(* GitHub's answers.                                                       *)

LEMMA DeriveKeeps ==
  ASSUME RolesParts, NEW s \in Sessions, NEW derived \in {"lead", "member"},
         Derive(s, derived), req[s] # NoRequest, req[s].ask = "sync",
         ~req[s].stale /\ derived = "member" =>
           IF req[s].unread THEN team[req[s].on] \in {"developer", "both"}
           ELSE team[req[s].on] \notin {"lead", "both"},
         UNCHANGED <<data, asks, sweep, left>>
  PROVE  RolesParts'
<1> DEFINE r == [req[s] EXCEPT !.at = "write", !.to = derived]
<1>1. req[s] \in Underway
  BY DEF RolesParts, RequestsTyped
<1>2. CASE End(s)
  BY <1>2, EndKeeps
<1>3. CASE req' = [req EXCEPT ![s].at = "write", ![s].to = derived]
  <2>1. r \in Underway /\ r.stale = req[s].stale
    BY <1>1 DEF Underway, ReqSteps, AppRoles
  <2>2. ~r.stale => Checked(r)
    BY <1>1 DEF Underway, RolesParts, RequestsChecked, Checked, PlatformAsks
  <2>3. req' = [req EXCEPT ![s] = r]
    BY <1>3
  <2> HIDE DEF r
  <2> QED
    BY <2>1, <2>2, <2>3, ReadKeeps
<1> QED
  BY <1>2, <1>3 DEF Derive

LEMMA SyncAsks ==
  ASSUME RolesParts, NEW s \in Sessions, req[s].at \in {"lead", "developer"}
  PROVE  req[s] \in Underway /\ req[s] # NoRequest /\ req[s].ask = "sync" /\ req[s].on \in Users
<1>1. req[s] \in Underway /\ req[s] # NoRequest
  BY DEF RolesParts, RequestsTyped, NoRequest
<1> QED
  BY <1>1 DEF Underway

LEMMA AskLeadTeamKeeps ==
  ASSUME RolesParts, NEW s \in Sessions, AskLeadTeam(s) PROVE RolesParts'
<1>1. req[s] \in Underway /\ req[s] # NoRequest /\ req[s].ask = "sync" /\ req[s].on \in Users
  BY SyncAsks DEF AskLeadTeam, ReqAt
<1>2. CASE Derive(s, "lead")
  BY <1>1, <1>2, DeriveKeeps DEF AskLeadTeam
<1>3. CASE Go(s, "developer") /\ req[s].on \notin Leads
  <2>1. ~req[s].stale => Checked([req[s] EXCEPT !.at = "developer"])
    BY <1>1, <1>3 DEF Leads, Underway, RolesParts, RequestsChecked, Checked, PlatformAsks
  <2> QED
    BY <1>1, <1>3, <2>1, GoKeeps DEF AskLeadTeam, ReqSteps
<1> QED
  BY <1>2, <1>3 DEF AskLeadTeam

LEMMA LeadTeamUnreadKeeps ==
  ASSUME RolesParts, NEW s \in Sessions, LeadTeamUnread(s) PROVE RolesParts'
<1>1. req[s] \in Underway /\ req[s] # NoRequest /\ req[s].ask = "sync"
  BY SyncAsks DEF LeadTeamUnread, ReqAt
<1> DEFINE r == [req[s] EXCEPT !.at = "developer", !.unread = TRUE]
<1>2. r \in Underway /\ r.stale = req[s].stale
  BY <1>1 DEF Underway, ReqSteps
<1>3. ~r.stale => Checked(r)
  BY <1>1 DEF Underway, RolesParts, RequestsChecked, Checked, PlatformAsks
<1>4. req' = [req EXCEPT ![s] = r]
  BY <1>1 DEF LeadTeamUnread
<1> HIDE DEF r
<1> QED
  BY <1>2, <1>3, <1>4, ReadKeeps DEF LeadTeamUnread

LEMMA AskDeveloperTeamKeeps ==
  ASSUME RolesParts, NEW s \in Sessions, AskDeveloperTeam(s) PROVE RolesParts'
<1>1. req[s] \in Underway /\ req[s] # NoRequest /\ req[s].ask = "sync"
  BY SyncAsks DEF AskDeveloperTeam, ReqAt
<1>2. CASE End(s)
  BY <1>2, EndKeeps DEF AskDeveloperTeam
<1>3. CASE Derive(s, "member") /\ ~(req[s].unread /\ req[s].on \notin TeamDevelopers)
  <2>1. ~req[s].stale =>
          IF req[s].unread THEN team[req[s].on] \in {"developer", "both"}
          ELSE team[req[s].on] \notin {"lead", "both"}
    BY <1>1, <1>3 DEF ReqAt, AskDeveloperTeam, RolesParts, RequestsChecked, Checked, TeamDevelopers
  <2> QED
    BY <1>1, <1>3, <2>1, DeriveKeeps DEF AskDeveloperTeam
<1> QED
  BY <1>2, <1>3 DEF AskDeveloperTeam

LEMMA RequestFailsKeeps ==
  ASSUME RolesParts, NEW s \in Sessions, RequestFails(s) PROVE RolesParts'
  BY EndKeeps DEF RequestFails

-----------------------------------------------------------------------------
(* The writes.                                                             *)

LEMMA WriterIs ==
  ASSUME RolesParts, NEW s \in Sessions, NEW ask, ask # "none", Writing(s, ask)
  PROVE  req[s] \in Underway /\ req[s] # NoRequest /\ req[s].on \in Users /\ req[s].ask = ask
<1>1. req[s] \in Underway /\ req[s] # NoRequest /\ req[s].ask = ask
  BY DEF RolesParts, RequestsTyped, NoRequest, Writing, ReqAt
<1> QED
  BY <1>1 DEF Underway

\* A write that stays with its user keeps what the others have checked.
LEMMA WriteKeeps ==
  ASSUME RolesParts, NEW s \in Sessions,
         req[s] \in Underway, req[s] # NoRequest, Written(s, req[s].on), WritesAbout(s, req[s].on),
         RolesTyped', UNCHANGED <<team, events, asks, left>>
  PROVE  RolesParts'
<1>1. req[s].on \in Users /\ req[s].ask \in RoleAsks \cup PlatformAsks \cup WorkspaceAsks
  BY DEF Underway
<1>2. RequestsTyped' /\ RequestsChecked'
  BY <1>1, WriteKeepsRequests DEF RolesParts
<1>3. SweepTyped' /\ SweepCurrent'
  BY <1>1, WriteKeepsSweep DEF RolesParts
<1> QED
  BY <1>2, <1>3 DEF RolesParts, TeamsTyped, LeftTyped

LEMMA GrantRoleKeeps ==
  ASSUME RolesParts, NEW s \in Sessions, GrantRole(s) PROVE RolesParts'
<1>1. req[s] \in Underway /\ req[s] # NoRequest /\ req[s].on \in Users /\ req[s].ask = "grant"
  BY WriterIs DEF GrantRole
<1>2. req[s].to \in PlatformRoles
  BY <1>1 DEF Underway, Grantable
<1>3. RolesTyped'
  BY <1>1, <1>2 DEF GrantRole, RolesParts, RolesTyped
<1>4. WritesAbout(s, req[s].on)
  BY <1>1 DEF GrantRole, WritesAbout, RolesParts, RolesTyped, RoleAsks, PlatformAsks,
              WorkspaceAsks
<1> QED
  BY <1>1, <1>3, <1>4, WriteKeeps DEF GrantRole

LEMMA RevokeRoleKeeps ==
  ASSUME RolesParts, NEW s \in Sessions, RevokeRole(s) PROVE RolesParts'
<1>1. req[s] \in Underway /\ req[s] # NoRequest /\ req[s].on \in Users /\ req[s].ask = "revoke"
  BY WriterIs DEF RevokeRole
<1>2. RolesTyped'
  BY <1>1 DEF RevokeRole, RolesParts, RolesTyped, PlatformRoles
<1>3. WritesAbout(s, req[s].on)
  BY <1>1 DEF RevokeRole, WritesAbout, RolesParts, RolesTyped, RoleAsks, PlatformAsks,
              WorkspaceAsks
<1> QED
  BY <1>1, <1>2, <1>3, WriteKeeps DEF RevokeRole

LEMMA SetAppRoleKeeps ==
  ASSUME RolesParts, NEW s \in Sessions, SetAppRole(s) PROVE RolesParts'
<1>1. req[s] \in Underway /\ req[s] # NoRequest /\ req[s].on \in Users /\ req[s].ask = "set"
  BY WriterIs DEF SetAppRole
<1>2. req[s].to \in AppRoles
  BY <1>1 DEF Underway, Grantable
<1>3. RolesTyped'
  BY <1>1, <1>2 DEF SetAppRole, RolesParts, RolesTyped
<1>4. WritesAbout(s, req[s].on)
  BY <1>1 DEF SetAppRole, WritesAbout, RolesParts, RolesTyped, RoleAsks, PlatformAsks,
              WorkspaceAsks
<1> QED
  BY <1>1, <1>3, <1>4, WriteKeeps DEF SetAppRole

LEMMA ResetAppRoleToGithubKeeps ==
  ASSUME RolesParts, NEW s \in Sessions, ResetAppRoleToGithub(s)
  PROVE  RolesParts'
<1>1. req[s] \in Underway /\ req[s] # NoRequest /\ req[s].on \in Users /\ req[s].ask = "reset"
  BY WriterIs DEF ResetAppRoleToGithub
<1>2. RolesTyped'
  BY <1>1 DEF ResetAppRoleToGithub, RolesParts, RolesTyped
<1>3. WritesAbout(s, req[s].on)
  BY <1>1 DEF ResetAppRoleToGithub, WritesAbout, RolesParts, RolesTyped, RoleAsks,
              PlatformAsks, WorkspaceAsks
<1> QED
  BY <1>1, <1>2, <1>3, WriteKeeps DEF ResetAppRoleToGithub

LEMMA SyncRoleForUserKeeps ==
  ASSUME RolesParts, NEW s \in Sessions, SyncRoleForUser(s) PROVE RolesParts'
<1>1. req[s] \in Underway /\ req[s] # NoRequest /\ req[s].on \in Users /\ req[s].ask = "sync"
  BY WriterIs DEF SyncRoleForUser
<1>2. req[s].to \in AppRoles
  BY <1>1 DEF Underway, AppRoles
<1>3. RolesTyped'
  BY <1>1, <1>2 DEF SyncRoleForUser, RolesParts, RolesTyped
<1>4. WritesAbout(s, req[s].on)
  BY <1>1 DEF SyncRoleForUser, WritesAbout, RolesParts, RolesTyped, RoleAsks, PlatformAsks,
              WorkspaceAsks
<1> QED
  BY <1>1, <1>3, <1>4, WriteKeeps DEF SyncRoleForUser

\* The writes to the members of the workspace.
MemberWrites(s) ==
  AddMember(s) \/ UpdateMemberRole(s) \/ RemoveMember(s) \/ CreatePersonalWorkspace(s)

LEMMA MemberWritesKeep ==
  ASSUME RolesParts, NEW s \in Sessions, MemberWrites(s) PROVE RolesParts'
<1>1. /\ req[s] \in Underway /\ req[s] # NoRequest /\ req[s].on \in Users
      /\ req[s].ask \in {"add", "update", "remove", "open"}
  BY WriterIs
     DEF MemberWrites, AddMember, UpdateMemberRole, RemoveMember, CreatePersonalWorkspace
<1>2. member' \in [Users -> WorkspaceRoles]
  <2>1. CASE AddMember(s) \/ UpdateMemberRole(s)
    <3>1. req[s].ask \in {"add", "update"}
      BY <2>1 DEF AddMember, UpdateMemberRole, Writing
    <3>2. req[s].to \in WorkspaceRoles
      BY <1>1, <3>1 DEF Underway, Grantable
    <3> QED
      BY <1>1, <2>1, <3>2 DEF AddMember, UpdateMemberRole, RolesParts, RolesTyped
  <2>2. CASE RemoveMember(s)
    BY <1>1, <2>2 DEF RemoveMember, RolesParts, RolesTyped, WorkspaceRoles
  <2>3. CASE CreatePersonalWorkspace(s)
    BY <1>1, <2>3, RolesAssumption DEF CreatePersonalWorkspace, RolesParts, RolesTyped, WorkspaceRoles
  <2> QED
    BY <2>1, <2>2, <2>3 DEF MemberWrites
<1>3. Written(s, req[s].on) /\ UNCHANGED <<role, source, platform, team, events, asks, left>>
  BY DEF MemberWrites, AddMember, UpdateMemberRole, RemoveMember, CreatePersonalWorkspace
<1>4. RolesTyped'
  BY <1>2, <1>3 DEF RolesParts, RolesTyped
<1>5. WritesAbout(s, req[s].on)
  BY <1>1, <1>3 DEF WritesAbout, RoleAsks, PlatformAsks
<1> QED
  BY <1>1, <1>3, <1>4, <1>5, WriteKeeps

-----------------------------------------------------------------------------
(* The sweep, and GitHub.                                                  *)

\* Steps that leave requests and roles alone.
LEMMA OnlySweepMoves ==
  ASSUME RolesParts, UNCHANGED <<data, asks, req>>, left' = left \/ Fault
  PROVE  RolesTyped' /\ TeamsTyped' /\ LeftTyped' /\ RequestsTyped' /\ RequestsChecked'
  BY DEF RolesParts, data, Fault, RolesTyped, TeamsTyped, LeftTyped, RequestsTyped,
         RequestsChecked, Checked, Synced

LEMMA ReadRostersKeep ==
  ASSUME RolesParts, ReadRosters \/ ReadPartOfRosters PROVE RolesParts'
<1>1. Leads \subseteq Users
  BY DEF Leads
<1>2. CASE ReadRosters
  <2>1. SweepTyped' /\ SweepCurrent'
    BY <1>1, <1>2 DEF ReadRosters, NoSweep, SweepTyped, SweepCurrent, Leads, data
  <2> QED
    BY <1>2, <2>1, OnlySweepMoves DEF RolesParts, ReadRosters
<1>3. CASE ReadPartOfRosters
  <2>1. SweepTyped' /\ SweepCurrent'
    BY <1>1, <1>3 DEF ReadPartOfRosters, NoSweep, SweepTyped, SweepCurrent, data
  <2> QED
    BY <1>3, <2>1, OnlySweepMoves DEF RolesParts, ReadPartOfRosters
<1> QED
  BY <1>2, <1>3

LEMMA ListKeeps == ASSUME RolesParts, ListGithubTeamSyncedUsers PROVE RolesParts'
<1> DEFINE todo == {u \in Users : Synced(u) /\ RoleIn(sweep.leads, u) # role[u]}
<1>1. todo \in SUBSET Users /\ \A u \in todo : Synced(u)
  OBVIOUS
<1>2. sweep' = IF todo = {} THEN NoSweep ELSE [sweep EXCEPT !.at = "write", !.todo = todo]
  BY DEF ListGithubTeamSyncedUsers
<1>3. sweep.at = "list" /\ UNCHANGED <<data, asks, req, left>>
  BY DEF ListGithubTeamSyncedUsers
<1> HIDE DEF todo
<1>4. SweepTyped'
  BY <1>1, <1>2, <1>3 DEF RolesParts, NoSweep, SweepTyped
<1>5. SweepCurrent'
  BY <1>1, <1>2, <1>3 DEF RolesParts, NoSweep, SweepTyped, SweepCurrent, Synced, data
<1> QED
  BY <1>3, <1>4, <1>5, OnlySweepMoves DEF RolesParts

LEMMA SweepFailsKeeps == ASSUME RolesParts, SweepFails PROVE RolesParts'
<1>1. SweepTyped' /\ SweepCurrent'
  BY DEF SweepFails, NoSweep, SweepTyped, SweepCurrent
<1> QED
  BY <1>1, OnlySweepMoves DEF RolesParts, SweepFails

\* Requests that become stale.
LEMMA BecomeStale ==
  ASSUME RequestsTyped, NEW Hit \in SUBSET Sessions, \A t \in Hit : req[t] # NoRequest,
         req' = [t \in Sessions |-> [req[t] EXCEPT !.stale = @ \/ t \in Hit]]
  PROVE  /\ RequestsTyped'
         /\ \A t \in Sessions : ~req'[t].stale =>
              req'[t] = req[t] /\ ~req[t].stale /\ t \notin Hit
<1>1. ASSUME NEW t \in Sessions
      PROVE  /\ req'[t] \in Underway \cup {NoRequest}
             /\ ~req'[t].stale => req'[t] = req[t] /\ ~req[t].stale /\ t \notin Hit
  <2>1. CASE req[t] = NoRequest
    <3>1. t \notin Hit /\ req'[t] = [NoRequest EXCEPT !.stale = NoRequest.stale \/ t \in Hit]
      BY <2>1
    <3>2. NoRequest.stale = FALSE
      BY DEF NoRequest
    <3>3. req'[t] = [NoRequest EXCEPT !.stale = FALSE]
      BY <3>1, <3>2
    <3> QED
      BY <2>1, <3>1, <3>3 DEF NoRequest
  <2>2. CASE req[t] \in Underway
    <3> DEFINE b == req[t].stale \/ t \in Hit
    <3>1. req'[t] = [req[t] EXCEPT !.stale = b]
      BY <2>2
    <3>2. b \in BOOLEAN /\ req[t].stale \in BOOLEAN
      BY <2>2 DEF Underway
    <3>3. ~b => ~req[t].stale /\ t \notin Hit
      OBVIOUS
    <3> HIDE DEF b
    <3>4. req'[t] \in Underway
      BY <2>2, <3>1, <3>2 DEF Underway
    <3>5. req'[t].stale = b
      BY <2>2, <3>1 DEF Underway
    <3>6. ~b => req'[t] = req[t]
      BY <2>2, <3>1, <3>2, <3>3 DEF Underway
    <3> QED
      BY <2>2, <3>3, <3>4, <3>5, <3>6
  <2> QED
    BY <2>1, <2>2 DEF RequestsTyped
<1> QED
  BY <1>1 DEF RequestsTyped

LEMMA ReconcileUserKeeps == ASSUME RolesParts, ReconcileUser PROVE RolesParts'
<1>1. PICK u \in sweep.todo :
        /\ role' = [role EXCEPT ![u] = RoleIn(sweep.leads, u)]
        /\ source' = [source EXCEPT ![u] = "github_team"]
        /\ sweep' = IF sweep.todo = {u} THEN NoSweep ELSE [sweep EXCEPT !.todo = @ \ {u}]
        /\ req' = [t \in Sessions |->
                     [req[t] EXCEPT !.stale = @ \/ (req[t].ask \in RoleAsks
                                                    /\ u \in {req[t].on, req[t].by})]]
  BY DEF ReconcileUser
<1>2. u \in Users
  BY DEF RolesParts, SweepTyped
<1> DEFINE Hit == {t \in Sessions : req[t].ask \in RoleAsks /\ u \in {req[t].on, req[t].by}}
<1>3. RequestsTyped' /\ \A t \in Sessions : ~req'[t].stale =>
        req'[t] = req[t] /\ ~req[t].stale /\ t \notin Hit
  <2>1. \A t \in Hit : req[t] # NoRequest
    BY DEF RoleAsks, NoRequest
  <2>2. req' = [t \in Sessions |-> [req[t] EXCEPT !.stale = @ \/ t \in Hit]]
    BY <1>1
  <2>3. Hit \in SUBSET Sessions
    OBVIOUS
  <2> HIDE DEF Hit
  <2> QED
    BY <2>1, <2>2, <2>3, BecomeStale DEF RolesParts
<1>4. ASSUME NEW t \in Sessions, ~req'[t].stale PROVE Checked(req[t])'
  <2>1. req'[t] = req[t] /\ Checked(req[t])
        /\ ~(req[t].ask \in RoleAsks /\ u \in {req[t].on, req[t].by})
    BY <1>3, <1>4 DEF RolesParts, RequestsChecked
  <2>2. req[t] = NoRequest \/ (req[t] \in Underway /\ req[t].on \in Users /\ req[t].by \in Users)
    BY DEF RolesParts, RequestsTyped, Underway
  <2>3. UNCHANGED <<platform, team, member>>
    BY DEF ReconcileUser
  <2>4. CASE req[t].ask \in {"sync", "set"}
    <3>1. req[t].on # u /\ req[t].on \in Users
      BY <2>1, <2>2, <2>4 DEF RoleAsks, NoRequest
    <3>2. role'[req[t].on] = role[req[t].on] /\ source'[req[t].on] = source[req[t].on]
      BY <1>1, <3>1 DEF RolesParts, RolesTyped
    <3> QED
      BY <2>1, <2>3, <2>4, <3>2 DEF Checked, Synced, PlatformAsks
  <2>5. CASE req[t].ask \notin {"sync", "set"}
    BY <2>1, <2>3, <2>5 DEF Checked
  <2> QED
    BY <2>4, <2>5
<1>5. RolesTyped'
  BY <1>1, <1>2 DEF ReconcileUser, RolesParts, RolesTyped, RoleIn, AppRoles
<1>6. SweepTyped' /\ SweepCurrent'
  BY <1>1, <1>2 DEF ReconcileUser, RolesParts, RolesTyped, SweepTyped, SweepCurrent, NoSweep, Synced
<1> QED
  BY <1>3, <1>4, <1>5, <1>6 DEF ReconcileUser, RolesParts, RequestsChecked, TeamsTyped, LeftTyped

LEMMA ChangeTeamKeeps ==
  ASSUME RolesParts, NEW u \in Users, ChangeTeam(u) PROVE RolesParts'
<1> DEFINE Hit == {t \in Sessions : req[t].ask = "sync" /\ req[t].on = u}
<1>1. RequestsTyped' /\ \A t \in Sessions : ~req'[t].stale =>
        req'[t] = req[t] /\ ~req[t].stale /\ t \notin Hit
  <2>1. \A t \in Hit : req[t] # NoRequest
    BY DEF NoRequest
  <2>2. req' = [t \in Sessions |-> [req[t] EXCEPT !.stale = @ \/ t \in Hit]]
    BY DEF ChangeTeam
  <2>3. Hit \in SUBSET Sessions
    OBVIOUS
  <2> HIDE DEF Hit
  <2> QED
    BY <2>1, <2>2, <2>3, BecomeStale DEF RolesParts
<1>2. /\ UNCHANGED <<role, source, platform, member>> /\ \A v \in Users \ {u} : team'[v] = team[v]
      /\ team' \in [Users -> RoleTeams]
  BY DEF ChangeTeam, RolesParts, TeamsTyped
<1>3. ASSUME NEW t \in Sessions, ~req'[t].stale PROVE Checked(req[t])'
  <2>1. req'[t] = req[t] /\ Checked(req[t]) /\ ~(req[t].ask = "sync" /\ req[t].on = u)
    BY <1>1, <1>3 DEF RolesParts, RequestsChecked
  <2>2. req[t].on \in Users
    BY RequestShape DEF RolesParts, RequestsTyped
  <2> QED
    BY <1>2, <2>1, <2>2 DEF Checked, Synced
<1>4. SweepTyped' /\ SweepCurrent'
  BY <1>2 DEF ChangeTeam, RolesParts, SweepTyped, SweepCurrent, Synced
<1>5. LeftTyped' /\ TeamsTyped'
  BY <1>2 DEF ChangeTeam, RolesParts, LeftTyped, TeamsTyped
<1> QED
  BY <1>1, <1>2, <1>3, <1>4, <1>5 DEF RolesParts, RequestsChecked, RolesTyped

LEMMA EventLostKeeps == ASSUME RolesParts, EventLost PROVE RolesParts'
  BY DEF EventLost, Fault, RolesParts, RolesTyped, TeamsTyped, SweepTyped, LeftTyped, RequestsTyped,
         RequestsChecked, SweepCurrent, Checked, Synced

LEMMA RolesPartsNext == ASSUME RolesParts, [RolesNext]_rolesVars PROVE RolesParts'
<1>1. ASSUME NEW s \in Sessions, RequestStep(s) PROVE RolesParts'
  BY <1>1, BeginKeeps, SyncAtLoginKeeps, HandleMembershipEventKeeps, CheckRevokeKeeps,
     CountSuperAdminsKeeps, CheckTierKeeps, CheckMemberKeeps, CountOwnersKeeps, AskLeadTeamKeeps,
     LeadTeamUnreadKeeps, AskDeveloperTeamKeeps, GrantRoleKeeps, RevokeRoleKeeps, SetAppRoleKeeps,
     ResetAppRoleToGithubKeeps, SyncRoleForUserKeeps, MemberWritesKeep, RequestFailsKeeps
     DEF RequestStep, MemberWrites
<1>2. CASE UNCHANGED rolesVars
  BY <1>2 DEF rolesVars, RolesParts, RolesTyped, TeamsTyped, SweepTyped, LeftTyped, RequestsTyped,
              RequestsChecked, SweepCurrent, Checked, Synced
<1> QED
  BY <1>1, <1>2, ReadRostersKeep, ListKeeps, ReconcileUserKeeps, SweepFailsKeeps, ChangeTeamKeeps,
     EventLostKeeps
     DEF RolesNext, SweepStep

LEMMA RolesInvariant == RolesSpec => []RolesParts
<1>1. RolesInit => RolesParts
  BY RolesPartsInit
<1>2. RolesParts /\ [RolesNext]_rolesVars => RolesParts'
  BY RolesPartsNext
<1> QED
  BY <1>1, <1>2, PTL DEF RolesSpec

-----------------------------------------------------------------------------
(* What steps may do.                                                      *)

\* Which steps change the columns of a role, and what then is so of the request.
LEMMA RoleWriters ==
  ASSUME RolesParts, [RolesNext]_rolesVars, NEW u \in Users,
         role'[u] # role[u] \/ source'[u] # source[u]
  PROVE  \/ \E s \in Sessions :
              /\ Finishes(s) /\ req[s].on = u /\ (~req[s].stale => Checked(req[s]))
              /\ \/ req[s].ask = "set" /\ role'[u] = req[s].to
                 \/ req[s].ask = "reset" /\ role'[u] = role[u]
                 \/ req[s].ask = "sync" /\ role'[u] = req[s].to /\ req[s].to \in {"lead", "member"}
         \/ /\ sweep.at = "write" /\ u \in sweep.todo
            /\ role'[u] = RoleIn(sweep.leads, u)
<1>1. ASSUME NEW s \in Sessions, Writing(s, req[s].ask), Written(s, req[s].on) PROVE Finishes(s)
  BY <1>1 DEF Writing, Written, Finishes, ReqAt, NoRequest, RolesParts, RequestsTyped
<1>2. ASSUME NEW s \in Sessions, SetAppRole(s) \/ ResetAppRoleToGithub(s) \/ SyncRoleForUser(s)
      PROVE  /\ Finishes(s) /\ req[s].on = u /\ (~req[s].stale => Checked(req[s]))
             /\ \/ req[s].ask = "set" /\ role'[u] = req[s].to
                \/ req[s].ask = "reset" /\ role'[u] = role[u]
                \/ req[s].ask = "sync" /\ role'[u] = req[s].to /\ req[s].to \in {"lead", "member"}
  <2>1. Finishes(s)
    BY <1>1, <1>2 DEF SetAppRole, ResetAppRoleToGithub, SyncRoleForUser, Writing
  <2>2. ~req[s].stale => Checked(req[s])
    BY DEF RolesParts, RequestsChecked
  <2>3. req[s] \in Underway /\ req[s].on \in Users
    BY <1>2, WriterIs DEF SetAppRole, ResetAppRoleToGithub, SyncRoleForUser
  <2>4. req[s].ask = "sync" => req[s].to \in {"lead", "member"}
    BY <2>3 DEF Underway
  <2>5. CASE SetAppRole(s)
    BY <2>1, <2>2, <2>3, <2>5 DEF SetAppRole, Writing, RolesParts, RolesTyped
  <2>6. CASE ResetAppRoleToGithub(s)
    BY <2>1, <2>2, <2>3, <2>6 DEF ResetAppRoleToGithub, Writing, RolesParts, RolesTyped
  <2>7. CASE SyncRoleForUser(s)
    BY <2>1, <2>2, <2>3, <2>4, <2>7 DEF SyncRoleForUser, Writing, RolesParts, RolesTyped
  <2> QED
    BY <1>2, <2>5, <2>6, <2>7
<1>3. CASE ReconcileUser
  BY <1>3 DEF ReconcileUser, RolesParts, RolesTyped, SweepTyped
<1>4. ASSUME NEW s \in Sessions, RequestStep(s),
             ~(SetAppRole(s) \/ ResetAppRoleToGithub(s) \/ SyncRoleForUser(s))
      PROVE  UNCHANGED <<role, source>>
  BY <1>4
     DEF RequestStep, Begin, SyncAtLogin, HandleMembershipEvent, CheckRevoke,
         CountSuperAdmins, CheckTier, CheckMember, CountOwners, AskLeadTeam, LeadTeamUnread,
         AskDeveloperTeam, GrantRole, RevokeRole, AddMember, UpdateMemberRole, RemoveMember,
         CreatePersonalWorkspace, RequestFails, data
<1>5. ASSUME ReadRosters \/ ListGithubTeamSyncedUsers \/ ReadPartOfRosters \/ SweepFails
             \/ (\E v \in Users : ChangeTeam(v)) \/ EventLost \/ UNCHANGED rolesVars
      PROVE  UNCHANGED <<role, source>>
  BY <1>5
     DEF ReadRosters, ListGithubTeamSyncedUsers, ReadPartOfRosters, SweepFails, ChangeTeam,
         EventLost, rolesVars, data
<1> QED
  BY <1>2, <1>3, <1>4, <1>5 DEF RolesNext, SweepStep

LEMMA PinnedStep ==
  ASSUME RolesParts, [RolesNext]_rolesVars, NEW u \in Users,
         source[u] = "manual", role'[u] # role[u] \/ source'[u] # source[u]
  PROVE  \/ \E s \in Sessions :
              Finishes(s) /\ req[s].on = u /\ (req[s].ask # "sync" \/ req[s].stale)
         \/ u \in sweep.stale
<1>1. ASSUME NEW s \in Sessions, req[s].ask = "sync", req[s].on = u, ~req[s].stale => Checked(req[s])
      PROVE  req[s].stale
  BY <1>1 DEF Checked, Synced
<1>2. ASSUME sweep.at = "write", u \in sweep.todo PROVE u \in sweep.stale
  BY <1>2 DEF RolesParts, SweepCurrent, Synced
<1> QED
  BY <1>1, <1>2, RoleWriters

LEMMA AdminTierStep ==
  ASSUME RolesParts, [RolesNext]_rolesVars, NEW u \in Users,
         (role[u] = "admin") # (role'[u] = "admin")
  PROVE  \/ \E s \in Sessions :
              /\ Finishes(s) /\ req[s].on = u
              /\ req[s].stale \/ (req[s].ask = "set" /\ platform[req[s].by] = "super_admin")
         \/ u \in sweep.stale
<1>1. role'[u] # role[u]
  OBVIOUS
<1>2. ASSUME NEW s \in Sessions, req[s].on = u, ~req[s].stale => Checked(req[s]), Finishes(s),
             \/ req[s].ask = "set" /\ role'[u] = req[s].to
             \/ req[s].ask = "reset" /\ role'[u] = role[u]
             \/ req[s].ask = "sync" /\ role'[u] = req[s].to /\ req[s].to \in {"lead", "member"}
      PROVE  req[s].stale \/ (req[s].ask = "set" /\ platform[req[s].by] = "super_admin")
  BY <1>1, <1>2 DEF Checked, Synced, Finishes, ReqAt
<1>3. ASSUME sweep.at = "write", u \in sweep.todo, role'[u] = RoleIn(sweep.leads, u)
      PROVE  u \in sweep.stale
  BY <1>3 DEF RolesParts, SweepCurrent, Synced, RoleIn
<1> QED
  BY <1>1, <1>2, <1>3, RoleWriters

LEMMA LeadsStep ==
  ASSUME RolesParts, [RolesNext]_rolesVars, NEW u \in Users,
         role[u] = "lead", role'[u] = "member", u \in Leads
  PROVE  \/ \E s \in Sessions :
              /\ Finishes(s) /\ req[s].on = u
              /\ req[s].ask = "set" \/ req[s].stale \/ (req[s].unread /\ team[u] = "both")
         \/ sweep.partial \/ u \in sweep.stale
<1>1. role'[u] # role[u]
  OBVIOUS
<1>2. ASSUME NEW s \in Sessions, req[s].on = u, ~req[s].stale => Checked(req[s]), Finishes(s),
             \/ req[s].ask = "set" /\ role'[u] = req[s].to
             \/ req[s].ask = "reset" /\ role'[u] = role[u]
             \/ req[s].ask = "sync" /\ role'[u] = req[s].to /\ req[s].to \in {"lead", "member"}
      PROVE  req[s].ask = "set" \/ req[s].stale \/ (req[s].unread /\ team[u] = "both")
  BY <1>1, <1>2 DEF Checked, Synced, Finishes, ReqAt, Leads, TeamDevelopers
<1>3. ASSUME sweep.at = "write", u \in sweep.todo, role'[u] = RoleIn(sweep.leads, u), ~sweep.partial
      PROVE  u \in sweep.stale
  BY <1>3 DEF RolesParts, SweepCurrent, RoleIn, Leads
<1> QED
  BY <1>1, <1>2, <1>3, RoleWriters

\* The last super-admin, and the last owner, go by a request that was overtaken.
LEMMA LastStep ==
  ASSUME RolesParts, [RolesNext]_rolesVars
  PROVE  /\ Supers # {} /\ Supers' = {} => \E s \in Sessions : Finishes(s) /\ req[s].stale
         /\ Owners # {} /\ Owners' = {} =>
              \E s \in Sessions : Finishes(s) /\ (req[s].stale \/ req[s].ask = "add")
<1>0. ASSUME NEW s \in Sessions, Writing(s, req[s].ask), Written(s, req[s].on) PROVE Finishes(s)
  BY <1>0 DEF Writing, Written, Finishes, ReqAt, NoRequest, RolesParts, RequestsTyped
<1>1. ASSUME NEW s \in Sessions, GrantRole(s) \/ RevokeRole(s)
      PROVE  Finishes(s) /\ (~req[s].stale => Supers' # {}) /\ Owners' = Owners
  <2>1. Finishes(s)
    BY <1>0, <1>1 DEF GrantRole, RevokeRole, Writing
  <2>2. req[s] \in Underway /\ req[s].ask \in PlatformAsks
    BY <1>1, WriterIs DEF GrantRole, RevokeRole, PlatformAsks
  <2>3. ~req[s].stale =>
          platform[req[s].by] = "super_admin" /\ req[s].by # req[s].on /\ req[s].by \in Users
    BY <2>2 DEF RolesParts, RequestsChecked, Checked, Underway
  <2>4. ~req[s].stale => platform'[req[s].by] = "super_admin"
    BY <1>1, <2>3 DEF GrantRole, RevokeRole, RolesParts, RolesTyped
  <2> QED
    BY <1>1, <2>1, <2>3, <2>4 DEF GrantRole, RevokeRole, Supers, Owners
<1>2. ASSUME NEW s \in Sessions, MemberWrites(s)
      PROVE  /\ Finishes(s) /\ Supers' = Supers
             /\ ~req[s].stale /\ req[s].ask # "add" => Owners = {} \/ Owners' # {}
  <2>1. Finishes(s) /\ Supers' = Supers
    BY <1>0, <1>2
       DEF MemberWrites, AddMember, UpdateMemberRole, RemoveMember, CreatePersonalWorkspace,
           Writing, Supers
  <2>2. req[s].on \in Users
    BY <1>2, WriterIs
       DEF MemberWrites, AddMember, UpdateMemberRole, RemoveMember, CreatePersonalWorkspace
  <2>3. ~req[s].stale => Checked(req[s])
    BY DEF RolesParts, RequestsChecked
  <2>4. CASE UpdateMemberRole(s) \/ RemoveMember(s)
    BY <2>1, <2>2, <2>3, <2>4
       DEF UpdateMemberRole, RemoveMember, Writing, ReqAt, Checked, Owners, RolesParts, RolesTyped
  <2>5. CASE CreatePersonalWorkspace(s)
    BY <2>1, <2>5 DEF CreatePersonalWorkspace, Owners, RolesParts, RolesTyped
  <2>6. CASE AddMember(s)
    BY <2>1, <2>6 DEF AddMember, Writing
  <2> QED
    BY <1>2, <2>4, <2>5, <2>6 DEF MemberWrites
<1>3. ASSUME NEW s \in Sessions, RequestStep(s), ~(GrantRole(s) \/ RevokeRole(s) \/ MemberWrites(s))
      PROVE  UNCHANGED <<platform, member>>
  BY <1>3
     DEF RequestStep, Begin, SyncAtLogin, HandleMembershipEvent, CheckRevoke,
         CountSuperAdmins, CheckTier, CheckMember, CountOwners, AskLeadTeam, LeadTeamUnread,
         AskDeveloperTeam, SetAppRole, ResetAppRoleToGithub, SyncRoleForUser, MemberWrites,
         RequestFails, data
<1>4. ASSUME SweepStep \/ ReadPartOfRosters \/ SweepFails
             \/ (\E v \in Users : ChangeTeam(v)) \/ EventLost \/ UNCHANGED rolesVars
      PROVE  UNCHANGED <<platform, member>>
  BY <1>4
     DEF SweepStep, ReadRosters, ListGithubTeamSyncedUsers, ReconcileUser, ReadPartOfRosters,
         SweepFails, ChangeTeam, EventLost, rolesVars, data
<1>5. UNCHANGED <<platform, member>> => Supers' = Supers /\ Owners' = Owners
  BY DEF Supers, Owners
<1> QED
  BY <1>1, <1>2, <1>3, <1>4, <1>5 DEF RolesNext

(* Every change of a role has somebody who may make it: a pinned role changes by the     *)
(* console, the tier of admins by a super-admin, and nobody in the lead team loses the   *)
(* lead to a synchronisation, but for requests that were overtaken, rosters that were    *)
(* not read whole and a lead team that was not read of a user who is in both.  For any   *)
(* users, requests, changes and faults.  (AdminService, GithubTeamRoleService.)          *)
THEOREM RolesChangeRightfully == RolesSpec => ChangesAreRightful
<1> DEFINE Pinned ==
      \A u \in Users :
        source[u] = "manual" /\ (role'[u] # role[u] \/ source'[u] # source[u]) =>
          \/ \E s \in Sessions :
               Finishes(s) /\ req[s].on = u /\ (req[s].ask # "sync" \/ req[s].stale)
          \/ u \in sweep.stale
    Tier ==
      \A u \in Users :
        (role[u] = "admin") # (role'[u] = "admin") =>
          \/ \E s \in Sessions :
               /\ Finishes(s) /\ req[s].on = u
               /\ req[s].stale \/ (req[s].ask = "set" /\ platform[req[s].by] = "super_admin")
          \/ u \in sweep.stale
    Lead ==
      \A u \in Users :
        role[u] = "lead" /\ role'[u] = "member" /\ u \in Leads =>
          \/ \E s \in Sessions :
               /\ Finishes(s) /\ req[s].on = u
               /\ req[s].ask = "set" \/ req[s].stale \/ (req[s].unread /\ team[u] = "both")
          \/ sweep.partial \/ u \in sweep.stale
<1>1. RolesParts => RolesTypeOK
  BY RolesTypedParts DEF RolesParts
<1>2. RolesParts /\ [RolesNext]_rolesVars => Pinned
  BY PinnedStep
<1>3. RolesParts /\ [RolesNext]_rolesVars => Tier
  BY AdminTierStep
<1>4. RolesParts /\ [RolesNext]_rolesVars => Lead
  BY LeadsStep
<1>5. RolesSpec => []RolesTypeOK
  BY <1>1, RolesInvariant, PTL
<1>6. RolesSpec => [][Pinned]_rolesVars /\ [][Tier]_rolesVars /\ [][Lead]_rolesVars
  <2> HIDE DEF Pinned, Tier, Lead
  <2> QED
    BY <1>2, <1>3, <1>4, RolesInvariant, PTL DEF RolesSpec
<1> QED
  BY <1>5, <1>6 DEF ChangesAreRightful, PinnedStays, AdminTierBySuper, LeadsKeepTheLead

(* The last super-admin and the last owner of a workspace go only by a request *)
(* that was overtaken after its check, or, the owner, by being added again.    *)
(* (revokeRole, assertCanRemoveMember.)                                        *)
THEOREM LastOneAlwaysStays == RolesSpec => LastOneStays
<1> DEFINE Rule ==
      /\ Supers # {} /\ Supers' = {} => \E s \in Sessions : Finishes(s) /\ req[s].stale
      /\ Owners # {} /\ Owners' = {} =>
           \E s \in Sessions : Finishes(s) /\ (req[s].stale \/ req[s].ask = "add")
<1>1. RolesParts /\ [RolesNext]_rolesVars => Rule
  BY LastStep
<1>2. RolesSpec => [][Rule]_rolesVars
  <2> HIDE DEF Rule
  <2> QED
    BY <1>1, RolesInvariant, PTL DEF RolesSpec
<1> QED
  BY <1>2 DEF LastOneStays

====
