---- MODULE AccessPromise ----
(***************************************************************************)
(* What repository-access synchronisation promises a group's lead, with no *)
(* word about outbox rows, polls or retries.  For each assignment of a     *)
(* developer to a repository there is what the lead asked for, what the    *)
(* console claims, and whether GitHub lets the developer in through the    *)
(* repository's own team.                                                  *)
(*                                                                         *)
(* The promise is the comment in processRevoke: "A revoke is only verified *)
(* once GitHub confirms no effective access remains - never claim revoked  *)
(* before verified", and its mirror for grants.                            *)
(***************************************************************************)

CONSTANT Assignments

VARIABLES
  wanted, \* [Assignments -> {"none", "assigned", "unassigned"}]
  claim,  \* [Assignments -> what the console shows as the effective state]
  access  \* [Assignments -> Standings], membership of the repository's team

promiseVars == <<wanted, claim, access>>

Desired == {"none", "assigned", "unassigned"}
Effective == {"none", "pending", "active", "revoking", "revoked", "failed"}
Standings == {"out", "invited", "in"}

PromiseTypeOK ==
  /\ wanted \in [Assignments -> Desired]
  /\ claim \in [Assignments -> Effective]
  /\ access \in [Assignments -> Standings]

PromiseInit ==
  /\ wanted = [a \in Assignments |-> "none"]
  /\ claim = [a \in Assignments |-> "none"]
  /\ access = [a \in Assignments |-> "out"]

\* Two standing claims about an assignment, each final until a lead asks again.
ClaimsGone(a) == wanted[a] = "unassigned" /\ claim[a] = "revoked"
ClaimsLive(a) == wanted[a] = "assigned" /\ claim[a] = "active"

Ask(a) ==
  /\ wanted' = [wanted EXCEPT ![a] = "assigned"]
  /\ claim' = [claim EXCEPT ![a] = "pending"]
  /\ UNCHANGED access

Withdraw(a) ==
  /\ wanted[a] # "none"
  /\ wanted' = [wanted EXCEPT ![a] = "unassigned"]
  /\ claim' = [claim EXCEPT ![a] = "revoking"]
  /\ UNCHANGED access

\* Access is never given behind a claim that it is gone ...
Admit(a) ==
  /\ ~ClaimsGone(a)
  /\ \/ access' = [access EXCEPT ![a] = "in"]
     \/ access[a] # "in" /\ access' = [access EXCEPT ![a] = "invited"]
  /\ UNCHANGED <<wanted, claim>>

\* ... nor taken away behind a claim that it is live.
Expel(a) ==
  /\ ~ClaimsLive(a)
  /\ access' = [access EXCEPT ![a] = "out"]
  /\ UNCHANGED <<wanted, claim>>

\* The developer answers an invitation whenever they like.
Answer(a) ==
  /\ access[a] = "invited"
  /\ \E s \in {"in", "out"} : access' = [access EXCEPT ![a] = s]
  /\ UNCHANGED <<wanted, claim>>

ClaimActive(a) ==
  /\ access[a] = "in"
  /\ claim' = [claim EXCEPT ![a] = "active"]
  /\ UNCHANGED <<wanted, access>>

ClaimRevoked(a) ==
  /\ access[a] = "out"
  /\ claim' = [claim EXCEPT ![a] = "revoked"]
  /\ UNCHANGED <<wanted, access>>

ClaimFailed(a) ==
  /\ claim' = [claim EXCEPT ![a] = "failed"]
  /\ UNCHANGED <<wanted, access>>

PromiseNext ==
  \E a \in Assignments :
    \/ Ask(a) \/ Withdraw(a)
    \/ Admit(a) \/ Expel(a) \/ Answer(a)
    \/ ClaimActive(a) \/ ClaimRevoked(a) \/ ClaimFailed(a)

PromiseSpec == PromiseInit /\ [][PromiseNext]_promiseVars

\* A claim that access is gone is true, and so is a claim that it is live.
PromiseKept ==
  \A a \in Assignments :
    /\ ClaimsGone(a) => access[a] = "out"
    /\ ClaimsLive(a) => access[a] = "in"
====
