---- MODULE Installations ----
(***************************************************************************)
(* One installation of the GitHub App as the database knows it: the        *)
(* account rows of the users who linked it, the rows of the repositories   *)
(* it covers, and the webhook deliveries that tell of its changes.         *)
(*                                                                         *)
(* A delivery is claimed by an insert, handled by one or two statements    *)
(* and marked; an error releases the claim, so that a redelivery is        *)
(* handled.  A user's link asks GitHub first and swallows every error.     *)
(* Neither runs in a transaction, and two of them run at a time.           *)
(***************************************************************************)
EXTENDS Naturals, Sequences, FiniteSets

CONSTANTS
  Users,     \* who may link the installation
  Repos,
  Handlers,  \* deliveries and links that are handled at a time
  MaxChanges, \* bound: changes at GitHub
  Budgets    \* bounds: changes at GitHub, links, redeliveries and faults of a behaviour

ASSUME InstallationsAssumption ==
  /\ MaxChanges \in Nat
  /\ Budgets \subseteq [changes : 0..MaxChanges, links : Nat, redeliveries : Nat, faults : Nat]

VARIABLES
  github,    \* GitHub: the installation and its repositories
  news,      \* GitHub: the events it announced; the place is the delivery's id
  wire,      \* deliveries that are sent and have not arrived
  table,     \* github_app.webhook_deliveries, per id
  account,   \* github_app.github_installation_accounts, per user
  listed,    \* github_app.github_installations: repositories, per user
  run,       \* per handler: its delivery or link between two awaits
  left,      \* what the bounds leave
  \* What happened before, for the properties to tell a mishap from the rule:
  applied,   \* how often a delivery took effect
  acked,     \* deliveries that were answered as accepted
  mishap,    \* see Mishaps
  broken     \* <<how, id>> of deliveries that were not handled straight

vars == <<github, news, wire, table, account, listed, run, left, applied, acked, mishap, broken>>

Ids == 1..MaxChanges
NoAccount == [linked |-> FALSE, known |-> FALSE, suspended |-> FALSE]
Idle == [at |-> "idle", id |-> 0, user |-> {}, known |-> FALSE, found |-> {}, stale |-> FALSE]
Mishaps ==
  {"ghost",     \* a link wrote its row when the installation was gone
   "late row",  \* a link wrote its row when the installation was suspended
   "blind",     \* a link did not get to know the repositories
   "disorder",  \* an event took effect after a later one
   "crossed",   \* repositories were replaced by a list read before another change
   "cut"}       \* a list was replaced by half

TypeOK ==
  /\ github \in [there : BOOLEAN, suspended : BOOLEAN, repos : SUBSET Repos]
  /\ news \in Seq({"suspend", "unsuspend", "deleted", "repositories"}) /\ Len(news) <= MaxChanges
  /\ wire \subseteq Ids /\ acked \subseteq Ids
  /\ table \in [Ids -> {"none", "processing", "processed"}]
  /\ account \in [Users -> [linked : BOOLEAN, known : BOOLEAN, suspended : BOOLEAN]]
  /\ \A u \in Users : ~account[u].linked => account[u] = NoAccount
  /\ listed \in [Users -> SUBSET Repos]
  /\ run \in [Handlers -> [at : {"idle", "apply", "fetch", "inspect", "upsert", "delete",
                                 "insert", "complete", "release"},
                           id : {0} \cup Ids, user : SUBSET Users, known : BOOLEAN,
                           found : SUBSET Repos, stale : BOOLEAN]]
  /\ applied \in [Ids -> Nat]
  /\ mishap \subseteq Mishaps
  /\ broken \subseteq {"crashed", "failed late", "acked early", "claim unanswered"} \X Ids

Init ==
  /\ github = [there |-> TRUE, suspended |-> FALSE, repos |-> Repos]
  /\ news = <<>> /\ wire = {}
  /\ table = [n \in Ids |-> "none"]
  /\ account = [u \in Users |-> NoAccount]
  /\ listed = [u \in Users |-> {}]
  /\ run = [h \in Handlers |-> Idle]
  /\ left \in Budgets
  /\ applied = [n \in Ids |-> 0] /\ acked = {} /\ mishap = {} /\ broken = {}

At(h, step) == run[h].at = step
Go(h, step) == run' = [run EXCEPT ![h].at = step]
End(h) == run' = [run EXCEPT ![h] = Idle]
HasRead(h) == run[h].at \in {"upsert", "delete", "insert"}
IsLink(h) == run[h].user # {}
Spend(what) == left[what] > 0 /\ left' = [left EXCEPT ![what] = @ - 1]
Note(cond, what) == mishap' = IF cond THEN mishap \cup {what} ELSE mishap
Handling(n) == \E h \in Handlers : run[h].id = n

----------------------------------------------------------------------------
\* GitHub

Announce(event) ==
  /\ Spend("changes")
  /\ news' = Append(news, event) /\ wire' = wire \cup {Len(news) + 1}

\* What is under way here has asked before.
Overtake ==
  run' = [h \in Handlers |-> [run[h] EXCEPT !.stale = @ \/ HasRead(h)]]

ChangeRepos ==
  /\ github.there /\ ~github.suspended
  /\ \E rs \in SUBSET Repos \ {github.repos} : github' = [github EXCEPT !.repos = rs]
  /\ Announce("repositories") /\ Overtake
  /\ UNCHANGED <<table, account, listed, applied, acked, mishap, broken>>

Suspend ==
  /\ github.there
  /\ github' = [github EXCEPT !.suspended = ~@]
  /\ Announce(IF github.suspended THEN "unsuspend" ELSE "suspend") /\ Overtake
  /\ UNCHANGED <<table, account, listed, applied, acked, mishap, broken>>

Uninstall ==
  /\ github.there
  /\ github' = [there |-> FALSE, suspended |-> FALSE, repos |-> {}]
  /\ Announce("deleted") /\ Overtake
  /\ UNCHANGED <<table, account, listed, applied, acked, mishap, broken>>

\* Somebody sends a delivery again, under its id.
Redeliver ==
  /\ Spend("redeliveries")
  /\ \E n \in 1..Len(news) : n \notin wire /\ wire' = wire \cup {n}
  /\ UNCHANGED <<github, news, table, account, listed, run, applied, acked, mishap, broken>>

NotDelivered ==
  /\ Spend("faults")
  /\ \E n \in wire : wire' = wire \ {n}
  /\ UNCHANGED <<github, news, table, account, listed, run, applied, acked, mishap, broken>>

----------------------------------------------------------------------------
\* Deliveries

\* INSERT ... ON CONFLICT DO NOTHING: a delivery that has a row is a duplicate, which is
\* accepted, whatever became of the first.
BeginWebhookDelivery(h) ==
  /\ At(h, "idle")
  /\ \E n \in wire :
       /\ wire' = wire \ {n}
       /\ IF table[n] = "none"
          THEN /\ table' = [table EXCEPT ![n] = "processing"]
               /\ run' = [run EXCEPT ![h] = [Idle EXCEPT
                            !.at = IF news[n] = "repositories" THEN "fetch" ELSE "apply",
                            !.id = n]]
               /\ UNCHANGED <<acked, broken>>
          ELSE /\ acked' = acked \cup {n}
               /\ broken' = IF Handling(n) THEN broken \cup {<<"acked early", n>>} ELSE broken
               /\ UNCHANGED <<table, run>>
  /\ UNCHANGED <<github, news, account, listed, left, applied, mishap>>

\* The claim is inserted and its answer is lost.  A connection that broke has the insert
\* repeated, which conflicts with its own row: the delivery is accepted as a duplicate.
\* A timeout is an error, and the claim is not released.
ClaimUnanswered ==
  /\ Spend("faults")
  /\ \E n \in wire, repeated \in BOOLEAN :
       /\ table[n] = "none"
       /\ wire' = wire \ {n}
       /\ table' = [table EXCEPT ![n] = "processing"]
       /\ acked' = IF repeated THEN acked \cup {n} ELSE acked
       /\ broken' = broken \cup {<<"claim unanswered", n>>}
  /\ UNCHANGED <<github, news, account, listed, run, applied, mishap>>

Apply(h) == applied' = [applied EXCEPT ![run[h].id] = @ + 1]
Later(h) == {n \in Ids : n > run[h].id /\ applied[n] > 0}

\* Mutant: a deletion is handled like a suspension.
SuspendOnDeletion(h) ==
  /\ At(h, "apply")
  /\ account' = [u \in Users |->
                   IF account[u].linked
                   THEN [account[u] EXCEPT !.suspended = news[run[h].id] # "unsuspend"]
                   ELSE NoAccount]
  /\ Apply(h) /\ Note(Later(h) # {}, "disorder")
  /\ Go(h, "complete")
  /\ UNCHANGED <<github, news, wire, table, listed, left, acked, broken>>

\* deleteInstallation, setSuspended: the account rows of every user.  The rows of the
\* repositories stay as they are.
ProcessInstallationEvent(h) ==
  /\ At(h, "apply")
  /\ LET event == news[run[h].id] IN
       account' = [u \in Users |->
                     IF event = "deleted" \/ ~account[u].linked THEN NoAccount
                     ELSE [account[u] EXCEPT !.suspended = event = "suspend"]]
  /\ Apply(h) /\ Note(Later(h) # {}, "disorder")
  /\ Go(h, "complete")
  /\ UNCHANGED <<github, news, wire, table, listed, left, acked, broken>>

\* No token for an installation that is gone or suspended: the delivery fails.
FetchInstallationRepositories(h) ==
  /\ At(h, "fetch")
  /\ IF github.there /\ ~github.suspended
     THEN run' = [run EXCEPT ![h].at = "delete", ![h].found = github.repos, ![h].stale = FALSE]
     ELSE Go(h, "release")
  /\ UNCHANGED <<github, news, wire, table, account, listed, left, applied, acked, mishap, broken>>

Complete(h) ==
  /\ At(h, "complete")
  /\ table' = [table EXCEPT ![run[h].id] = "processed"]
  /\ acked' = acked \cup {run[h].id}
  /\ End(h)
  /\ UNCHANGED <<github, news, wire, account, listed, left, applied, mishap, broken>>

\* The row is marked and the answer is lost: there is no claim left to release, and the
\* delivery fails.
CompleteUnanswered(h) ==
  /\ At(h, "complete") /\ Spend("faults")
  /\ table' = [table EXCEPT ![run[h].id] = "processed"]
  /\ End(h)
  /\ UNCHANGED <<github, news, wire, account, listed, applied, acked, mishap, broken>>

\* Mutant: the claim of a delivery that failed stays.
AnswerOnly(h) ==
  /\ At(h, "release")
  /\ End(h)
  /\ UNCHANGED <<github, news, wire, table, account, listed, left, applied, acked, mishap, broken>>

ReleaseWebhookDelivery(h) ==
  /\ At(h, "release")
  /\ table' = [table EXCEPT ![run[h].id] = IF @ = "processing" THEN "none" ELSE @]
  /\ End(h)
  /\ UNCHANGED <<github, news, wire, account, listed, left, applied, acked, mishap, broken>>

----------------------------------------------------------------------------
\* Links

BeginLink(h) ==
  /\ At(h, "idle") /\ Spend("links")
  /\ \E u \in Users : run' = [run EXCEPT ![h] = [Idle EXCEPT !.at = "inspect", !.user = {u}]]
  /\ UNCHANGED <<github, news, wire, table, account, listed, applied, acked, mishap, broken>>

\* listInstallationAccounts, getOrganizationProvisioningContext: an account without its
\* type is linked again.
Relink(h) ==
  /\ At(h, "idle") /\ Spend("links")
  /\ \E u \in Users :
       /\ account[u].linked /\ ~account[u].known /\ ~account[u].suspended
       /\ run' = [run EXCEPT ![h] = [Idle EXCEPT !.at = "inspect", !.user = {u}]]
  /\ UNCHANGED <<github, news, wire, table, account, listed, applied, acked, mishap, broken>>

\* The metadata, a token, the repositories.
Inspect(h) ==
  /\ At(h, "inspect")
  /\ run' = [run EXCEPT ![h].at = "upsert", ![h].known = github.there, ![h].stale = FALSE,
                        ![h].found = IF github.suspended THEN {} ELSE github.repos]
  /\ Note(github.suspended, "blind")
  /\ UNCHANGED <<github, news, wire, table, account, listed, left, applied, acked, broken>>

\* One of the calls fails: what came before it counts, the defaults stand for the rest.
InspectFails(h) ==
  /\ At(h, "inspect") /\ Spend("faults")
  /\ \E known \in {FALSE, github.there} :
       run' = [run EXCEPT ![h].at = "upsert", ![h].known = known]
  /\ mishap' = mishap \cup {"blind"}
  /\ UNCHANGED <<github, news, wire, table, account, listed, applied, acked, broken>>

\* A row that is there keeps its suspension; a new one has none.  Without repositories
\* nothing is replaced.
Upsert(h) ==
  /\ At(h, "upsert")
  /\ account' = [u \in Users |->
                   IF u \in run[h].user
                   THEN [account[u] EXCEPT !.linked = TRUE, !.known = run[h].known]
                   ELSE account[u]]
  /\ mishap' = mishap
       \cup (IF github.there THEN {} ELSE {"ghost"})
       \cup (IF run[h].found = {} /\ run[h].stale THEN {"blind"} ELSE {})
       \cup (IF github.suspended \/ run[h].stale THEN {"late row"} ELSE {})
  /\ IF run[h].found = {} THEN End(h) ELSE Go(h, "delete")
  /\ UNCHANGED <<github, news, wire, table, listed, left, applied, acked, broken>>

----------------------------------------------------------------------------
\* replaceRepos, by a delivery or a link: two statements

\* Another list takes the place of what the others have read, or are about to insert.
Replaced(h, mine) ==
  run' = [g \in Handlers |-> IF g = h THEN mine ELSE
            [run[g] EXCEPT !.stale = @ \/ HasRead(g)]]
Ended(h) == IF IsLink(h) THEN Idle ELSE [run[h] EXCEPT !.at = "complete"]

DeleteRows(h) ==
  /\ At(h, "delete")
  /\ listed' = [u \in Users |-> {}]
  /\ Replaced(h, IF run[h].found = {} THEN Ended(h) ELSE [run[h] EXCEPT !.at = "insert"])
  /\ IF run[h].found = {} /\ ~IsLink(h) THEN Apply(h) ELSE UNCHANGED applied
  /\ mishap' = mishap
       \cup (IF run[h].stale THEN {"crossed"} ELSE {})
       \cup (IF run[h].found = {} /\ Later(h) # {} THEN {"disorder"} ELSE {})
  /\ UNCHANGED <<github, news, wire, table, account, left, acked, broken>>

\* For every account that is not suspended by now.
InsertRows(h) ==
  /\ At(h, "insert")
  /\ listed' = [u \in Users |-> IF account[u].linked /\ ~account[u].suspended
                                THEN listed[u] \cup run[h].found ELSE listed[u]]
  /\ Replaced(h, Ended(h))
  /\ IF IsLink(h) THEN UNCHANGED applied ELSE Apply(h)
  /\ mishap' = mishap
       \cup (IF run[h].stale \/ \E u \in Users : account[u].suspended THEN {"crossed"} ELSE {})
       \cup (IF ~IsLink(h) /\ Later(h) # {} THEN {"disorder"} ELSE {})
  /\ UNCHANGED <<github, news, wire, table, account, left, acked, broken>>

\* A statement or a call of a delivery fails: the claim is released, the answer is an
\* error, and what was done stays.
DeliveryFails(h) ==
  /\ run[h].at \in {"apply", "fetch", "delete", "insert", "complete"} /\ ~IsLink(h)
  /\ Spend("faults")
  /\ Go(h, "release")
  /\ Note(At(h, "insert"), "cut")
  /\ broken' = IF applied[run[h].id] > 0 THEN broken \cup {<<"failed late", run[h].id>>} ELSE broken
  /\ UNCHANGED <<github, news, wire, table, account, listed, applied, acked>>

\* A statement of a link fails, which is logged, or the process ends.
LinkFails(h) ==
  /\ IsLink(h) /\ Spend("faults")
  /\ End(h)
  /\ Note(run[h].at \in {"delete", "insert"}, "cut")
  /\ UNCHANGED <<github, news, wire, table, account, listed, applied, acked, broken>>

\* The process ends with a delivery under way, or the release fails: its row stays at
\* processing.
Crash(h) ==
  /\ ~At(h, "idle") /\ ~IsLink(h) /\ Spend("faults")
  /\ End(h)
  /\ Note(At(h, "insert"), "cut")
  /\ broken' = broken \cup {<<"crashed", run[h].id>>}
  /\ UNCHANGED <<github, news, wire, table, account, listed, applied, acked>>

GithubStep == ChangeRepos \/ Suspend \/ Uninstall \/ Redeliver \/ NotDelivered

DeliveryStep(h) ==
  \/ BeginWebhookDelivery(h) \/ ProcessInstallationEvent(h) \/ FetchInstallationRepositories(h)
  \/ Complete(h) \/ CompleteUnanswered(h) \/ ReleaseWebhookDelivery(h)
  \/ DeliveryFails(h) \/ Crash(h)

LinkStep(h) ==
  \/ BeginLink(h) \/ Relink(h) \/ Inspect(h) \/ InspectFails(h) \/ Upsert(h) \/ LinkFails(h)

Next ==
  \/ GithubStep \/ ClaimUnanswered
  \/ \E h \in Handlers : DeliveryStep(h) \/ LinkStep(h) \/ DeleteRows(h) \/ InsertRows(h)

Spec == Init /\ [][Next]_vars

----------------------------------------------------------------------------
\* Properties

Quiet == wire = {} /\ \A h \in Handlers : At(h, "idle")
AllApplied == \A n \in 1..Len(news) : applied[n] > 0

\* A delivery that is accepted takes effect, and once: without effect it was accepted
\* only if its handler stopped dead, or failed after a redelivery had been accepted, or
\* if the answer to its claim was lost; again, only if its handler failed after the effect.  (handleWebhook:
\* beginWebhookDelivery, completeWebhookDelivery, releaseWebhookDelivery.)
HandledOnce ==
  /\ \A n \in acked :
       applied[n] = 0 =>
         \/ Handling(n)
         \/ {<<"crashed", n>>, <<"acked early", n>>, <<"claim unanswered", n>>} \cap broken # {}
  /\ \A n \in Ids :
       applied[n] > 1 => <<"failed late", n>> \in broken

\* When all is handled, in whatever order, an installation that is gone has no account,
\* unless a link was under way when it went; and one that is there is suspended for
\* its users as it is at GitHub, if events took effect in their order and no link
\* crossed them.  (processWebhookEvent, linkInstallation.)
AccountsAgree ==
  Quiet /\ AllApplied =>
    /\ ~github.there => "ghost" \in mishap \/ \A u \in Users : ~account[u].linked
    /\ github.there /\ {"disorder", "late row"} \cap mishap = {} =>
         \A u \in Users : account[u].linked => account[u].suspended = github.suspended

\* And the repositories listed for its users are the installation's, unless lists
\* crossed or were cut short, or a link did not get to know them.  (replaceRepos.)
ListsAgree ==
  /\ Quiet /\ AllApplied /\ github.there
  /\ mishap \cap {"disorder", "late row", "crossed", "cut", "blind"} = {}
  => \A u \in Users : account[u].linked => listed[u] = github.repos

\* The tables agree with GitHub when all is handled, and are of their types.
\* (GithubInstallationsRepository.)
TablesAgree == TypeOK /\ AccountsAgree /\ ListsAgree
====
