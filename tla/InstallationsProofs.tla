---- MODULE InstallationsProofs ----
(***************************************************************************)
(* Proofs about Installations, for every number of users, repositories and *)
(* handlers, and every number of changes, links, redeliveries and faults:  *)
(* that a delivery is handled once (HandledOnce), and that the tables      *)
(* agree with GitHub when all is handled (TablesAgree).                    *)
(*                                                                         *)
(* Neither is inductive.  The first needs that the row of a delivery tells *)
(* who is at it: it is at processing under every handler, and one handler  *)
(* at most has it (Claimed).  The second speaks of the quiet moment when   *)
(* all is applied; the invariant says what holds before, while the events  *)
(* of one kind are all applied (AsSuspended, AsListed), and that a handler *)
(* whose reading is not stale has read what GitHub has now (AsRead).       *)
(***************************************************************************)
EXTENDS Installations, TLAPS

\* What handles a delivery.
IsDelivery(h) == ~IsLink(h) /\ ~At(h, "idle")
Suspensions == {"suspend", "unsuspend"}
Events == {"suspend", "unsuspend", "deleted", "repositories"}

----------------------------------------------------------------------------
\* The invariant

\* The bounds are kept, and what is delivered was announced.
Bounded ==
  /\ wire \subseteq 1..Len(news)
  /\ left \in [changes : Nat, links : Nat, redeliveries : Nat, faults : Nat]
  /\ Len(news) + left.changes <= MaxChanges

\* A handler is idle, at a link or at a delivery, and each has its own steps.
Shaped(h) ==
  /\ At(h, "idle") => run[h] = Idle
  /\ IsLink(h) => run[h].id = 0 /\ run[h].at \in {"inspect", "upsert", "delete", "insert"}
  /\ IsDelivery(h) =>
       /\ run[h].id \in 1..Len(news)
       /\ run[h].at \in {"apply", "fetch", "delete", "insert", "complete", "release"}
       /\ run[h].at = "apply" => news[run[h].id] # "repositories"
       /\ run[h].at \in {"fetch", "delete", "insert"} => news[run[h].id] = "repositories"

\* A delivery has one handler, and its row is at processing until that one is done.
Claimed ==
  /\ \A h, g \in Handlers : IsDelivery(h) /\ IsDelivery(g) /\ run[h].id = run[g].id => h = g
  /\ \A h \in Handlers : IsDelivery(h) => table[run[h].id] = "processing"

\* What the row of a delivery says of its effect.
Rows(n) ==
  /\ table[n] = "processing" =>
       Handling(n) \/ {<<"crashed", n>>, <<"claim unanswered", n>>} \cap broken # {}
  /\ table[n] = "processed" => applied[n] > 0
  /\ table[n] = "none" /\ applied[n] > 0 => <<"failed late", n>> \in broken
  /\ applied[n] > 1 => <<"failed late", n>> \in broken
  /\ n \in acked /\ applied[n] = 0 => 
       {<<"crashed", n>>, <<"acked early", n>>, <<"claim unanswered", n>>} \cap broken # {}
  /\ applied[n] > 0 => n <= Len(news)

\* A handler that is about to complete has had its effect; one that is before it has
\* not, unless an earlier one failed late.
Effect(h) ==
  /\ At(h, "complete") => applied[run[h].id] > 0
  /\ IsDelivery(h) /\ ~At(h, "complete") /\ applied[run[h].id] > 0 =>
       <<"failed late", run[h].id>> \in broken

\* The news tell the suspension and the end of the installation.
Told ==
  /\ ~github.there => Len(news) > 0 /\ news[Len(news)] = "deleted"
  /\ github.there => \A n \in 1..Len(news) : news[n] # "deleted"
  /\ github.there => \A n \in 1..Len(news) :
       news[n] \in Suspensions /\ (\A m \in 1..Len(news) : m > n => news[m] \notin Suspensions)
       => github.suspended = (news[n] = "suspend")

KnownOf(events) == \A n \in 1..Len(news) : news[n] \in events => applied[n] > 0

\* Once the deletion took effect, only a link that came late has an account.
NoGhosts ==
  ~github.there /\ applied[Len(news)] > 0 /\ "ghost" \notin mishap
    => \A u \in Users : ~account[u].linked

\* Once all suspensions took effect, the accounts are as GitHub is.
AsSuspended ==
  github.there /\ KnownOf(Suspensions) /\ {"disorder", "late row"} \cap mishap = {}
    => \A u \in Users : account[u].linked => account[u].suspended = github.suspended

Straight == mishap \cap {"disorder", "late row", "crossed", "cut", "blind"} = {}

\* A reading that nothing overtook is what GitHub has, and its rows are deleted until
\* it inserts them.
AsRead(h) ==
  /\ Straight /\ HasRead(h) /\ ~run[h].stale => run[h].found = github.repos
  /\ At(h, "insert") /\ ~run[h].stale => \A u \in Users : listed[u] = {}

NoLeftRows == github.there => \A u \in Users : ~account[u].linked => listed[u] = {}

Replacing(h) == At(h, "insert") \/ (At(h, "delete") /\ IsLink(h))
ListsStand == \A u \in Users : account[u].linked => listed[u] = github.repos

\* Once all changes of the repositories took effect, the lists are as GitHub's, or
\* somebody is about to replace them.
AsListed ==
  github.there /\ KnownOf({"repositories"}) /\ Straight
    => ListsStand \/ \E h \in Handlers : Replacing(h)

AllShaped == \A h \in Handlers : Shaped(h)
AllEffects == \A h \in Handlers : Effect(h)
AllRows == \A n \in Ids : Rows(n)
AllAsRead == \A h \in Handlers : AsRead(h)

IInv ==
  /\ TypeOK /\ Bounded /\ AllShaped
  /\ Claimed /\ AllRows /\ AllEffects
  /\ Told /\ NoGhosts /\ AsSuspended
  /\ AllAsRead /\ NoLeftRows /\ AsListed

----------------------------------------------------------------------------
\* The type invariant in parts

GithubT == github \in [there : BOOLEAN, suspended : BOOLEAN, repos : SUBSET Repos]
NewsT == news \in Seq(Events) /\ Len(news) <= MaxChanges
WireT == wire \subseteq Ids /\ acked \subseteq Ids
TableT == table \in [Ids -> {"none", "processing", "processed"}]
AccountT ==
  /\ account \in [Users -> [linked : BOOLEAN, known : BOOLEAN, suspended : BOOLEAN]]
  /\ \A u \in Users : ~account[u].linked => account[u] = NoAccount
ListedT == listed \in [Users -> SUBSET Repos]
Steps == {"idle", "apply", "fetch", "inspect", "upsert", "delete", "insert", "complete", "release"}
Runs ==
  [at : Steps, id : {0} \cup Ids, user : SUBSET Users, known : BOOLEAN,
   found : SUBSET Repos, stale : BOOLEAN]
RunT == run \in [Handlers -> Runs]
AppliedT == applied \in [Ids -> Nat]
NotesT ==
  /\ mishap \subseteq Mishaps
  /\ broken \subseteq {"crashed", "failed late", "acked early", "claim unanswered"} \X Ids

LEMMA TypedParts ==
  /\ TypeOK <=> /\ GithubT /\ NewsT /\ WireT /\ TableT /\ AccountT
                /\ ListedT /\ RunT /\ AppliedT /\ NotesT
  /\ TypeOK' <=> /\ GithubT' /\ NewsT' /\ WireT' /\ TableT' /\ AccountT'
                 /\ ListedT' /\ RunT' /\ AppliedT' /\ NotesT'
  BY DEF TypeOK, GithubT, NewsT, WireT, TableT, AccountT, ListedT, RunT, AppliedT, NotesT,
         Events, Runs, Steps

LEMMA IdsAre == /\ MaxChanges \in Nat
                /\ \A n : n \in Ids <=> n \in Nat /\ 1 <= n /\ n <= MaxChanges
  BY InstallationsAssumption DEF Ids

----------------------------------------------------------------------------
\* What a step makes of the handlers

\* The handler goes on where it is; its reading may have become stale.
Kept(g) ==
  /\ run'[g].at = run[g].at /\ run'[g].id = run[g].id /\ run'[g].user = run[g].user
  /\ run'[g].found = run[g].found /\ run'[g].known = run[g].known
  /\ run[g].stale => run'[g].stale
  /\ At(g, "idle") => run'[g] = run[g]

Others(h) == \A g \in Handlers : g # h => Kept(g)
Same(h) == run'[h].id = run[h].id /\ run'[h].user = run[h].user
Longer ==
  /\ Len(news') \in Nat /\ Len(news) <= Len(news')
  /\ \A n \in 1..Len(news) : news'[n] = news[n]

LEMMA IdleIsRun == Idle \in Runs /\ \A f : f = Idle => /\ f.at = "idle" /\ f.id = 0
                                                     /\ f.user = {} /\ ~f.stale
                                                     /\ f.found = {}
  BY DEF Idle, Runs, Steps

LEMMA KeptStill == ASSUME run' = run PROVE \A g \in Handlers : Kept(g)
  BY DEF Kept

LEMMA GoIs ==
  ASSUME NEW h \in Handlers, NEW s \in Steps, RunT, Go(h, s)
  PROVE  /\ RunT' /\ run'[h].at = s /\ Same(h) /\ Others(h)
         /\ run'[h].found = run[h].found /\ run'[h].stale = run[h].stale
  <1>1. run' = [run EXCEPT ![h] = [run[h] EXCEPT !.at = s]]
    BY DEF Go, RunT
  <1>2. run'[h] = [run[h] EXCEPT !.at = s] /\ run[h] \in Runs
    BY <1>1 DEF RunT
  <1>3. run'[h] \in Runs
    BY <1>2 DEF Runs
  <1>4. \A g \in Handlers : g # h => run'[g] = run[g]
    BY <1>1 DEF RunT
  <1>5. RunT'
    BY <1>1, <1>3 DEF RunT
  <1> QED
    BY <1>2, <1>4, <1>5 DEF Same, Others, Kept, Runs

LEMMA BecomesIs ==
  ASSUME NEW h \in Handlers, NEW r \in Runs, RunT, run' = [run EXCEPT ![h] = r]
  PROVE  RunT' /\ run'[h] = r /\ Others(h)
  <1>1. \A g \in Handlers : g # h => run'[g] = run[g]
    BY DEF RunT
  <1> QED
    BY <1>1 DEF RunT, Others, Kept

LEMMA EndIs ==
  ASSUME NEW h \in Handlers, RunT, End(h)
  PROVE  RunT' /\ run'[h] = Idle /\ Others(h)
  BY BecomesIs, IdleIsRun DEF End

LEMMA StaleIs ==
  ASSUME NEW g \in Handlers, RunT,
         run'[g] = [run[g] EXCEPT !.stale = run[g].stale \/ HasRead(g)]
  PROVE  run'[g] \in Runs /\ Kept(g) /\ (HasRead(g) => run'[g].stale)
  <1> DEFINE b == run[g].stale \/ HasRead(g)
  <1>1. run[g] \in Runs /\ HasRead(g) \in BOOLEAN /\ run[g].stale \in BOOLEAN
    BY DEF RunT, HasRead, Runs
  <1>2. b \in BOOLEAN /\ (run[g].stale => b) /\ (HasRead(g) => b)
        /\ (~HasRead(g) => b = run[g].stale)
    BY <1>1
  <1>3. run'[g] = [run[g] EXCEPT !.stale = b]
    OBVIOUS
  <1> HIDE DEF b
  <1>4. /\ run'[g] \in Runs /\ run'[g].stale = b
        /\ run'[g].at = run[g].at /\ run'[g].id = run[g].id /\ run'[g].user = run[g].user
        /\ run'[g].found = run[g].found /\ run'[g].known = run[g].known
    BY <1>1, <1>2, <1>3 DEF Runs
  <1>5. ASSUME At(g, "idle") PROVE run'[g] = run[g]
    <2>1. b = run[g].stale
      BY <1>2, <1>5 DEF At, HasRead
    <2> QED
      BY <1>1, <1>3, <2>1 DEF Runs
  <1> QED
    BY <1>2, <1>4, <1>5 DEF Kept

LEMMA OvertakeIs ==
  ASSUME RunT, Overtake
  PROVE  RunT' /\ \A g \in Handlers : Kept(g) /\ (HasRead(g) => run'[g].stale)
  <1>1. \A g \in Handlers : run'[g] = [run[g] EXCEPT !.stale = run[g].stale \/ HasRead(g)]
    BY DEF Overtake
  <1>2. \A g \in Handlers : run'[g] \in Runs /\ Kept(g) /\ (HasRead(g) => run'[g].stale)
    BY <1>1, StaleIs
  <1> QED
    BY <1>2 DEF RunT, Overtake

LEMMA ReplacedIs ==
  ASSUME NEW h \in Handlers, NEW r \in Runs, RunT, Replaced(h, r)
  PROVE  /\ RunT' /\ run'[h] = r /\ Others(h)
         /\ \A g \in Handlers : g # h /\ HasRead(g) => run'[g].stale
  <1>1. run'[h] = r
    BY DEF Replaced
  <1>2. \A g \in Handlers : g # h =>
          run'[g] = [run[g] EXCEPT !.stale = run[g].stale \/ HasRead(g)]
    BY DEF Replaced
  <1>3. \A g \in Handlers : g # h =>
          run'[g] \in Runs /\ Kept(g) /\ (HasRead(g) => run'[g].stale)
    BY <1>2, StaleIs
  <1>4. RunT'
    BY <1>1, <1>3 DEF RunT, Replaced
  <1> QED
    BY <1>1, <1>3, <1>4 DEF Others

----------------------------------------------------------------------------
\* Types, bounds and the shapes of the handlers

Base == TypeOK /\ Bounded /\ AllShaped

LEMMA SpendIs ==
  ASSUME Bounded, NEW what \in {"changes", "links", "redeliveries", "faults"}, Spend(what)
  PROVE  /\ left' \in [changes : Nat, links : Nat, redeliveries : Nat, faults : Nat]
         /\ left'.changes <= left.changes
         /\ what = "changes" => left.changes > 0 /\ left'.changes = left.changes - 1
  BY DEF Bounded, Spend

LEMMA AnnounceIs ==
  ASSUME NewsT, wire \subseteq Ids, Bounded, NEW event \in Events, Announce(event)
  PROVE  /\ NewsT' /\ wire' \subseteq Ids /\ Bounded' /\ Longer
         /\ wire' = wire \cup {Len(news) + 1}
         /\ Len(news') = Len(news) + 1 /\ news'[Len(news) + 1] = event
  <1>1. Spend("changes") /\ news' = Append(news, event) /\ wire' = wire \cup {Len(news) + 1}
    BY DEF Announce
  <1>2. /\ left' \in [changes : Nat, links : Nat, redeliveries : Nat, faults : Nat]
        /\ left.changes > 0 /\ left'.changes = left.changes - 1
    BY <1>1, SpendIs
  <1>3. Len(news) \in Nat /\ left.changes \in Nat /\ Len(news) + left.changes <= MaxChanges
    BY DEF NewsT, Bounded
  <1>4. /\ news' \in Seq(Events) /\ Len(news') = Len(news) + 1 /\ Longer
        /\ news'[Len(news) + 1] = event
    BY <1>1 DEF NewsT, Longer
  <1>5. Len(news) + 1 \in Ids
    BY <1>2, <1>3, IdsAre
  <1>6. ASSUME NEW n \in wire' PROVE n \in 1..Len(news')
    <2>1. n \in 1..Len(news) \/ n = Len(news) + 1
      BY <1>1 DEF Bounded
    <2> QED
      BY <2>1, <1>3, <1>4
  <1>7. Len(news') + left'.changes <= MaxChanges
    BY <1>2, <1>3, <1>4, IdsAre
  <1> QED
    BY <1>1, <1>2, <1>3, <1>4, <1>5, <1>6, <1>7, IdsAre DEF NewsT, Bounded

LEMMA NewsStill == ASSUME NewsT, UNCHANGED news PROVE Longer
  BY DEF NewsT, Longer

LEMMA StillBounded ==
  ASSUME NewsT, Bounded, UNCHANGED news, wire' \subseteq 1..Len(news),
         \/ UNCHANGED left
         \/ \E what \in {"links", "redeliveries", "faults"} : Spend(what)
  PROVE  Bounded'
  <1>1. CASE UNCHANGED left
    BY <1>1 DEF Bounded
  <1>2. CASE \E what \in {"links", "redeliveries", "faults"} : Spend(what)
    <2>1. /\ left' \in [changes : Nat, links : Nat, redeliveries : Nat, faults : Nat]
          /\ left'.changes <= left.changes
      BY <1>2, SpendIs
    <2>2. left.changes \in Nat /\ left'.changes \in Nat /\ Len(news) \in Nat /\ MaxChanges \in Nat
      BY <2>1, IdsAre DEF Bounded, NewsT
    <2>3. Len(news) + left'.changes <= MaxChanges
      BY <2>1, <2>2 DEF Bounded
    <2> QED
      BY <2>1, <2>3 DEF Bounded
  <1> QED
    BY <1>1, <1>2

LEMMA ShapeRests ==
  ASSUME NEW g \in Handlers, Shaped(g), Kept(g), Longer, NewsT
  PROVE  Shaped(g)'
  <1>1. /\ run'[g].at = run[g].at /\ run'[g].id = run[g].id /\ run'[g].user = run[g].user
        /\ At(g, "idle") => run'[g] = run[g]
    BY DEF Kept
  <1>2. IsDelivery(g) => run[g].id \in 1..Len(news') /\ news'[run[g].id] = news[run[g].id]
    BY DEF Shaped, Longer, NewsT
  <1> QED
    BY <1>1, <1>2 DEF Shaped, IsDelivery, IsLink, At

LEMMA ShapesRest ==
  ASSUME NEW h \in Handlers, AllShaped, Others(h), Longer, NewsT, Shaped(h)'
  PROVE  AllShaped'
  BY ShapeRests DEF AllShaped, Others

LEMMA IdleIsShaped == ASSUME NEW h \in Handlers, run'[h] = Idle PROVE Shaped(h)'
  BY IdleIsRun DEF Shaped, At, IsLink, IsDelivery

\* GitHub's steps announce, or leave the news as they are; the handlers go on.
LEMMA GithubIs ==
  ASSUME Base, GithubStep
  PROVE  Longer /\ \A g \in Handlers : Kept(g)
  <1>1. RunT /\ NewsT /\ WireT /\ Bounded
    BY TypedParts DEF Base
  <1>2. ASSUME NEW event \in Events, Announce(event), Overtake PROVE Longer /\ \A g \in Handlers : Kept(g)
    BY <1>1, <1>2, AnnounceIs, OvertakeIs DEF WireT
  <1>3. ASSUME UNCHANGED news, UNCHANGED run PROVE Longer /\ \A g \in Handlers : Kept(g)
    BY <1>1, <1>3, NewsStill, KeptStill
  <1>4. CASE ChangeRepos \/ Suspend \/ Uninstall
    BY <1>2, <1>4 DEF ChangeRepos, Suspend, Uninstall, Events
  <1>5. CASE Redeliver \/ NotDelivered
    BY <1>3, <1>5 DEF Redeliver, NotDelivered
  <1> QED
    BY <1>4, <1>5 DEF GithubStep

LEMMA GithubBase == ASSUME Base, GithubStep PROVE Base'
  <1> USE TypedParts DEF Base
  <1> DEFINE Rest == UNCHANGED <<table, account, listed, applied, acked, mishap, broken>>
  <1>1. ASSUME NEW event \in Events, Announce(event), Overtake, GithubT', Rest PROVE Base'
    <2>1. NewsT' /\ wire' \subseteq Ids /\ Bounded' /\ Longer
      BY <1>1, AnnounceIs DEF WireT
    <2>2. RunT' /\ \A g \in Handlers : Kept(g)
      BY <1>1, OvertakeIs
    <2>3. AllShaped'
      BY <2>1, <2>2, ShapeRests DEF AllShaped
    <2> QED
      BY <1>1, <2>1, <2>2, <2>3 DEF WireT, TableT, AccountT, ListedT, AppliedT, NotesT
  <1>2. CASE ChangeRepos
    <2>1. GithubT'
      BY <1>2 DEF ChangeRepos, GithubT
    <2> QED
      BY <1>1, <1>2, <2>1 DEF ChangeRepos, Events
  <1>3. CASE Suspend
    <2>1. GithubT'
      BY <1>3 DEF Suspend, GithubT
    <2> QED
      BY <1>1, <1>3, <2>1 DEF Suspend, Events
  <1>4. CASE Uninstall
    <2>1. GithubT'
      BY <1>4 DEF Uninstall, GithubT
    <2> QED
      BY <1>1, <1>4, <2>1 DEF Uninstall, Events
  <1>5. ASSUME wire' \subseteq 1..Len(news), \E what \in {"redeliveries", "faults"} : Spend(what),
               UNCHANGED <<github, news, run>>, Rest
        PROVE  Base'
    <2>1. Bounded' /\ Longer /\ wire' \subseteq Ids
      BY <1>5, StillBounded, NewsStill, IdsAre DEF NewsT
    <2>2. RunT' /\ \A g \in Handlers : Kept(g)
      BY <1>5, KeptStill DEF RunT
    <2>3. AllShaped'
      BY <2>1, <2>2, ShapeRests DEF AllShaped
    <2> QED
      BY <1>5, <2>1, <2>2, <2>3
      DEF GithubT, NewsT, WireT, TableT, AccountT, ListedT, AppliedT, NotesT
  <1>6. CASE Redeliver
    <2>1. wire' \subseteq 1..Len(news)
      BY <1>6 DEF Redeliver, Bounded
    <2> QED
      BY <1>5, <1>6, <2>1 DEF Redeliver
  <1>7. CASE NotDelivered
    <2>1. wire' \subseteq 1..Len(news)
      BY <1>7 DEF NotDelivered, Bounded
    <2> QED
      BY <1>5, <1>7, <2>1 DEF NotDelivered
  <1> QED
    BY <1>2, <1>3, <1>4, <1>6, <1>7 DEF GithubStep

\* A step of a handler leaves GitHub and its news alone.
LEMMA HandlerBase ==
  ASSUME Base, NEW h \in Handlers, UNCHANGED <<github, news>>, wire' \subseteq wire,
         \/ UNCHANGED left
         \/ \E what \in {"links", "redeliveries", "faults"} : Spend(what),
         RunT', Others(h), Shaped(h)',
         WireT', TableT', AccountT', ListedT', AppliedT', NotesT'
  PROVE  Base'
  <1>1. NewsT /\ Bounded /\ AllShaped /\ GithubT
    BY TypedParts DEF Base
  <1>2. Bounded' /\ Longer
    <2>1. wire' \subseteq 1..Len(news)
      BY <1>1 DEF Bounded
    <2> QED
      BY <1>1, <2>1, StillBounded, NewsStill
  <1>3. AllShaped'
    BY <1>1, <1>2, ShapesRest
  <1>4. GithubT' /\ NewsT'
    BY <1>1 DEF GithubT, NewsT
  <1> QED
    BY <1>2, <1>3, <1>4, TypedParts DEF Base

\* What the shape says of a handler at a step of a delivery, or of a link.
LEMMA DeliveryIs ==
  ASSUME Base, NEW h \in Handlers, IsDelivery(h)
  PROVE  /\ run[h].id \in Ids /\ run[h].id \in 1..Len(news) /\ run[h].user = {}
         /\ news[run[h].id] \in Events
  BY TypedParts, IdsAre DEF Base, AllShaped, Shaped, NewsT, IsDelivery, IsLink

LEMMA OnlyDeliveries ==
  ASSUME Base, NEW h \in Handlers, run[h].at \in {"apply", "fetch", "complete", "release"}
  PROVE  IsDelivery(h)
  BY DEF Base, AllShaped, Shaped, IsDelivery, IsLink, At

LEMMA OnlyLinks ==
  ASSUME Base, NEW h \in Handlers, run[h].at \in {"inspect", "upsert"}
  PROVE  IsLink(h)
  BY DEF Base, AllShaped, Shaped, IsDelivery, IsLink, At

LEMMA AppliedStays ==
  ASSUME AppliedT, NEW h \in Handlers, Apply(h), run[h].id \in Ids
  PROVE  /\ AppliedT' /\ applied'[run[h].id] = applied[run[h].id] + 1
         /\ \A n \in Ids : n # run[h].id => applied'[n] = applied[n]
  BY DEF Apply, AppliedT

\* What BeginWebhookDelivery makes of a delivery that has no row.
Claim(h, n) ==
  /\ table[n] = "none"
  /\ table' = [table EXCEPT ![n] = "processing"]
  /\ run'[h].id = n /\ run'[h].user = {} /\ ~run'[h].stale
  /\ run'[h].at = IF news[n] = "repositories" THEN "fetch" ELSE "apply"
  /\ Others(h) /\ RunT'
  /\ UNCHANGED <<acked, broken>>

\* And of a duplicate.
Duplicate(n) ==
  /\ table[n] # "none"
  /\ acked' = acked \cup {n}
  /\ broken' = IF Handling(n) THEN broken \cup {<<"acked early", n>>} ELSE broken
  /\ UNCHANGED <<table, run>>

LEMMA BeginIs ==
  ASSUME Base, NEW h \in Handlers, BeginWebhookDelivery(h)
  PROVE  \E n \in wire :
           n \in 1..Len(news) /\ n \in Ids /\ wire' = wire \ {n} /\ (Claim(h, n) \/ Duplicate(n))
  <1>1. RunT /\ WireT /\ NewsT /\ Bounded
    BY TypedParts DEF Base
  <1>2. PICK n \in wire :
          /\ wire' = wire \ {n}
          /\ IF table[n] = "none"
             THEN /\ table' = [table EXCEPT ![n] = "processing"]
                  /\ run' = [run EXCEPT ![h] = [Idle EXCEPT
                               !.at = IF news[n] = "repositories" THEN "fetch" ELSE "apply",
                               !.id = n]]
                  /\ UNCHANGED <<acked, broken>>
             ELSE Duplicate(n)
    BY DEF BeginWebhookDelivery, Duplicate
  <1>3. n \in 1..Len(news) /\ n \in Ids
    BY <1>1 DEF WireT, Bounded
  <1>4. CASE table[n] # "none"
    BY <1>2, <1>3, <1>4
  <1>5. CASE table[n] = "none"
    <2> DEFINE to == IF news[n] = "repositories" THEN "fetch" ELSE "apply"
               r == [Idle EXCEPT !.at = to, !.id = n]
    <2>1. to \in Steps
      BY DEF Steps
    <2>2. run' = [run EXCEPT ![h] = r]
      BY <1>2, <1>5
    <2> HIDE DEF to
    <2>3. r \in Runs /\ r.at = to /\ r.id = n /\ r.user = {} /\ ~r.stale
      BY <2>1, <1>3 DEF Idle, Runs
    <2> HIDE DEF r
    <2>4. RunT' /\ run'[h] = r /\ Others(h)
      BY <1>1, <2>2, <2>3, BecomesIs
    <2>5. Claim(h, n)
      BY <1>2, <1>5, <2>3, <2>4 DEF Claim, to
    <2> QED
      BY <1>2, <1>3, <2>5
  <1> QED
    BY <1>4, <1>5

LEMMA NoteIs ==
  ASSUME NotesT, mishap' \subseteq mishap \cup Mishaps, NEW n \in Ids,
         NEW how \in {"crashed", "failed late", "acked early", "claim unanswered"},
         broken' \subseteq broken \cup {<<how, n>>}
  PROVE  NotesT'
  <1>1. <<how, n>> \in {"crashed", "failed late", "acked early", "claim unanswered"} \X Ids
    OBVIOUS
  <1> QED
    BY <1>1 DEF NotesT

LEMMA BeginBase ==
  ASSUME Base, NEW h \in Handlers, BeginWebhookDelivery(h)
  PROVE  Base'
  <1>1. GithubT /\ NewsT /\ WireT /\ TableT /\ AccountT /\ ListedT /\ RunT /\ AppliedT /\ NotesT
    BY TypedParts DEF Base
  <1>2. PICK n \in wire :
          n \in 1..Len(news) /\ n \in Ids /\ wire' = wire \ {n} /\ (Claim(h, n) \/ Duplicate(n))
    BY BeginIs
  <1>3. /\ UNCHANGED <<github, news>> /\ UNCHANGED left /\ wire' \subseteq wire
        /\ UNCHANGED <<account, listed, applied>> /\ news' = news /\ mishap' = mishap
    BY <1>2 DEF BeginWebhookDelivery
  <1>4. AccountT' /\ ListedT' /\ AppliedT'
    BY <1>1, <1>3 DEF AccountT, ListedT, AppliedT
  <1>5. CASE Claim(h, n)
    <2>1. RunT' /\ Others(h) /\ UNCHANGED <<acked, broken>>
      BY <1>5 DEF Claim
    <2>2. TableT'
      BY <1>1, <1>2, <1>5 DEF Claim, TableT
    <2>3. WireT' /\ NotesT'
      BY <1>1, <1>3, <2>1 DEF WireT, NotesT
    <2>4. /\ run'[h].user = {} /\ run'[h].id = n
          /\ \/ run'[h].at = "fetch" /\ news'[n] = "repositories"
             \/ run'[h].at = "apply" /\ news'[n] # "repositories"
      BY <1>3, <1>5 DEF Claim
    <2>5. n \in 1..Len(news')
      <3>1. n \in 1..Len(news)
        BY <1>2
      <3>2. news' = news
        BY <1>3
      <3> QED
        BY <3>1, <3>2
    <2>6. Shaped(h)'
      BY <2>4, <2>5 DEF Shaped, IsLink, IsDelivery, At
    <2> QED
      BY <1>3, <1>4, <2>1, <2>2, <2>3, <2>6, HandlerBase
  <1>6. CASE Duplicate(n)
    <2>1. TableT' /\ WireT'
      BY <1>1, <1>2, <1>3, <1>6 DEF Duplicate, TableT, WireT
    <2>3. NotesT'
      <3>1. broken' \subseteq broken \cup {<<"acked early", n>>}
        BY <1>6 DEF Duplicate
      <3>2. n \in Ids
        BY <1>2
      <3>3. mishap' = mishap
        BY <1>3
      <3>4. mishap' \subseteq mishap \cup Mishaps
        BY <3>3
      <3> QED
        BY <1>1, <3>1, <3>2, <3>4, NoteIs
    <2>2. RunT' /\ Others(h) /\ Shaped(h)'
      BY <1>1, <1>3, <1>6, KeptStill
      DEF Duplicate, RunT, Others, Base, AllShaped, Shaped, IsLink, IsDelivery, At
    <2> QED
      BY <1>3, <1>4, <2>1, <2>2, <2>3, HandlerBase
  <1> QED
    BY <1>2, <1>5, <1>6

LEMMA MishapIs ==
  ASSUME NotesT, mishap' \subseteq mishap \cup Mishaps, UNCHANGED broken
  PROVE  NotesT'
  BY DEF NotesT

LEMMA NotedIs ==
  ASSUME NEW cond \in BOOLEAN, NEW what \in Mishaps, Note(cond, what)
  PROVE  /\ mishap' \subseteq mishap \cup Mishaps /\ mishap \subseteq mishap'
         /\ cond => what \in mishap'
  BY DEF Note

LEMMA ProcessBase ==
  ASSUME Base, NEW h \in Handlers, ProcessInstallationEvent(h)
  PROVE  Base'
  <1> USE DEF ProcessInstallationEvent
  <1>1. NewsT /\ WireT /\ TableT /\ AccountT /\ ListedT /\ RunT /\ AppliedT /\ NotesT
    BY TypedParts DEF Base
  <1>2. IsDelivery(h) /\ run[h].id \in Ids /\ run[h].id \in 1..Len(news)
    BY OnlyDeliveries, DeliveryIs DEF At
  <1>3. Go(h, "complete") /\ "complete" \in Steps
    BY DEF Steps
  <1>4. RunT' /\ Others(h) /\ Same(h) /\ run'[h].at = "complete"
    BY <1>1, <1>3, GoIs
  <1>5. Shaped(h)'
    BY <1>2, <1>4 DEF Shaped, IsDelivery, IsLink, At, Same
  <1>6. AccountT'
    <2> DEFINE e == news[run[h].id]
    <2>1. account' = [u \in Users |->
                        IF e = "deleted" \/ ~account[u].linked THEN NoAccount
                        ELSE [account[u] EXCEPT !.suspended = e = "suspend"]]
      OBVIOUS
    <2> HIDE DEF e
    <2>2. DEFINE b == e = "suspend"
    <2>3. b \in BOOLEAN
      OBVIOUS
    <2>4. account' = [u \in Users |->
                        IF e = "deleted" \/ ~account[u].linked THEN NoAccount
                        ELSE [account[u] EXCEPT !.suspended = b]]
      BY <2>1
    <2> HIDE DEF b
    <2> QED
      BY <1>1, <2>3, <2>4 DEF AccountT, NoAccount
  <1>7. AppliedT'
    BY <1>1, <1>2, AppliedStays
  <1>8. NotesT'
    <2>1. Note(Later(h) # {}, "disorder") /\ (Later(h) # {}) \in BOOLEAN /\ "disorder" \in Mishaps
      BY DEF Mishaps
    <2>2. mishap' \subseteq mishap \cup Mishaps
      BY <2>1, NotedIs
    <2> QED
      BY <1>1, <2>2, MishapIs
  <1>9. WireT' /\ TableT' /\ ListedT'
    BY <1>1 DEF WireT, TableT, ListedT
  <1> QED
    BY <1>4, <1>5, <1>6, <1>7, <1>8, <1>9, HandlerBase

LEMMA FetchIs ==
  ASSUME Base, NEW h \in Handlers, FetchInstallationRepositories(h)
  PROVE  /\ RunT' /\ Others(h) /\ Same(h) /\ IsDelivery(h)
         /\ \/ /\ run'[h].at = "delete" /\ run'[h].found = github.repos /\ ~run'[h].stale
               /\ github.there /\ ~github.suspended
            \/ run'[h].at = "release"
  <1> USE DEF FetchInstallationRepositories
  <1>1. RunT /\ GithubT /\ IsDelivery(h)
    BY TypedParts, OnlyDeliveries DEF Base, At
  <1>2. CASE github.there /\ ~github.suspended
    <2> DEFINE r == [run[h] EXCEPT !.at = "delete", !.found = github.repos, !.stale = FALSE]
    <2>1. run' = [run EXCEPT ![h] = r]
      BY <1>1, <1>2 DEF RunT
    <2>2. r \in Runs /\ r.at = "delete" /\ r.found = github.repos /\ ~r.stale
          /\ r.id = run[h].id /\ r.user = run[h].user
      BY <1>1 DEF RunT, Runs, Steps, GithubT
    <2> HIDE DEF r
    <2> QED
      BY <1>1, <1>2, <2>1, <2>2, BecomesIs DEF Same
  <1>3. CASE ~(github.there /\ ~github.suspended)
    <2>1. Go(h, "release") /\ "release" \in Steps
      BY <1>3 DEF Steps
    <2> QED
      BY <1>1, <2>1, GoIs
  <1> QED
    BY <1>2, <1>3

LEMMA FetchBase ==
  ASSUME Base, NEW h \in Handlers, FetchInstallationRepositories(h)
  PROVE  Base'
  <1>1. NewsT /\ WireT /\ TableT /\ AccountT /\ ListedT /\ RunT /\ AppliedT /\ NotesT
    BY TypedParts DEF Base
  <1>2. RunT' /\ Others(h) /\ Same(h) /\ IsDelivery(h) /\ run'[h].at \in {"delete", "release"}
    BY FetchIs
  <1>3. run[h].id \in 1..Len(news) /\ Shaped(h) /\ At(h, "fetch") /\ news' = news
    BY <1>2, DeliveryIs DEF Base, AllShaped, FetchInstallationRepositories
  <1>4. Shaped(h)'
    BY <1>2, <1>3 DEF Shaped, IsDelivery, IsLink, At, Same
  <1>5. WireT' /\ TableT' /\ AccountT' /\ ListedT' /\ AppliedT' /\ NotesT'
    BY <1>1 DEF FetchInstallationRepositories, WireT, TableT, AccountT, ListedT, AppliedT, NotesT
  <1> QED
    BY <1>2, <1>4, <1>5, HandlerBase DEF FetchInstallationRepositories

LEMMA CompleteBase ==
  ASSUME Base, NEW h \in Handlers,
         Complete(h) \/ CompleteUnanswered(h) \/ ReleaseWebhookDelivery(h)
  PROVE  Base'
  <1> USE DEF Complete, CompleteUnanswered, ReleaseWebhookDelivery
  <1>1. NewsT /\ WireT /\ TableT /\ AccountT /\ ListedT /\ RunT /\ AppliedT /\ NotesT
    BY TypedParts DEF Base
  <1>2. run[h].id \in Ids
    BY OnlyDeliveries, DeliveryIs DEF At
  <1>3. RunT' /\ Others(h) /\ run'[h] = Idle
    BY <1>1, EndIs
  <1>4. TableT'
    BY <1>1, <1>2 DEF TableT
  <1>5. WireT'
    BY <1>1, <1>2 DEF WireT
  <1>6. AccountT' /\ ListedT' /\ AppliedT' /\ NotesT' /\ Shaped(h)'
    BY <1>1, <1>3, IdleIsShaped DEF AccountT, ListedT, AppliedT, NotesT
  <1>7. UNCHANGED <<github, news>> /\ wire' \subseteq wire
        /\ \/ UNCHANGED left
           \/ \E what \in {"links", "redeliveries", "faults"} : Spend(what)
    OBVIOUS
  <1> QED
    BY <1>3, <1>4, <1>5, <1>6, <1>7, HandlerBase

\* What ClaimUnanswered makes of a delivery.
LEMMA UnansweredIs ==
  ASSUME Base, ClaimUnanswered
  PROVE  /\ \E n \in wire :
              /\ n \in 1..Len(news) /\ n \in Ids /\ wire' = wire \ {n} /\ table[n] = "none"
              /\ table' = [table EXCEPT ![n] = "processing"]
              /\ acked' \subseteq acked \cup {n}
              /\ broken' = broken \cup {<<"claim unanswered", n>>}
         /\ Spend("faults")
         /\ UNCHANGED <<github, news, account, listed, run, applied, mishap>>
         /\ \A g \in Handlers : Kept(g)
  <1>1. \A g \in Handlers : Kept(g)
    BY KeptStill DEF ClaimUnanswered
  <1> QED
    BY <1>1, TypedParts DEF ClaimUnanswered, Base, WireT, Bounded

LEMMA UnansweredBase == ASSUME Base, ClaimUnanswered PROVE Base'
  <1>1. GithubT /\ NewsT /\ WireT /\ TableT /\ AccountT /\ ListedT /\ RunT /\ AppliedT
        /\ NotesT /\ Bounded /\ AllShaped
    BY TypedParts DEF Base
  <1>2. PICK n \in wire :
          /\ n \in 1..Len(news) /\ n \in Ids /\ wire' = wire \ {n} /\ table[n] = "none"
          /\ table' = [table EXCEPT ![n] = "processing"]
          /\ acked' \subseteq acked \cup {n}
          /\ broken' = broken \cup {<<"claim unanswered", n>>}
    BY UnansweredIs
  <1>3. /\ Spend("faults") /\ UNCHANGED <<github, news, account, listed, run, applied, mishap>>
        /\ \A g \in Handlers : Kept(g)
    BY UnansweredIs
  <1>4. GithubT' /\ NewsT' /\ AccountT' /\ ListedT' /\ RunT' /\ AppliedT'
    BY <1>1, <1>3 DEF GithubT, NewsT, AccountT, ListedT, RunT, AppliedT
  <1>5. TableT' /\ WireT'
    BY <1>1, <1>2 DEF TableT, WireT
  <1>6. NotesT'
    BY <1>1, <1>2, <1>3, NoteIs
  <1>7. Bounded' /\ Longer
    <2>1. wire' \subseteq 1..Len(news)
      BY <1>1, <1>2 DEF Bounded
    <2> QED
      BY <1>1, <1>3, <2>1, StillBounded, NewsStill
  <1>8. AllShaped'
    BY <1>1, <1>3, <1>7, ShapeRests DEF AllShaped
  <1> QED
    BY <1>4, <1>5, <1>6, <1>7, <1>8, TypedParts DEF Base

LEMMA FailsBase ==
  ASSUME Base, NEW h \in Handlers, DeliveryFails(h) \/ LinkFails(h) \/ Crash(h)
  PROVE  Base'
  <1>1. NewsT /\ WireT /\ TableT /\ AccountT /\ ListedT /\ RunT /\ AppliedT /\ NotesT
    BY TypedParts DEF Base
  <1>2. WireT' /\ TableT' /\ AccountT' /\ ListedT' /\ AppliedT'
    BY <1>1 DEF DeliveryFails, LinkFails, Crash, WireT, TableT, AccountT, ListedT, AppliedT
  <1>3. /\ UNCHANGED <<github, news>> /\ wire' \subseteq wire
        /\ \E what \in {"links", "redeliveries", "faults"} : Spend(what)
    BY DEF DeliveryFails, LinkFails, Crash
  <1>4. mishap' \subseteq mishap \cup Mishaps
    <2>1. \/ Note(At(h, "insert"), "cut")
          \/ Note(run[h].at \in {"delete", "insert"}, "cut")
      BY DEF DeliveryFails, LinkFails, Crash
    <2> QED
      BY <2>1 DEF Note, Mishaps
  <1>5. CASE DeliveryFails(h)
    <2>1. IsDelivery(h) /\ run[h].id \in Ids /\ run[h].id \in 1..Len(news)
      BY <1>5, DeliveryIs DEF DeliveryFails, IsDelivery, At
    <2>2. Go(h, "release") /\ "release" \in Steps
      BY <1>5 DEF DeliveryFails, Steps
    <2>3. RunT' /\ Others(h) /\ Same(h) /\ run'[h].at = "release"
      BY <1>1, <2>2, GoIs
    <2>4. Shaped(h)'
      BY <1>3, <2>1, <2>3 DEF Shaped, IsDelivery, IsLink, At, Same
    <2>5. broken' \subseteq broken \cup {<<"failed late", run[h].id>>}
      BY <1>5 DEF DeliveryFails
    <2>6. NotesT'
      BY <1>1, <1>4, <2>1, <2>5, NoteIs
    <2> QED
      BY <1>2, <1>3, <2>3, <2>4, <2>6, HandlerBase
  <1>6. CASE LinkFails(h)
    <2>1. RunT' /\ Others(h) /\ run'[h] = Idle /\ UNCHANGED broken
      BY <1>1, <1>6, EndIs DEF LinkFails
    <2>2. NotesT' /\ Shaped(h)'
      BY <1>1, <1>4, <2>1, MishapIs, IdleIsShaped
    <2> QED
      BY <1>2, <1>3, <2>1, <2>2, HandlerBase
  <1>7. CASE Crash(h)
    <2>1. run[h].id \in Ids
      BY <1>7, DeliveryIs DEF Crash, IsDelivery
    <2>2. RunT' /\ Others(h) /\ run'[h] = Idle
      BY <1>1, <1>7, EndIs DEF Crash
    <2>3. broken' \subseteq broken \cup {<<"crashed", run[h].id>>}
      BY <1>7 DEF Crash
    <2>4. NotesT' /\ Shaped(h)'
      BY <1>1, <1>4, <2>1, <2>2, <2>3, NoteIs, IdleIsShaped
    <2> QED
      BY <1>2, <1>3, <2>2, <2>4, HandlerBase
  <1> QED
    BY <1>5, <1>6, <1>7

LEMMA BeginLinkIs ==
  ASSUME RunT, NEW h \in Handlers, NEW u \in Users,
         run' = [run EXCEPT ![h] = [Idle EXCEPT !.at = "inspect", !.user = {u}]]
  PROVE  /\ RunT' /\ Others(h) /\ Shaped(h)' /\ run'[h].at = "inspect" /\ run'[h].id = 0
         /\ run'[h].user # {} /\ ~run'[h].stale
  <1> DEFINE r == [Idle EXCEPT !.at = "inspect", !.user = {u}]
  <1>1. r \in Runs /\ r.at = "inspect" /\ r.user = {u} /\ r.id = 0 /\ ~r.stale
    BY DEF Idle, Runs, Steps
  <1>2. run' = [run EXCEPT ![h] = r]
    OBVIOUS
  <1> HIDE DEF r
  <1>3. RunT' /\ run'[h] = r /\ Others(h)
    BY <1>1, <1>2, BecomesIs
  <1>4. Shaped(h)'
    BY <1>1, <1>3 DEF Shaped, IsLink, IsDelivery, At
  <1> QED
    BY <1>1, <1>3, <1>4

\* Both ways to begin one.
Begins(h) ==
  /\ At(h, "idle") /\ Spend("links")
  /\ \E u \in Users : run' = [run EXCEPT ![h] = [Idle EXCEPT !.at = "inspect", !.user = {u}]]
  /\ UNCHANGED <<github, news, wire, table, account, listed, applied, acked, mishap, broken>>

LEMMA BothBegin == \A h : BeginLink(h) \/ Relink(h) => Begins(h)
  BY DEF BeginLink, Relink, Begins

LEMMA BeginLinkBase ==
  ASSUME Base, NEW h \in Handlers, Begins(h)
  PROVE  Base'
  <1>1. NewsT /\ WireT /\ TableT /\ AccountT /\ ListedT /\ RunT /\ AppliedT /\ NotesT
    BY TypedParts DEF Base
  <1>2. RunT' /\ Others(h) /\ Shaped(h)'
    BY <1>1, BeginLinkIs DEF Begins
  <1>3. WireT' /\ TableT' /\ AccountT' /\ ListedT' /\ AppliedT' /\ NotesT'
    BY <1>1 DEF Begins, WireT, TableT, AccountT, ListedT, AppliedT, NotesT
  <1>4. /\ UNCHANGED <<github, news>> /\ wire' \subseteq wire
        /\ \E what \in {"links", "redeliveries", "faults"} : Spend(what)
    BY DEF Begins
  <1> QED
    BY <1>2, <1>3, <1>4, HandlerBase

LEMMA InspectIs ==
  ASSUME Base, NEW h \in Handlers, Inspect(h)
  PROVE  /\ RunT' /\ Others(h) /\ Same(h) /\ IsLink(h) /\ run'[h].at = "upsert"
         /\ ~run'[h].stale
         /\ run'[h].found = IF github.suspended THEN {} ELSE github.repos
         /\ github.suspended => "blind" \in mishap'
         /\ mishap \subseteq mishap' /\ mishap' \subseteq mishap \cup Mishaps
  <1>1. RunT /\ GithubT /\ IsLink(h)
    BY TypedParts, OnlyLinks DEF Base, Inspect, At
  <1> DEFINE f == IF github.suspended THEN {} ELSE github.repos
             r == [run[h] EXCEPT !.at = "upsert", !.known = github.there, !.stale = FALSE,
                                 !.found = f]
  <1>2. f \in SUBSET Repos
    BY <1>1 DEF GithubT
  <1>3. run' = [run EXCEPT ![h] = r]
    BY <1>1 DEF Inspect, RunT
  <1> HIDE DEF f
  <1>4. r \in Runs /\ r.at = "upsert" /\ r.found = f /\ ~r.stale
        /\ r.id = run[h].id /\ r.user = run[h].user
    BY <1>1, <1>2 DEF RunT, Runs, Steps, GithubT
  <1> HIDE DEF r
  <1>5. RunT' /\ run'[h] = r /\ Others(h)
    BY <1>1, <1>3, <1>4, BecomesIs
  <1>6. /\ github.suspended => "blind" \in mishap'
        /\ mishap \subseteq mishap' /\ mishap' \subseteq mishap \cup Mishaps
    BY DEF Inspect, Note, Mishaps
  <1> QED
    BY <1>1, <1>4, <1>5, <1>6 DEF Same, f

LEMMA InspectFailsIs ==
  ASSUME Base, NEW h \in Handlers, InspectFails(h)
  PROVE  /\ RunT' /\ Others(h) /\ Same(h) /\ IsLink(h) /\ run'[h].at = "upsert"
         /\ run'[h].stale = run[h].stale
         /\ mishap' = mishap \cup {"blind"} /\ mishap' \subseteq mishap \cup Mishaps
  <1>1. RunT /\ GithubT /\ IsLink(h)
    BY TypedParts, OnlyLinks DEF Base, InspectFails, At
  <1>2. PICK known \in {FALSE, github.there} :
          run' = [run EXCEPT ![h].at = "upsert", ![h].known = known]
    BY DEF InspectFails
  <1> DEFINE r == [run[h] EXCEPT !.at = "upsert", !.known = known]
  <1>3. run' = [run EXCEPT ![h] = r]
    BY <1>1, <1>2 DEF RunT
  <1>4. known \in BOOLEAN
    BY <1>1 DEF GithubT
  <1>5. r \in Runs /\ r.at = "upsert" /\ r.stale = run[h].stale
        /\ r.id = run[h].id /\ r.user = run[h].user
    BY <1>1, <1>4 DEF RunT, Runs, Steps
  <1> HIDE DEF r
  <1>6. RunT' /\ run'[h] = r /\ Others(h)
    BY <1>1, <1>3, <1>5, BecomesIs
  <1>7. mishap' = mishap \cup {"blind"} /\ mishap' \subseteq mishap \cup Mishaps
    BY DEF InspectFails, Mishaps
  <1> QED
    BY <1>1, <1>5, <1>6, <1>7 DEF Same

LEMMA InspectBase ==
  ASSUME Base, NEW h \in Handlers, Inspect(h) \/ InspectFails(h)
  PROVE  Base'
  <1>1. NewsT /\ WireT /\ TableT /\ AccountT /\ ListedT /\ RunT /\ AppliedT /\ NotesT
    BY TypedParts DEF Base
  <1>2. RunT' /\ Others(h) /\ Same(h) /\ IsLink(h) /\ run'[h].at = "upsert"
        /\ mishap' \subseteq mishap \cup Mishaps
    BY InspectIs, InspectFailsIs
  <1>3. run[h].id = 0
    BY <1>2 DEF Base, AllShaped, Shaped
  <1>4. Shaped(h)'
    BY <1>2, <1>3 DEF Shaped, IsDelivery, IsLink, At, Same
  <1>5. UNCHANGED broken
    BY DEF Inspect, InspectFails
  <1>6. NotesT'
    BY <1>1, <1>2, <1>5, MishapIs
  <1>7. WireT' /\ TableT' /\ AccountT' /\ ListedT' /\ AppliedT'
    BY <1>1 DEF Inspect, InspectFails, WireT, TableT, AccountT, ListedT, AppliedT
  <1>8. /\ UNCHANGED <<github, news>> /\ wire' \subseteq wire
        /\ \/ UNCHANGED left
           \/ \E what \in {"links", "redeliveries", "faults"} : Spend(what)
    BY DEF Inspect, InspectFails
  <1> QED
    BY <1>2, <1>4, <1>6, <1>7, <1>8, HandlerBase

LEMMA UpsertIs ==
  ASSUME Base, NEW h \in Handlers, Upsert(h)
  PROVE  /\ RunT' /\ Others(h) /\ IsLink(h)
         /\ \/ run[h].found = {} /\ run'[h] = Idle
            \/ /\ run[h].found # {} /\ run'[h].at = "delete" /\ Same(h)
               /\ run'[h].found = run[h].found /\ run'[h].stale = run[h].stale
         /\ AccountT' /\ mishap \subseteq mishap' /\ mishap' \subseteq mishap \cup Mishaps
         /\ \A u \in Users :
              \/ account'[u] = account[u]
              \/ account'[u].linked /\ account'[u].suspended = account[u].suspended
  <1>1. RunT /\ AccountT /\ IsLink(h)
    BY TypedParts, OnlyLinks DEF Base, Upsert, At
  <1>2. RunT' /\ Others(h)
        /\ \/ run[h].found = {} /\ run'[h] = Idle
           \/ /\ run[h].found # {} /\ run'[h].at = "delete" /\ Same(h)
              /\ run'[h].found = run[h].found /\ run'[h].stale = run[h].stale
    <2>1. CASE run[h].found = {}
      BY <1>1, <2>1, EndIs DEF Upsert
    <2>2. CASE run[h].found # {}
      <3>1. Go(h, "delete") /\ "delete" \in Steps
        BY <2>2 DEF Upsert, Steps
      <3> QED
        BY <1>1, <2>2, <3>1, GoIs
    <2> QED
      BY <2>1, <2>2
  <1>3. run[h].known \in BOOLEAN
    BY <1>1 DEF RunT, Runs
  <1>4. account' = [u \in Users |->
                      IF u \in run[h].user
                      THEN [account[u] EXCEPT !.linked = TRUE, !.known = run[h].known]
                      ELSE account[u]]
    BY DEF Upsert
  <1>5. AccountT'
    BY <1>1, <1>3, <1>4 DEF AccountT
  <1>6. \A u \in Users :
          \/ account'[u] = account[u]
          \/ account'[u].linked /\ account'[u].suspended = account[u].suspended
    BY <1>1, <1>3, <1>4 DEF AccountT
  <1>7. mishap \subseteq mishap' /\ mishap' \subseteq mishap \cup Mishaps
    BY DEF Upsert, Mishaps
  <1> QED
    BY <1>1, <1>2, <1>5, <1>6, <1>7

LEMMA UpsertBase ==
  ASSUME Base, NEW h \in Handlers, Upsert(h)
  PROVE  Base'
  <1>1. NewsT /\ WireT /\ TableT /\ ListedT /\ RunT /\ AppliedT /\ NotesT
    BY TypedParts DEF Base
  <1>2. /\ RunT' /\ Others(h) /\ IsLink(h)
        /\ run'[h] = Idle \/ (run'[h].at = "delete" /\ Same(h))
        /\ AccountT' /\ mishap' \subseteq mishap \cup Mishaps
    BY UpsertIs
  <1>3. run[h].id = 0
    BY <1>2 DEF Base, AllShaped, Shaped
  <1>4. Shaped(h)'
    BY <1>2, <1>3, IdleIsShaped DEF Shaped, IsDelivery, IsLink, At, Same
  <1>5. UNCHANGED broken
    BY DEF Upsert
  <1>6. NotesT'
    BY <1>1, <1>2, <1>5, MishapIs
  <1>7. WireT' /\ TableT' /\ ListedT' /\ AppliedT'
    BY <1>1 DEF Upsert, WireT, TableT, ListedT, AppliedT
  <1>8. UNCHANGED <<github, news>> /\ wire' \subseteq wire /\ UNCHANGED left
    BY DEF Upsert
  <1> QED
    BY <1>2, <1>4, <1>6, <1>7, <1>8, HandlerBase

\* A handler that is through goes on: a link ends, a delivery is to be completed.
Through(h) ==
  \/ IsLink(h) /\ run'[h] = Idle
  \/ IsDelivery(h) /\ run'[h].at = "complete" /\ Same(h)

LEMMA EndedIs ==
  ASSUME RunT, NEW h \in Handlers, ~At(h, "idle"), Replaced(h, Ended(h))
  PROVE  /\ RunT' /\ Others(h) /\ Through(h)
         /\ \A g \in Handlers : g # h /\ HasRead(g) => run'[g].stale
  <1>1. CASE IsLink(h)
    <2>1. Ended(h) = Idle /\ Idle \in Runs
      BY <1>1, IdleIsRun DEF Ended
    <2> QED
      BY <1>1, <2>1, ReplacedIs DEF Through
  <1>2. CASE ~IsLink(h)
    <2> DEFINE r == [run[h] EXCEPT !.at = "complete"]
    <2>1. Ended(h) = r
      BY <1>2 DEF Ended
    <2>2. r \in Runs /\ r.at = "complete" /\ r.id = run[h].id /\ r.user = run[h].user
      BY DEF RunT, Runs, Steps
    <2> HIDE DEF r
    <2>3. RunT' /\ Others(h) /\ run'[h] = r
          /\ \A g \in Handlers : g # h /\ HasRead(g) => run'[g].stale
      BY <2>1, <2>2, ReplacedIs
    <2> QED
      BY <1>2, <2>2, <2>3 DEF Through, IsDelivery, Same
  <1> QED
    BY <1>1, <1>2

LEMMA DeleteIs ==
  ASSUME Base, NEW h \in Handlers, DeleteRows(h)
  PROVE  /\ RunT' /\ Others(h)
         /\ \A g \in Handlers : g # h /\ HasRead(g) => run'[g].stale
         /\ \/ run[h].found = {} /\ Through(h)
            \/ /\ run[h].found # {} /\ run'[h].at = "insert" /\ Same(h)
               /\ run'[h].found = run[h].found /\ run'[h].stale = run[h].stale
         /\ mishap \subseteq mishap' /\ mishap' \subseteq mishap \cup Mishaps
  <1>1. RunT /\ ~At(h, "idle")
    BY TypedParts DEF Base, DeleteRows, At
  <1>2. mishap \subseteq mishap' /\ mishap' \subseteq mishap \cup Mishaps
    BY DEF DeleteRows, Mishaps
  <1>3. CASE run[h].found = {}
    <2>1. Replaced(h, Ended(h))
      BY <1>3 DEF DeleteRows, Replaced
    <2> QED
      BY <1>1, <1>2, <1>3, <2>1, EndedIs
  <1>4. CASE run[h].found # {}
    <2> DEFINE r == [run[h] EXCEPT !.at = "insert"]
    <2>1. Replaced(h, r)
      BY <1>4 DEF DeleteRows, Replaced
    <2>2. r \in Runs /\ r.at = "insert" /\ r.id = run[h].id /\ r.user = run[h].user
          /\ r.found = run[h].found /\ r.stale = run[h].stale
      BY <1>1 DEF RunT, Runs, Steps
    <2> HIDE DEF r
    <2> QED
      BY <1>1, <1>2, <1>4, <2>1, <2>2, ReplacedIs DEF Same
  <1> QED
    BY <1>3, <1>4

LEMMA InsertIs ==
  ASSUME Base, NEW h \in Handlers, InsertRows(h)
  PROVE  /\ RunT' /\ Others(h) /\ Through(h)
         /\ \A g \in Handlers : g # h /\ HasRead(g) => run'[g].stale
         /\ mishap \subseteq mishap' /\ mishap' \subseteq mishap \cup Mishaps
  <1>1. RunT /\ ~At(h, "idle") /\ Replaced(h, Ended(h))
    BY TypedParts DEF Base, InsertRows, At
  <1>2. mishap \subseteq mishap' /\ mishap' \subseteq mishap \cup Mishaps
    BY DEF InsertRows, Mishaps
  <1> QED
    BY <1>1, <1>2, EndedIs

LEMMA ThroughShape ==
  ASSUME Base, NEW h \in Handlers, Through(h), UNCHANGED <<github, news>>
  PROVE  Shaped(h)'
  <1>1. CASE IsLink(h) /\ run'[h] = Idle
    BY <1>1, IdleIsShaped
  <1>2. CASE IsDelivery(h) /\ run'[h].at = "complete" /\ Same(h)
    <2>1. run[h].id \in 1..Len(news) /\ news' = news
      BY <1>2, DeliveryIs
    <2> QED
      BY <1>2, <2>1 DEF Shaped, IsDelivery, IsLink, At, Same
  <1> QED
    BY <1>1, <1>2 DEF Through

LEMMA ReplaceBase ==
  ASSUME Base, NEW h \in Handlers, DeleteRows(h) \/ InsertRows(h)
  PROVE  Base'
  <1>1. NewsT /\ WireT /\ TableT /\ AccountT /\ ListedT /\ RunT /\ AppliedT /\ NotesT
    BY TypedParts DEF Base
  <1>2. UNCHANGED <<github, news>> /\ UNCHANGED left /\ wire' \subseteq wire /\ UNCHANGED broken
    BY DEF DeleteRows, InsertRows
  <1>3. RunT' /\ Others(h) /\ mishap' \subseteq mishap \cup Mishaps
    BY DeleteIs, InsertIs
  <1>4. NotesT'
    BY <1>1, <1>2, <1>3, MishapIs
  <1>5. WireT' /\ TableT' /\ AccountT'
    BY <1>1 DEF DeleteRows, InsertRows, WireT, TableT, AccountT
  <1>6. ListedT'
    <2>1. CASE DeleteRows(h)
      BY <2>1 DEF DeleteRows, ListedT
    <2>2. CASE InsertRows(h)
      <3>1. run[h].found \subseteq Repos
        BY <1>1 DEF RunT, Runs
      <3>2. listed' = [u \in Users |-> IF account[u].linked /\ ~account[u].suspended
                                      THEN listed[u] \cup run[h].found ELSE listed[u]]
        BY <2>2 DEF InsertRows
      <3> QED
        BY <1>1, <3>1, <3>2 DEF ListedT
    <2> QED
      BY <2>1, <2>2
  <1>7. AppliedT'
    <2>1. ~IsLink(h) => run[h].id \in Ids
      BY DeliveryIs DEF DeleteRows, InsertRows, IsDelivery, At
    <2>2. (Apply(h) /\ ~IsLink(h)) \/ UNCHANGED applied
      BY DEF DeleteRows, InsertRows
    <2> QED
      BY <1>1, <2>1, <2>2, AppliedStays DEF AppliedT
  <1>8. Shaped(h)'
    <2>1. CASE Through(h)
      BY <1>2, <2>1, ThroughShape
    <2>2. CASE DeleteRows(h) /\ run'[h].at = "insert" /\ Same(h)
      <3>1. Shaped(h) /\ At(h, "delete")
        BY <2>2 DEF Base, AllShaped, DeleteRows
      <3>2. news' = news
        BY <1>2
      <3> QED
        BY <2>2, <3>1, <3>2 DEF Shaped, IsDelivery, IsLink, At, Same
    <2> QED
      BY <2>1, <2>2, DeleteIs, InsertIs
  <1> QED
    BY <1>2, <1>3, <1>4, <1>5, <1>6, <1>7, <1>8, HandlerBase

LEMMA StutterBase == ASSUME Base, UNCHANGED vars PROVE Base'
  <1>1. TypeOK'
    BY DEF Base, vars, TypeOK
  <1>2. Bounded' /\ AllShaped'
    BY DEF Base, vars, Bounded, AllShaped, Shaped, At, IsLink, IsDelivery
  <1> QED
    BY <1>1, <1>2 DEF Base

LEMMA BaseStays == ASSUME Base, [Next]_vars PROVE Base'
  <1>1. ASSUME NEW h \in Handlers, DeliveryStep(h) PROVE Base'
    BY <1>1, BeginBase, ProcessBase, FetchBase, CompleteBase, FailsBase DEF DeliveryStep
  <1>2. ASSUME NEW h \in Handlers, LinkStep(h) PROVE Base'
    BY <1>2, BothBegin, BeginLinkBase, InspectBase, UpsertBase, FailsBase DEF LinkStep
  <1> QED
    BY <1>1, <1>2, GithubBase, UnansweredBase, ReplaceBase, StutterBase DEF Next

LEMMA BaseAtFirst == ASSUME Init PROVE Base
  <1>1. PICK b \in Budgets : left = b
    BY DEF Init
  <1>2. left \in [changes : 0..MaxChanges, links : Nat, redeliveries : Nat, faults : Nat]
    BY <1>1, InstallationsAssumption
  <1>3. Bounded
    <2>1. Len(news) = 0 /\ wire = {}
      BY DEF Init
    <2>2. left \in [changes : Nat, links : Nat, redeliveries : Nat, faults : Nat]
          /\ left.changes <= MaxChanges /\ left.changes \in Nat
      BY <1>2, IdsAre
    <2> QED
      BY <2>1, <2>2 DEF Bounded
  <1>4. RunT /\ AllShaped
    <2>1. \A h \in Handlers : run[h] = Idle
      BY DEF Init
    <2>2. RunT
      BY IdleIsRun DEF Init, RunT
    <2> QED
      BY <2>1, <2>2, IdleIsRun DEF AllShaped, Shaped, At, IsLink, IsDelivery
  <1>5. NewsT
    BY IdsAre DEF Init, NewsT
  <1>6. GithubT /\ WireT /\ TableT /\ ListedT /\ AppliedT /\ NotesT
    BY DEF Init, GithubT, WireT, TableT, ListedT, AppliedT, NotesT
  <1>7. AccountT
    BY DEF Init, AccountT, NoAccount
  <1> QED
    BY <1>3, <1>4, <1>5, <1>6, <1>7, TypedParts DEF Base

----------------------------------------------------------------------------
\* The rows of the deliveries, and who is at them

Ledger == Claimed /\ AllRows /\ AllEffects

LEMMA HandlingIs ==
  ASSUME NEW n \in Ids
  PROVE  /\ Base => (Handling(n) <=> \E h \in Handlers : IsDelivery(h) /\ run[h].id = n)
         /\ Base' => (Handling(n)' <=> \E h \in Handlers : IsDelivery(h)' /\ run'[h].id = n)
  <1>1. n # 0
    BY IdsAre
  <1> QED
    BY <1>1, IdleIsRun
    DEF Handling, Base, AllShaped, Shaped, IsDelivery, IsLink, At

LEMMA KeptIs ==
  ASSUME NEW g \in Handlers, Kept(g)
  PROVE  /\ IsDelivery(g)' <=> IsDelivery(g)
         /\ run'[g].id = run[g].id
         /\ At(g, "complete")' <=> At(g, "complete")
  BY DEF Kept, IsDelivery, IsLink, At

\* The deliveries are handled as before, and none of them comes to completion.
SameWork(g) ==
  /\ IsDelivery(g)' <=> IsDelivery(g)
  /\ IsDelivery(g) => run'[g].id = run[g].id
  /\ At(g, "complete")' <=> At(g, "complete")

LEMMA SameWorkRests ==
  ASSUME NEW h \in Handlers, Others(h), SameWork(h)
  PROVE  \A g \in Handlers : SameWork(g)
  BY KeptIs DEF Others, SameWork

LEMMA OnlyDeliveriesComplete ==
  ASSUME Base, NEW h \in Handlers, At(h, "complete")
  PROVE  IsDelivery(h)
  BY OnlyDeliveries DEF At

LEMMA LedgerRests ==
  ASSUME Base, Base', Ledger, UNCHANGED <<table, applied, acked, broken>>, Longer,
         \A g \in Handlers : SameWork(g)
  PROVE  Ledger'
  <1>0. table' = table /\ applied' = applied /\ acked' = acked /\ broken' = broken
    OBVIOUS
  <1>1. Claimed'
    BY <1>0 DEF Claimed, Ledger, SameWork
  <1>2. ASSUME NEW n \in Ids PROVE Rows(n)'
    <2>1. Handling(n)' <=> Handling(n)
      BY HandlingIs DEF SameWork
    <2>2. Rows(n) /\ (n <= Len(news) => n <= Len(news'))
      <3>1. TypeOK /\ Len(news) \in Nat /\ Len(news') \in Nat /\ Len(news) <= Len(news')
        BY TypedParts DEF Base, NewsT, Longer
      <3> QED
        BY <3>1, IdsAre DEF Ledger, AllRows
    <2> QED
      BY <1>0, <2>1, <2>2 DEF Rows
  <1>3. ASSUME NEW h \in Handlers PROVE Effect(h)'
    <2>1. Effect(h) /\ SameWork(h) /\ (At(h, "complete") => IsDelivery(h))
      BY OnlyDeliveriesComplete DEF Ledger, AllEffects
    <2> QED
      BY <1>0, <2>1 DEF Effect, SameWork
  <1> QED
    BY <1>1, <1>2, <1>3 DEF Ledger, AllRows, AllEffects

\* A delivery takes effect.
LEMMA LedgerApplies ==
  ASSUME Base, Base', Ledger, NEW h \in Handlers, IsDelivery(h), ~At(h, "complete"),
         Apply(h), run'[h].at = "complete", Same(h), Others(h),
         UNCHANGED <<news, table, acked, broken>>
  PROVE  Ledger'
  <1> DEFINE n == run[h].id
  <1>0. table' = table /\ news' = news /\ acked' = acked /\ broken' = broken
    OBVIOUS
  <1>1. /\ n \in Ids /\ n \in 1..Len(news) /\ applied'[n] = applied[n] + 1
        /\ applied \in [Ids -> Nat]
        /\ \A m \in Ids : m # n => applied'[m] = applied[m]
    BY DeliveryIs, AppliedStays, TypedParts DEF Base, AppliedT
  <1>2. IsDelivery(h)' /\ run'[h].id = n /\ At(h, "complete")'
    BY DEF IsDelivery, IsLink, At, Same
  <1>3. \A g \in Handlers : g # h => SameWork(g)
    BY KeptIs DEF Others, SameWork
  <1>4. \A g \in Handlers :
          (IsDelivery(g)' <=> IsDelivery(g)) /\ (IsDelivery(g) => run'[g].id = run[g].id)
    BY <1>2, <1>3 DEF SameWork
  <1>5. Claimed'
    BY <1>0, <1>4 DEF Claimed, Ledger
  <1>6. applied[n] > 0 => <<"failed late", n>> \in broken
    BY DEF Ledger, AllEffects, Effect
  <1>7. ASSUME NEW m \in Ids PROVE Rows(m)'
    <2>1. Handling(m)' <=> Handling(m)
      BY HandlingIs, <1>4
    <2>2. Rows(m)
      BY DEF Ledger, AllRows
    <2>3. CASE m # n
      BY <1>0, <1>1, <2>1, <2>2, <2>3 DEF Rows
    <2>4. CASE m = n
      <3>1. table[n] = "processing" /\ applied[n] \in Nat
        BY <1>1 DEF Ledger, Claimed
      <3>2. applied'[n] > 0 /\ applied'[n] # 0 /\ (applied'[n] > 1 => applied[n] > 0)
        BY <1>1, <3>1
      <3>3. n <= Len(news')
        BY <1>0, <1>1
      <3> QED
        BY <1>0, <1>6, <2>1, <2>2, <2>4, <3>1, <3>2, <3>3 DEF Rows
    <2> QED
      BY <2>3, <2>4
  <1>8. ASSUME NEW g \in Handlers PROVE Effect(g)'
    <2>1. CASE g = h
      <3>1. applied'[n] > 0
        BY <1>1
      <3> QED
        BY <1>2, <2>1, <3>1 DEF Effect
    <2>2. CASE g # h
      <3>1. Effect(g) /\ SameWork(g) /\ (At(g, "complete") => IsDelivery(g))
        BY <1>3, <2>2, OnlyDeliveriesComplete DEF Ledger, AllEffects
      <3>2. IsDelivery(g) => run[g].id # n /\ run[g].id \in Ids
        BY <2>2, DeliveryIs DEF Ledger, Claimed
      <3>3. IsDelivery(g) => applied'[run[g].id] = applied[run[g].id]
        BY <1>1, <3>2
      <3> QED
        BY <1>0, <3>1, <3>3 DEF Effect, SameWork
    <2> QED
      BY <2>1, <2>2
  <1> QED
    BY <1>5, <1>7, <1>8 DEF Ledger, AllRows, AllEffects

LEMMA LedgerBegins ==
  ASSUME Base, Base', Ledger, NEW h \in Handlers, BeginWebhookDelivery(h)
  PROVE  Ledger'
  <1>0. /\ news' = news /\ applied' = applied /\ At(h, "idle") /\ ~IsDelivery(h)
    BY DEF BeginWebhookDelivery, IsDelivery
  <1>1. PICK n \in wire :
          n \in 1..Len(news) /\ n \in Ids /\ wire' = wire \ {n} /\ (Claim(h, n) \/ Duplicate(n))
    BY BeginIs
  <1>2. table \in [Ids -> {"none", "processing", "processed"}]
    BY TypedParts DEF Base, TableT
  <1>3. CASE Claim(h, n)
    <2>1. /\ table[n] = "none" /\ table'[n] = "processing"
          /\ \A m \in Ids : m # n => table'[m] = table[m]
          /\ acked' = acked /\ broken' = broken
      BY <1>2, <1>3, <1>1 DEF Claim
    <2>2. IsDelivery(h)' /\ run'[h].id = n /\ ~At(h, "complete")'
      BY <1>3 DEF Claim, IsDelivery, IsLink, At
    <2>3. \A g \in Handlers : g # h => SameWork(g)
      BY <1>3, KeptIs DEF Claim, Others, SameWork
    <2>4. \A g \in Handlers : IsDelivery(g) => run[g].id # n /\ run[g].id \in Ids
      BY <2>1, DeliveryIs DEF Ledger, Claimed
    <2>5. Claimed'
      <3>1. ASSUME NEW g \in Handlers, IsDelivery(g)'
            PROVE  table'[run'[g].id] = "processing" /\ (g # h => run'[g].id # n)
        BY <2>1, <2>2, <2>3, <2>4, <3>1 DEF SameWork, Ledger, Claimed
      <3>2. ASSUME NEW f \in Handlers, NEW g \in Handlers,
                   IsDelivery(f)', IsDelivery(g)', run'[f].id = run'[g].id
            PROVE  f = g
        BY <2>2, <2>3, <3>1, <3>2 DEF SameWork, Ledger, Claimed
      <3> QED
        BY <3>1, <3>2 DEF Claimed
    <2>6. ASSUME NEW m \in Ids PROVE Rows(m)'
      <3>1. Handling(m) => Handling(m)'
        BY HandlingIs, <1>0, <2>3 DEF SameWork
      <3>2. Handling(n)'
        BY HandlingIs, <1>1, <2>2
      <3>3. Rows(m)
        BY DEF Ledger, AllRows
      <3> QED
        BY <1>0, <2>1, <3>1, <3>2, <3>3 DEF Rows
    <2>7. ASSUME NEW g \in Handlers PROVE Effect(g)'
      <3>1. CASE g = h
        <4>1. applied[n] > 0 => <<"failed late", n>> \in broken
          BY <1>1, <2>1 DEF Ledger, AllRows, Rows
        <4> QED
          BY <1>0, <2>1, <2>2, <3>1, <4>1 DEF Effect
      <3>2. CASE g # h
        <4>1. Effect(g) /\ SameWork(g) /\ (At(g, "complete") => IsDelivery(g))
          BY <2>3, <3>2, OnlyDeliveriesComplete DEF Ledger, AllEffects
        <4> QED
          BY <1>0, <2>1, <4>1 DEF Effect, SameWork
      <3> QED
        BY <3>1, <3>2
    <2> QED
      BY <2>5, <2>6, <2>7 DEF Ledger, AllRows, AllEffects
  <1>4. CASE Duplicate(n)
    <2>1. /\ table[n] # "none" /\ table' = table /\ run' = run
          /\ acked' = acked \cup {n} /\ broken \subseteq broken'
          /\ Handling(n) => <<"acked early", n>> \in broken'
      BY <1>4 DEF Duplicate
    <2>2. \A g \in Handlers : (IsDelivery(g)' <=> IsDelivery(g)) /\ (At(g, "complete")' <=> At(g, "complete"))
      BY <2>1 DEF IsDelivery, IsLink, At
    <2>3. Claimed'
      BY <2>1, <2>2 DEF Ledger, Claimed
    <2>4. ASSUME NEW m \in Ids PROVE Rows(m)'
      <3>1. Rows(m) /\ (Handling(m)' <=> Handling(m)) /\ table[m] \in {"none", "processing", "processed"}
        BY <1>2, <2>1 DEF Ledger, AllRows, Handling
      <3>2. m \in acked' /\ applied[m] = 0 =>
              {<<"crashed", m>>, <<"acked early", m>>, <<"claim unanswered", m>>} \cap broken' # {}
        <4>1. CASE m # n
          BY <2>1, <3>1, <4>1 DEF Rows
        <4>2. CASE m = n
          <5>1. table[n] \in {"processing", "processed"}
            BY <2>1, <3>1, <4>2
          <5>2. CASE table[n] = "processing"
            BY <2>1, <3>1, <4>2, <5>2 DEF Rows
          <5>3. CASE table[n] = "processed"
            <6>1. applied[n] > 0
              BY <3>1, <4>2, <5>3 DEF Rows
            <6>2. applied[n] # 0
              BY <6>1
            <6> QED
              BY <4>2, <6>2
          <5> QED
            BY <5>1, <5>2, <5>3
        <4> QED
          BY <4>1, <4>2
      <3> QED
        BY <1>0, <2>1, <3>1, <3>2 DEF Rows
    <2>5. AllEffects'
      BY <1>0, <2>1, <2>2 DEF Ledger, AllEffects, Effect
    <2> QED
      BY <2>3, <2>4, <2>5 DEF Ledger, AllRows
  <1> QED
    BY <1>1, <1>3, <1>4

LEMMA LedgerUnanswered ==
  ASSUME Base, Base', Ledger, ClaimUnanswered
  PROVE  Ledger'
  <1>1. PICK n \in wire :
          /\ n \in 1..Len(news) /\ n \in Ids /\ wire' = wire \ {n} /\ table[n] = "none"
          /\ table' = [table EXCEPT ![n] = "processing"]
          /\ acked' \subseteq acked \cup {n}
          /\ broken' = broken \cup {<<"claim unanswered", n>>}
    BY UnansweredIs
  <1>2. news' = news /\ run' = run /\ applied' = applied
    BY UnansweredIs
  <1>3. TableT
    BY TypedParts DEF Base
  <1>4. /\ table'[n] = "processing" /\ \A m \in Ids : m # n => table'[m] = table[m]
        /\ broken \subseteq broken' /\ <<"claim unanswered", n>> \in broken'
    BY <1>1, <1>3 DEF TableT
  <1>5. \A g \in Handlers : (IsDelivery(g)' <=> IsDelivery(g)) /\ (At(g, "complete")' <=> At(g, "complete"))
    BY <1>2 DEF IsDelivery, IsLink, At
  <1>6. Claimed'
    <2>1. \A g \in Handlers : IsDelivery(g) => run[g].id \in Ids /\ table'[run[g].id] = "processing"
      BY <1>4, DeliveryIs DEF Ledger, Claimed
    <2> QED
      BY <1>2, <1>5, <2>1 DEF Ledger, Claimed
  <1>7. ASSUME NEW m \in Ids PROVE Rows(m)'
    <2>1. Rows(m) /\ (Handling(m)' <=> Handling(m))
      BY <1>2 DEF Ledger, AllRows, Handling
    <2>2. CASE m = n
      BY <1>1, <1>2, <1>4, <2>1, <2>2 DEF Rows
    <2>3. CASE m # n
      BY <1>1, <1>2, <1>4, <2>1, <2>3 DEF Rows
    <2> QED
      BY <2>2, <2>3
  <1>8. AllEffects'
    BY <1>2, <1>4, <1>5 DEF Ledger, AllEffects, Effect
  <1> QED
    BY <1>6, <1>7, <1>8 DEF Ledger, AllRows

\* The handler of a delivery is done with it.
LEMMA LedgerEnds ==
  ASSUME Base, Base', Ledger, NEW h \in Handlers, IsDelivery(h),
         run'[h] = Idle, Others(h), UNCHANGED <<news, applied>>,
         \A n \in Ids : n # run[h].id => table'[n] = table[n],
         acked' \subseteq acked \cup {run[h].id}, broken \subseteq broken',
         LET n == run[h].id IN
           \/ table'[n] = "processed" /\ applied[n] > 0
           \/ /\ table'[n] = "none" /\ acked' = acked
              /\ applied[n] > 0 => <<"failed late", n>> \in broken
           \/ table' = table /\ acked' = acked /\ <<"crashed", n>> \in broken'
  PROVE  Ledger'
  <1> DEFINE n == run[h].id
  <1>0. applied' = applied /\ news' = news
    OBVIOUS
  <1>1. n \in Ids /\ table[n] = "processing" /\ applied \in [Ids -> Nat]
    BY DeliveryIs, TypedParts DEF Base, AppliedT, Ledger, Claimed
  <1>2. ~IsDelivery(h)' /\ ~At(h, "complete")'
    BY IdleIsRun DEF IsDelivery, At
  <1>3. \A g \in Handlers : g # h => SameWork(g)
    BY KeptIs DEF Others, SameWork
  <1>4. \A g \in Handlers : IsDelivery(g) /\ g # h => run[g].id # n /\ run[g].id \in Ids
    BY DeliveryIs DEF Ledger, Claimed
  <1>5. Claimed'
    <2>1. ASSUME NEW g \in Handlers, IsDelivery(g)'
          PROVE  g # h /\ IsDelivery(g) /\ run'[g].id = run[g].id
      BY <1>2, <1>3, <2>1 DEF SameWork
    <2>2. ASSUME NEW g \in Handlers, IsDelivery(g)'
          PROVE  table'[run'[g].id] = "processing"
      BY <1>4, <2>1, <2>2 DEF Ledger, Claimed
    <2>3. ASSUME NEW f \in Handlers, NEW g \in Handlers,
                 IsDelivery(f)', IsDelivery(g)', run'[f].id = run'[g].id
          PROVE  f = g
      BY <2>1, <2>3 DEF Ledger, Claimed
    <2> QED
      BY <2>2, <2>3 DEF Claimed
  <1>6. ASSUME NEW m \in Ids PROVE Rows(m)'
    <2>1. Rows(m) /\ applied[m] \in Nat
      BY <1>1 DEF Ledger, AllRows
    <2>2. CASE m # n
      <3>1. Handling(m) => Handling(m)'
        BY HandlingIs, <1>3, <2>2 DEF SameWork
      <3>2. table'[m] = table[m] /\ (m \in acked' => m \in acked)
        BY <2>2
      <3> QED
        BY <1>0, <2>1, <3>1, <3>2 DEF Rows
    <2>3. CASE m = n
      <3>1. CASE table'[n] = "processed" /\ applied[n] > 0
        <4>1. applied'[m] # 0 /\ applied'[m] > 0
          BY <1>0, <2>3, <3>1
        <4>2. applied'[m] > 1 => <<"failed late", m>> \in broken'
          BY <1>0, <2>1 DEF Rows
        <4>3. m <= Len(news')
          BY <1>0, <2>1, <4>1 DEF Rows
        <4>4. table'[m] = "processed"
          BY <2>3, <3>1
        <4> QED
          BY <4>1, <4>2, <4>3, <4>4 DEF Rows
      <3>2. CASE /\ table'[n] = "none" /\ acked' = acked
                 /\ applied[n] > 0 => <<"failed late", n>> \in broken
        BY <1>0, <2>1, <2>3, <3>2 DEF Rows
      <3>3. CASE table' = table /\ acked' = acked /\ <<"crashed", n>> \in broken'
        BY <1>0, <1>1, <2>1, <2>3, <3>3 DEF Rows
      <3> QED
        BY <3>1, <3>2, <3>3
    <2> QED
      BY <2>2, <2>3
  <1>7. ASSUME NEW g \in Handlers PROVE Effect(g)'
    <2>1. CASE g = h
      BY <1>2, <2>1 DEF Effect
    <2>2. CASE g # h
      <3>1. Effect(g) /\ SameWork(g) /\ (At(g, "complete") => IsDelivery(g))
        BY <1>3, <2>2, OnlyDeliveriesComplete DEF Ledger, AllEffects
      <3> QED
        BY <1>0, <3>1 DEF Effect, SameWork
    <2> QED
      BY <2>1, <2>2
  <1> QED
    BY <1>5, <1>6, <1>7 DEF Ledger, AllRows, AllEffects

LEMMA LedgerFails ==
  ASSUME Base, Base', Ledger, NEW h \in Handlers, DeliveryFails(h)
  PROVE  Ledger'
  <1> DEFINE n == run[h].id
  <1>0. /\ table' = table /\ applied' = applied /\ acked' = acked /\ news' = news
        /\ broken \subseteq broken'
        /\ applied[n] > 0 => <<"failed late", n>> \in broken'
    BY DEF DeliveryFails
  <1>1. RunT /\ Go(h, "release") /\ "release" \in Steps /\ IsDelivery(h)
    BY TypedParts DEF Base, DeliveryFails, Steps, IsDelivery, At
  <1>2. run'[h].at = "release" /\ Same(h) /\ Others(h)
    BY <1>1, GoIs
  <1>3. IsDelivery(h)' /\ run'[h].id = n /\ ~At(h, "complete")'
    BY <1>1, <1>2 DEF IsDelivery, IsLink, At, Same
  <1>4. \A g \in Handlers : g # h => SameWork(g)
    BY <1>2, KeptIs DEF Others, SameWork
  <1>5. \A g \in Handlers :
          (IsDelivery(g)' <=> IsDelivery(g)) /\ (IsDelivery(g) => run'[g].id = run[g].id)
    BY <1>1, <1>3, <1>4 DEF SameWork
  <1>6. Claimed'
    BY <1>0, <1>5 DEF Claimed, Ledger
  <1>7. ASSUME NEW m \in Ids PROVE Rows(m)'
    <2>1. Rows(m) /\ (Handling(m)' <=> Handling(m))
      BY <1>5, HandlingIs DEF Ledger, AllRows
    <2> QED
      BY <1>0, <2>1 DEF Rows
  <1>8. ASSUME NEW g \in Handlers PROVE Effect(g)'
    <2>1. CASE g = h
      BY <1>0, <1>3, <2>1 DEF Effect
    <2>2. CASE g # h
      <3>1. Effect(g) /\ SameWork(g) /\ (At(g, "complete") => IsDelivery(g))
        BY <1>4, <2>2, OnlyDeliveriesComplete DEF Ledger, AllEffects
      <3> QED
        BY <1>0, <3>1 DEF Effect, SameWork
    <2> QED
      BY <2>1, <2>2
  <1> QED
    BY <1>6, <1>7, <1>8 DEF Ledger, AllRows, AllEffects

LEMMA LedgerProcesses ==
  ASSUME Base, Base', Ledger, NEW h \in Handlers, ProcessInstallationEvent(h)
  PROVE  Ledger'
  <1>1. RunT /\ Go(h, "complete") /\ "complete" \in Steps /\ IsDelivery(h) /\ ~At(h, "complete")
    BY TypedParts, OnlyDeliveries DEF Base, ProcessInstallationEvent, Steps, At
  <1>2. run'[h].at = "complete" /\ Same(h) /\ Others(h)
    BY <1>1, GoIs
  <1>3. Apply(h) /\ UNCHANGED <<news, table, acked, broken>>
    BY DEF ProcessInstallationEvent
  <1> QED
    BY <1>1, <1>2, <1>3, LedgerApplies

LEMMA LedgerFetches ==
  ASSUME Base, Base', Ledger, NEW h \in Handlers, FetchInstallationRepositories(h)
  PROVE  Ledger'
  <1>1. Others(h) /\ Same(h) /\ IsDelivery(h) /\ run'[h].at \in {"delete", "release"}
    BY FetchIs
  <1>2. SameWork(h)
    BY <1>1 DEF SameWork, IsDelivery, IsLink, At, Same, FetchInstallationRepositories
  <1>3. UNCHANGED <<table, applied, acked, broken>> /\ UNCHANGED news
    BY DEF FetchInstallationRepositories
  <1>4. Longer
    BY <1>3, NewsStill, TypedParts DEF Base
  <1> QED
    BY <1>1, <1>2, <1>3, <1>4, SameWorkRests, LedgerRests

LEMMA LedgerCloses ==
  ASSUME Base, Base', Ledger, NEW h \in Handlers,
         Complete(h) \/ CompleteUnanswered(h) \/ ReleaseWebhookDelivery(h) \/ Crash(h)
  PROVE  Ledger'
  <1> DEFINE n == run[h].id
  <1>1. RunT /\ TableT /\ End(h) /\ IsDelivery(h)
    BY TypedParts, OnlyDeliveries
    DEF Base, Complete, CompleteUnanswered, ReleaseWebhookDelivery, Crash, At, IsDelivery
  <1>2. run'[h] = Idle /\ Others(h) /\ UNCHANGED <<news, applied>>
    BY <1>1, EndIs DEF Complete, CompleteUnanswered, ReleaseWebhookDelivery, Crash
  <1>3. n \in Ids /\ Effect(h) /\ table[n] = "processing"
    BY <1>1, DeliveryIs DEF Ledger, AllEffects, Claimed
  <1>4. CASE Complete(h) \/ CompleteUnanswered(h)
    <2>1. /\ table'[n] = "processed" /\ applied[n] > 0
          /\ \A m \in Ids : m # n => table'[m] = table[m]
          /\ acked' \subseteq acked \cup {n} /\ broken \subseteq broken'
      BY <1>1, <1>3, <1>4 DEF Complete, CompleteUnanswered, TableT, Effect
    <2> QED
      BY <1>1, <1>2, <2>1, LedgerEnds
  <1>5. CASE ReleaseWebhookDelivery(h)
    <2>1. /\ table'[n] = "none" /\ acked' = acked
          /\ \A m \in Ids : m # n => table'[m] = table[m]
          /\ acked' \subseteq acked \cup {n} /\ broken \subseteq broken'
      BY <1>1, <1>3, <1>5 DEF ReleaseWebhookDelivery, TableT
    <2>2. applied[n] > 0 => <<"failed late", n>> \in broken
      BY <1>1, <1>3, <1>5 DEF ReleaseWebhookDelivery, Effect, At
    <2> QED
      BY <1>1, <1>2, <2>1, <2>2, LedgerEnds
  <1>6. CASE Crash(h)
    <2>1. /\ table' = table /\ acked' = acked /\ <<"crashed", n>> \in broken'
          /\ \A m \in Ids : m # n => table'[m] = table[m]
          /\ acked' \subseteq acked \cup {n} /\ broken \subseteq broken'
      BY <1>6 DEF Crash
    <2> QED
      BY <1>1, <1>2, <2>1, LedgerEnds
  <1> QED
    BY <1>4, <1>5, <1>6

LEMMA LinksLeaveLedger ==
  ASSUME Base, Base', Ledger, NEW h \in Handlers, LinkStep(h)
  PROVE  Ledger'
  <1>1. UNCHANGED <<table, applied, acked, broken>> /\ UNCHANGED news
    BY BothBegin DEF LinkStep, Begins, Inspect, InspectFails, Upsert, LinkFails
  <1>2. RunT /\ Longer
    BY <1>1, NewsStill, TypedParts DEF Base
  <1>3. ASSUME ~IsDelivery(h), ~IsDelivery(h)', Others(h) PROVE Ledger'
    <2>1. ~At(h, "complete") /\ ~At(h, "complete")'
      BY <1>3, OnlyDeliveriesComplete DEF Base, AllShaped, Shaped, IsDelivery, IsLink, At
    <2>2. SameWork(h)
      BY <1>3, <2>1 DEF SameWork
    <2> QED
      BY <1>1, <1>2, <1>3, <2>2, SameWorkRests, LedgerRests
  <1>4. CASE Begins(h)
    <2>1. PICK u \in Users : run' = [run EXCEPT ![h] = [Idle EXCEPT !.at = "inspect", !.user = {u}]]
      BY <1>4 DEF Begins
    <2>2. Others(h) /\ run'[h].user # {}
      BY <1>2, <2>1, BeginLinkIs
    <2> QED
      BY <1>3, <1>4, <2>2 DEF Begins, IsDelivery, IsLink, At
  <1>5. CASE Inspect(h) \/ InspectFails(h)
    <2>1. Others(h) /\ Same(h) /\ IsLink(h)
      BY <1>5, InspectIs, InspectFailsIs
    <2> QED
      BY <1>3, <2>1 DEF IsDelivery, IsLink, Same
  <1>6. CASE Upsert(h)
    <2>1. Others(h) /\ IsLink(h) /\ (run'[h] = Idle \/ Same(h))
      BY <1>6, UpsertIs
    <2> QED
      BY <1>3, <2>1, IdleIsRun DEF IsDelivery, IsLink, Same, At
  <1>7. CASE LinkFails(h)
    <2>1. Others(h) /\ IsLink(h) /\ run'[h] = Idle
      BY <1>2, <1>7, EndIs DEF LinkFails
    <2> QED
      BY <1>3, <2>1, IdleIsRun DEF IsDelivery, At
  <1> QED
    BY <1>4, <1>5, <1>6, <1>7, BothBegin DEF LinkStep

LEMMA LedgerReplaces ==
  ASSUME Base, Base', Ledger, NEW h \in Handlers, DeleteRows(h) \/ InsertRows(h)
  PROVE  Ledger'
  <1>1. /\ UNCHANGED <<news, table, acked, broken>> /\ news' = news /\ table' = table
        /\ acked' = acked /\ broken' = broken /\ ~At(h, "complete") /\ ~At(h, "idle")
    BY DEF DeleteRows, InsertRows, At
  <1>2. Longer
    BY <1>1, NewsStill, TypedParts DEF Base
  <1>3. Others(h)
    BY DeleteIs, InsertIs
  <1>4. CASE IsDelivery(h) /\ Through(h)
    <2>1. Apply(h)
      <3>1. CASE DeleteRows(h)
        <4>1. run[h].found = {}
          <5>1. run'[h].at = "complete"
            BY <1>4 DEF Through, IsDelivery
          <5> QED
            BY <3>1, <5>1, DeleteIs
        <4> QED
          BY <1>4, <3>1, <4>1 DEF DeleteRows, IsDelivery
      <3>2. CASE InsertRows(h)
        BY <1>4, <3>2 DEF InsertRows, IsDelivery
      <3> QED
        BY <3>1, <3>2
    <2>2. run'[h].at = "complete" /\ Same(h)
      BY <1>4 DEF Through, IsDelivery
    <2> QED
      BY <1>1, <1>3, <1>4, <2>1, <2>2, LedgerApplies
  <1>5. CASE ~(IsDelivery(h) /\ Through(h))
    <2>1. SameWork(h) /\ applied' = applied
      <3>1. CASE IsLink(h) /\ Through(h)
        <4>1. run'[h] = Idle /\ ~IsDelivery(h)
          BY <3>1 DEF Through, IsDelivery
        <4> QED
          BY <1>1, <3>1, <4>1, IdleIsRun DEF SameWork, IsDelivery, At, DeleteRows, InsertRows
      <3>2. CASE /\ DeleteRows(h) /\ run[h].found # {}
                 /\ run'[h].at = "insert" /\ Same(h)
        BY <1>1, <3>2 DEF SameWork, IsDelivery, IsLink, At, DeleteRows, Same
      <3>3. Through(h) => IsLink(h)
        BY <1>5 DEF Through
      <3> QED
        BY <3>1, <3>2, <3>3, DeleteIs, InsertIs
    <2>2. UNCHANGED <<table, applied, acked, broken>>
      BY <1>1, <2>1
    <2> QED
      BY <1>2, <1>3, <2>1, <2>2, SameWorkRests, LedgerRests
  <1> QED
    BY <1>4, <1>5

LEMMA GithubLeavesLedger ==
  ASSUME Base, Base', Ledger, GithubStep
  PROVE  Ledger'
  <1>1. UNCHANGED <<table, applied, acked, broken>>
    BY DEF GithubStep, ChangeRepos, Suspend, Uninstall, Redeliver, NotDelivered
  <1>2. Longer /\ \A g \in Handlers : Kept(g)
    BY GithubIs
  <1>3. \A g \in Handlers : SameWork(g)
    BY <1>2, KeptIs DEF SameWork
  <1> QED
    BY <1>1, <1>2, <1>3, LedgerRests

LEMMA LedgerStays == ASSUME Base, Base', Ledger, [Next]_vars PROVE Ledger'
  <1>1. ASSUME NEW h \in Handlers, DeliveryStep(h) PROVE Ledger'
    BY <1>1, LedgerBegins, LedgerProcesses, LedgerFetches, LedgerCloses, LedgerFails
    DEF DeliveryStep
  <1>2. CASE UNCHANGED vars
    BY <1>2 DEF vars, Ledger, Claimed, AllRows, Rows, AllEffects, Effect, IsDelivery, IsLink,
                At, Handling
  <1> QED
    BY <1>1, <1>2, LinksLeaveLedger, LedgerReplaces, GithubLeavesLedger, LedgerUnanswered
    DEF Next

LEMMA LedgerAtFirst == ASSUME Init PROVE Ledger
  BY IdleIsRun
  DEF Init, Ledger, Claimed, AllRows, Rows, AllEffects, Effect, IsDelivery, At

----------------------------------------------------------------------------
\* The accounts and the suspension at GitHub

Accounts == Told /\ NoGhosts /\ AsSuspended

LEMMA KnownThen ==
  ASSUME NEW events, news' = news, KnownOf(events)',
         \A n \in 1..Len(news) : news[n] \in events => applied'[n] = applied[n]
  PROVE  KnownOf(events)
  BY DEF KnownOf

\* A step that leaves the accounts alone; it may let a change of the repositories count.
LEMMA AccountsRest ==
  ASSUME Base, Accounts, UNCHANGED <<github, news, account>>, mishap \subseteq mishap',
         \A n \in 1..Len(news) : news[n] # "repositories" => applied'[n] = applied[n]
  PROVE  Accounts'
  <1>0. github' = github /\ news' = news /\ account' = account /\ NewsT /\ Len(news) \in Nat
    BY TypedParts DEF Base, NewsT
  <1>1. Told'
    BY <1>0 DEF Accounts, Told
  <1>2. NoGhosts'
    <2>1. ~github.there => applied'[Len(news)] = applied[Len(news)]
      BY <1>0 DEF Accounts, Told
    <2> QED
      BY <1>0, <2>1 DEF Accounts, NoGhosts
  <1>3. AsSuspended'
    <2>1. KnownOf(Suspensions)' => KnownOf(Suspensions)
      BY <1>0 DEF KnownOf, Suspensions
    <2> QED
      BY <1>0, <2>1 DEF Accounts, AsSuspended
  <1> QED
    BY <1>1, <1>2, <1>3 DEF Accounts

\* What has not been announced has not been applied.
LEMMA NewIsUnknown ==
  ASSUME Base, Ledger, NEW event \in Events, Announce(event)
  PROVE  /\ Len(news) \in Nat /\ Len(news') = Len(news) + 1 /\ news'[Len(news) + 1] = event
         /\ \A n \in 1..Len(news) : news'[n] = news[n]
         /\ Len(news) + 1 \in Ids /\ ~(applied[Len(news) + 1] > 0)
  <1>1. NewsT /\ WireT /\ Bounded /\ Len(news) \in Nat /\ AppliedT
    BY TypedParts DEF Base, NewsT
  <1>2. /\ NewsT' /\ wire' \subseteq Ids /\ Longer /\ wire' = wire \cup {Len(news) + 1}
        /\ Len(news') = Len(news) + 1 /\ news'[Len(news) + 1] = event
    BY <1>1, AnnounceIs DEF WireT
  <1>3. Len(news) + 1 \in Ids
    BY <1>2
  <1>4. ~(applied[Len(news) + 1] > 0)
    <2>1. applied[Len(news) + 1] > 0 => Len(news) + 1 <= Len(news)
      BY <1>3 DEF Ledger, AllRows, Rows
    <2> QED
      BY <1>1, <2>1
  <1> QED
    BY <1>1, <1>2, <1>3, <1>4 DEF Longer

LEMMA AccountsAtGithub ==
  ASSUME Base, Ledger, Accounts, GithubStep
  PROVE  Accounts'
  <1>1. GithubT
    BY TypedParts DEF Base
  <1>2. account' = account /\ applied' = applied /\ mishap' = mishap
    BY DEF GithubStep, ChangeRepos, Suspend, Uninstall, Redeliver, NotDelivered
  <1>3. CASE ChangeRepos
    <2>1. /\ github.there /\ github'.there /\ github'.suspended = github.suspended
          /\ Announce("repositories")
      BY <1>1, <1>3 DEF ChangeRepos, GithubT
    <2>2. /\ Len(news) \in Nat /\ Len(news') = Len(news) + 1
          /\ news'[Len(news) + 1] = "repositories"
          /\ \A n \in 1..Len(news) : news'[n] = news[n]
      BY <2>1, NewIsUnknown DEF Events
    <2>3. Told'
      <3>1. \A n \in 1..Len(news') : n \in 1..Len(news) \/ n = Len(news) + 1
        BY <2>2
      <3>2. \A n \in 1..Len(news) : n \in 1..Len(news')
        BY <2>2
      <3> QED
        BY <2>1, <2>2, <3>1, <3>2 DEF Accounts, Told, Suspensions
    <2>4. NoGhosts'
      BY <2>1 DEF NoGhosts
    <2>5. KnownOf(Suspensions)' => KnownOf(Suspensions)
      BY <1>2, <2>2 DEF KnownOf
    <2>6. AsSuspended'
      BY <1>2, <2>1, <2>5 DEF Accounts, AsSuspended
    <2> QED
      BY <2>3, <2>4, <2>6 DEF Accounts
  <1>4. CASE Suspend
    <2> DEFINE event == IF github.suspended THEN "unsuspend" ELSE "suspend"
    <2>1. /\ github.there /\ github'.there /\ github'.suspended = ~github.suspended
          /\ Announce(event)
      BY <1>1, <1>4 DEF Suspend, GithubT
    <2>2. event \in Events /\ event \in Suspensions /\ event # "deleted"
          /\ (~github.suspended) = (event = "suspend")
      BY <1>1 DEF Events, Suspensions, GithubT
    <2> HIDE DEF event
    <2>3. /\ Len(news) \in Nat /\ Len(news') = Len(news) + 1 /\ news'[Len(news) + 1] = event
          /\ \A n \in 1..Len(news) : news'[n] = news[n]
          /\ ~(applied[Len(news) + 1] > 0) /\ Len(news) + 1 \in 1..Len(news')
      BY <2>1, <2>2, NewIsUnknown
    <2>4. Told'
      <3>1. ASSUME NEW n \in 1..Len(news')
            PROVE  /\ news'[n] # "deleted"
                   /\ news'[n] \in Suspensions
                      /\ (\A m \in 1..Len(news') : m > n => news'[m] \notin Suspensions)
                      => github'.suspended = (news'[n] = "suspend")
        <4>1. CASE n = Len(news) + 1
          BY <2>1, <2>2, <2>3, <4>1
        <4>2. CASE n # Len(news) + 1
          <5>1. n \in 1..Len(news) /\ Len(news) + 1 > n
            BY <2>3, <4>2
          <5>2. news'[n] # "deleted"
            BY <2>1, <2>3, <5>1 DEF Accounts, Told
          <5> QED
            BY <2>2, <2>3, <5>1, <5>2
        <4> QED
          BY <4>1, <4>2
      <3> QED
        BY <2>1, <3>1 DEF Told
    <2>5. NoGhosts'
      BY <2>1 DEF NoGhosts
    <2>6. ~KnownOf(Suspensions)'
      BY <1>2, <2>2, <2>3 DEF KnownOf
    <2> QED
      BY <2>4, <2>5, <2>6 DEF Accounts, AsSuspended
  <1>5. CASE Uninstall
    <2>1. ~github'.there /\ Announce("deleted")
      BY <1>5 DEF Uninstall
    <2>2. /\ Len(news) \in Nat /\ Len(news') = Len(news) + 1
          /\ news'[Len(news) + 1] = "deleted" /\ ~(applied[Len(news) + 1] > 0)
      BY <2>1, NewIsUnknown DEF Events
    <2>3. Told' /\ NoGhosts'
      BY <1>2, <2>1, <2>2 DEF Told, NoGhosts
    <2> QED
      BY <2>1, <2>3 DEF Accounts, AsSuspended
  <1>6. CASE Redeliver \/ NotDelivered
    <2>1. UNCHANGED <<github, news, account>> /\ mishap \subseteq mishap'
      BY <1>2, <1>6 DEF Redeliver, NotDelivered
    <2> QED
      BY <1>2, <2>1, AccountsRest
  <1> QED
    BY <1>3, <1>4, <1>5, <1>6 DEF GithubStep

\* An event takes effect.
LEMMA AccountsProcess ==
  ASSUME Base, Ledger, Accounts, NEW h \in Handlers, ProcessInstallationEvent(h)
  PROVE  Accounts'
  <1> DEFINE n == run[h].id
  <1>1. GithubT /\ NewsT /\ AccountT /\ AppliedT /\ Shaped(h) /\ Len(news) \in Nat
    BY TypedParts DEF Base, AllShaped, NewsT
  <1>2. IsDelivery(h) /\ n \in Ids /\ n \in 1..Len(news) /\ news[n] \in Events
    BY OnlyDeliveries, DeliveryIs DEF ProcessInstallationEvent, At
  <1>3. news[n] # "repositories"
    BY <1>1, <1>2 DEF Shaped, ProcessInstallationEvent, At
  <1>4. /\ github' = github /\ news' = news /\ Apply(h) /\ mishap \subseteq mishap'
        /\ Later(h) # {} => "disorder" \in mishap'
    BY DEF ProcessInstallationEvent, Note
  <1>5. /\ applied'[n] = applied[n] + 1
        /\ \A m \in Ids : m # n => applied'[m] = applied[m]
    BY <1>1, <1>2, <1>4, AppliedStays
  <1>6. \A u \in Users : account'[u] =
          IF news[n] = "deleted" \/ ~account[u].linked THEN NoAccount
          ELSE [account[u] EXCEPT !.suspended = news[n] = "suspend"]
    BY DEF ProcessInstallationEvent
  <1>7. ASSUME NEW u \in Users PROVE account'[u].linked => account[u].linked /\ news[n] # "deleted"
    <2>1. CASE news[n] = "deleted" \/ ~account[u].linked
      <3>1. account'[u] = NoAccount
        BY <1>6, <2>1
      <3>2. ~account'[u].linked
        BY <3>1 DEF NoAccount
      <3> QED
        BY <3>2
    <2>2. CASE ~(news[n] = "deleted" \/ ~account[u].linked)
      BY <2>2
    <2> QED
      BY <2>1, <2>2
  <1>8. ASSUME NEW u \in Users, account'[u].linked
        PROVE  account'[u].suspended = (news[n] = "suspend")
    <2>1. account[u].linked /\ news[n] # "deleted"
      BY <1>7, <1>8
    <2> DEFINE b == news[n] = "suspend"
    <2>2. account'[u] = [account[u] EXCEPT !.suspended = b]
      BY <1>6, <2>1
    <2> HIDE DEF b
    <2>3. account'[u].suspended = b
      BY <1>1, <2>2 DEF AccountT
    <2> QED
      BY <2>3 DEF b
  <1>9. Told'
    BY <1>4 DEF Accounts, Told
  <1>10. NoGhosts'
    <2>1. SUFFICES ASSUME ~github.there, applied'[Len(news)] > 0, "ghost" \notin mishap,
                          NEW u \in Users, account'[u].linked
                   PROVE  FALSE
      BY <1>4 DEF NoGhosts
    <2>2. Len(news) > 0 /\ news[Len(news)] = "deleted" /\ Len(news) \in Ids
      BY <1>1, <2>1, IdsAre DEF Accounts, Told, NewsT
    <2>3. n # Len(news)
      BY <1>7, <2>1, <2>2
    <2>4. applied[Len(news)] > 0
      BY <1>5, <2>1, <2>2, <2>3
    <2> QED
      BY <1>7, <2>1, <2>4 DEF Accounts, NoGhosts
  <1>11. AsSuspended'
    <2>1. SUFFICES ASSUME github.there, KnownOf(Suspensions)',
                          {"disorder", "late row"} \cap mishap' = {},
                          NEW u \in Users, account'[u].linked
                   PROVE  account'[u].suspended = github.suspended
      BY <1>4 DEF AsSuspended
    <2>2. news[n] \in Suspensions
      BY <1>2, <1>3, <1>7, <2>1 DEF Events, Suspensions
    <2>3. ASSUME NEW m \in 1..Len(news), m > n PROVE news[m] \notin Suspensions
      <3>1. m \in Ids /\ m # n
        BY <1>1, <1>2, <2>3, IdsAre DEF NewsT
      <3>2. ~(applied[m] > 0)
        <4>1. m \notin Later(h)
          BY <1>4, <2>1
        <4> QED
          BY <2>3, <3>1, <4>1 DEF Later
      <3>3. applied'[m] = applied[m]
        BY <1>5, <3>1
      <3> QED
        BY <1>4, <2>1, <3>2, <3>3 DEF KnownOf
    <2>4. github.suspended = (news[n] = "suspend")
      BY <1>2, <2>1, <2>2, <2>3 DEF Accounts, Told
    <2> QED
      BY <1>8, <2>1, <2>4
  <1> QED
    BY <1>9, <1>10, <1>11 DEF Accounts

\* A row is written for a user.
LEMMA AccountsUpsert ==
  ASSUME Base, Accounts, NEW h \in Handlers, Upsert(h)
  PROVE  Accounts'
  <1>1. AccountT /\ GithubT
    BY TypedParts DEF Base
  <1>2. /\ github' = github /\ news' = news /\ applied' = applied /\ mishap \subseteq mishap'
        /\ ~github.there => "ghost" \in mishap'
        /\ github.suspended => "late row" \in mishap'
    BY DEF Upsert
  <1>3. \A u \in Users :
          \/ account'[u] = account[u]
          \/ account'[u].linked /\ account'[u].suspended = account[u].suspended
    BY UpsertIs
  <1>4. Told' /\ NoGhosts'
    BY <1>2 DEF Accounts, Told, NoGhosts
  <1>5. AsSuspended'
    <2>1. SUFFICES ASSUME github.there, KnownOf(Suspensions)',
                          {"disorder", "late row"} \cap mishap' = {},
                          NEW u \in Users, account'[u].linked
                   PROVE  account'[u].suspended = github.suspended
      BY <1>2 DEF AsSuspended
    <2>2. ~github.suspended /\ KnownOf(Suspensions) /\ {"disorder", "late row"} \cap mishap = {}
      BY <1>2, <2>1 DEF KnownOf
    <2>3. account[u].linked => account[u].suspended = github.suspended
      BY <2>1, <2>2 DEF Accounts, AsSuspended
    <2>4. ~account[u].linked => account[u].suspended = FALSE
      BY <1>1 DEF AccountT, NoAccount
    <2>5. account'[u].suspended = account[u].suspended
      BY <1>3
    <2>6. github.suspended = FALSE
      BY <1>1, <2>2 DEF GithubT
    <2> QED
      BY <2>3, <2>4, <2>5, <2>6
  <1> QED
    BY <1>4, <1>5 DEF Accounts

LEMMA OtherAccountSteps ==
  ASSUME Base, Accounts, NEW h \in Handlers,
         \/ BeginWebhookDelivery(h) \/ FetchInstallationRepositories(h) \/ Complete(h)
         \/ CompleteUnanswered(h) \/ ReleaseWebhookDelivery(h) \/ DeliveryFails(h) \/ Crash(h) \/ LinkFails(h)
         \/ Begins(h) \/ Inspect(h) \/ InspectFails(h)
  PROVE  Accounts'
  <1>1. UNCHANGED <<github, news, account>> /\ applied' = applied
    BY DEF BeginWebhookDelivery, FetchInstallationRepositories, Complete, CompleteUnanswered,
           ReleaseWebhookDelivery, DeliveryFails, Crash, LinkFails, Begins, Inspect, InspectFails
  <1>2. mishap \subseteq mishap'
    BY DEF BeginWebhookDelivery, FetchInstallationRepositories, Complete, CompleteUnanswered,
           ReleaseWebhookDelivery, DeliveryFails, Crash, LinkFails, Begins, Inspect, InspectFails, Note
  <1> QED
    BY <1>1, <1>2, AccountsRest

LEMMA AccountsReplace ==
  ASSUME Base, Accounts, NEW h \in Handlers, DeleteRows(h) \/ InsertRows(h)
  PROVE  Accounts'
  <1>1. UNCHANGED <<github, news, account>> /\ mishap \subseteq mishap'
    BY DEF DeleteRows, InsertRows
  <1>2. ASSUME NEW n \in 1..Len(news), news[n] # "repositories" PROVE applied'[n] = applied[n]
    <2>1. CASE UNCHANGED applied
      BY <2>1
    <2>2. CASE Apply(h) /\ ~IsLink(h)
      <3>1. AppliedT /\ Shaped(h) /\ IsDelivery(h) /\ run[h].at \in {"delete", "insert"}
        BY <2>2, TypedParts DEF Base, AllShaped, DeleteRows, InsertRows, IsDelivery, At
      <3>2. n # run[h].id /\ n \in Ids /\ run[h].id \in Ids
        BY <1>2, <3>1, DeliveryIs, TypedParts, IdsAre DEF Base, NewsT, Shaped
      <3> QED
        BY <2>2, <3>1, <3>2, AppliedStays
    <2> QED
      BY <2>1, <2>2 DEF DeleteRows, InsertRows
  <1> QED
    BY <1>1, <1>2, AccountsRest

LEMMA AccountsStay == ASSUME Base, Ledger, Accounts, [Next]_vars PROVE Accounts'
  <1>1. ASSUME NEW h \in Handlers, DeliveryStep(h) PROVE Accounts'
    BY <1>1, AccountsProcess, OtherAccountSteps DEF DeliveryStep
  <1>2. ASSUME NEW h \in Handlers, LinkStep(h) PROVE Accounts'
    BY <1>2, BothBegin, AccountsUpsert, OtherAccountSteps DEF LinkStep
  <1>3. CASE UNCHANGED vars
    BY <1>3, AccountsRest DEF vars
  <1>4. CASE ClaimUnanswered
    BY <1>4, AccountsRest DEF ClaimUnanswered
  <1> QED
    BY <1>1, <1>2, <1>3, <1>4, AccountsAtGithub, AccountsReplace DEF Next

LEMMA AccountsAtFirst == ASSUME Init PROVE Accounts
  <1>1. Len(news) = 0 /\ github.there /\ \A u \in Users : ~account[u].linked
    BY DEF Init, NoAccount
  <1>2. \A n \in 1..Len(news) : FALSE
    BY <1>1
  <1> QED
    BY <1>1, <1>2 DEF Accounts, Told, NoGhosts, AsSuspended

----------------------------------------------------------------------------
\* The lists of repositories

Lists == AllAsRead /\ NoLeftRows /\ AsListed

LEMMA StraightBefore == ASSUME mishap \subseteq mishap', Straight' PROVE Straight
  BY DEF Straight

LEMMA KeptReading ==
  ASSUME NEW g \in Handlers, Kept(g)
  PROVE  /\ HasRead(g)' <=> HasRead(g)
         /\ At(g, "insert")' <=> At(g, "insert")
         /\ Replacing(g)' <=> Replacing(g)
  BY DEF Kept, HasRead, At, Replacing, IsLink

LEMMA AsReadRests ==
  ASSUME NEW g \in Handlers, AsRead(g), Kept(g), mishap \subseteq mishap',
         (github'.repos = github.repos /\ listed' = listed) \/ (HasRead(g) => run'[g].stale)
  PROVE  AsRead(g)'
  <1>1. /\ HasRead(g)' <=> HasRead(g)
        /\ At(g, "insert")' <=> At(g, "insert")
        /\ At(g, "insert") => HasRead(g)
        /\ run'[g].found = run[g].found /\ (run[g].stale => run'[g].stale)
    BY KeptReading DEF Kept, At, HasRead
  <1>2. Straight' => Straight
    BY StraightBefore
  <1> QED
    BY <1>1, <1>2 DEF AsRead

\* A step of a handler that leaves the tables alone.
LEMMA ListsRest ==
  ASSUME Base, Lists, NEW h \in Handlers, Others(h), AsRead(h)', mishap \subseteq mishap',
         github' = github, news' = news, listed' = listed, account' = account,
         applied' = applied, Replacing(h) => Replacing(h)' \/ ~Straight'
  PROVE  Lists'
  <1>1. AllAsRead'
    BY AsReadRests DEF Lists, AllAsRead, Others
  <1>2. NoLeftRows'
    BY DEF Lists, NoLeftRows
  <1>3. AsListed'
    <2>1. SUFFICES ASSUME github.there, KnownOf({"repositories"})', Straight'
                   PROVE  ListsStand' \/ \E g \in Handlers : Replacing(g)'
      BY DEF AsListed
    <2>2. KnownOf({"repositories"}) /\ Straight
      BY <2>1, StraightBefore DEF KnownOf
    <2>3. CASE ListsStand
      BY <2>3 DEF ListsStand
    <2>4. CASE \E g \in Handlers : Replacing(g)
      BY <2>1, <2>4, KeptReading DEF Others
    <2> QED
      BY <2>1, <2>2, <2>3, <2>4 DEF Lists, AsListed
  <1> QED
    BY <1>1, <1>2, <1>3 DEF Lists

LEMMA ListsAtGithub ==
  ASSUME Base, Ledger, Lists, GithubStep
  PROVE  Lists'
  <1>0. /\ account' = account /\ applied' = applied /\ mishap' = mishap /\ listed' = listed
        /\ mishap \subseteq mishap'
    BY DEF GithubStep, ChangeRepos, Suspend, Uninstall, Redeliver, NotDelivered
  <1>1. GithubT /\ RunT
    BY TypedParts DEF Base
  <1>2. \A g \in Handlers : Kept(g)
    BY GithubIs
  <1>3. CASE ChangeRepos \/ Suspend \/ Uninstall
    <2>1. \A g \in Handlers : HasRead(g) => run'[g].stale
      BY <1>1, <1>3, OvertakeIs DEF ChangeRepos, Suspend, Uninstall
    <2>2. AllAsRead'
      BY <1>0, <1>2, <2>1, AsReadRests DEF Lists, AllAsRead
    <2>3. github'.there => github.there
      BY <1>1, <1>3 DEF ChangeRepos, Suspend, Uninstall, GithubT
    <2>4. NoLeftRows'
      BY <1>0, <2>3 DEF Lists, NoLeftRows
    <2>5. AsListed'
      <3>1. CASE ChangeRepos
        <4>1. Announce("repositories")
          BY <3>1 DEF ChangeRepos
        <4>2. /\ Len(news) \in Nat /\ Len(news') = Len(news) + 1
              /\ news'[Len(news) + 1] = "repositories" /\ ~(applied[Len(news) + 1] > 0)
          BY <4>1, NewIsUnknown DEF Events
        <4>3. ~KnownOf({"repositories"})'
          BY <1>0, <4>2 DEF KnownOf
        <4> QED
          BY <4>3 DEF AsListed
      <3>2. CASE Suspend
        <4> DEFINE event == IF github.suspended THEN "unsuspend" ELSE "suspend"
        <4>1. Announce(event) /\ github'.repos = github.repos
          BY <1>1, <3>2 DEF Suspend, GithubT
        <4>2. event \in Events
          BY DEF Events
        <4> HIDE DEF event
        <4>3. /\ Len(news) \in Nat /\ Len(news') = Len(news) + 1
              /\ \A n \in 1..Len(news) : news'[n] = news[n]
          BY <4>1, <4>2, NewIsUnknown
        <4>4. KnownOf({"repositories"})' => KnownOf({"repositories"})
          BY <1>0, <4>3 DEF KnownOf
        <4>5. Straight' => Straight
          BY <1>0, StraightBefore
        <4>6. ListsStand => ListsStand'
          BY <1>0, <4>1 DEF ListsStand
        <4>7. (\E g \in Handlers : Replacing(g)) => \E g \in Handlers : Replacing(g)'
          BY <1>2, KeptReading
        <4> QED
          BY <2>3, <4>4, <4>5, <4>6, <4>7 DEF Lists, AsListed
      <3>3. CASE Uninstall
        BY <3>3 DEF Uninstall, AsListed
      <3> QED
        BY <1>3, <3>1, <3>2, <3>3
    <2> QED
      BY <2>2, <2>4, <2>5 DEF Lists
  <1>4. CASE Redeliver \/ NotDelivered
    <2>1. github' = github /\ news' = news /\ run' = run
      BY <1>4 DEF Redeliver, NotDelivered
    <2>2. AllAsRead'
      BY <1>0, <1>2, <2>1, AsReadRests DEF Lists, AllAsRead
    <2>3. NoLeftRows'
      BY <1>0, <2>1 DEF Lists, NoLeftRows
    <2>4. AsListed'
      BY <1>0, <2>1 DEF Lists, AsListed, KnownOf, Straight, ListsStand, Replacing, At, IsLink
    <2> QED
      BY <2>2, <2>3, <2>4 DEF Lists
  <1> QED
    BY <1>3, <1>4 DEF GithubStep

LEMMA ListsProcess ==
  ASSUME Base, Accounts, Lists, NEW h \in Handlers, ProcessInstallationEvent(h)
  PROVE  Lists'
  <1> DEFINE n == run[h].id
  <1>1. AccountT /\ AppliedT /\ RunT /\ Shaped(h)
    BY TypedParts DEF Base, AllShaped
  <1>2. IsDelivery(h) /\ n \in Ids /\ n \in 1..Len(news) /\ news[n] # "repositories"
    BY <1>1, OnlyDeliveries, DeliveryIs DEF ProcessInstallationEvent, At, Shaped
  <1>3. /\ github' = github /\ news' = news /\ listed' = listed /\ Apply(h)
        /\ mishap \subseteq mishap' /\ At(h, "apply")
    BY DEF ProcessInstallationEvent, Note
  <1>4. \A m \in Ids : m # n => applied'[m] = applied[m]
    BY <1>1, <1>2, <1>3, AppliedStays
  <1>5. run'[h].at = "complete" /\ Others(h)
    BY <1>1, GoIs DEF ProcessInstallationEvent, Steps
  <1>6. AllAsRead'
    <2>1. AsRead(h)'
      BY <1>5 DEF AsRead, HasRead, At
    <2> QED
      BY <1>3, <1>5, <2>1, AsReadRests DEF Lists, AllAsRead, Others
  <1>7. ASSUME github.there, NEW u \in Users PROVE account'[u].linked <=> account[u].linked
    <2>1. news[n] # "deleted"
      BY <1>2, <1>7 DEF Accounts, Told
    <2> DEFINE b == news[n] = "suspend"
    <2>2. account'[u] = IF ~account[u].linked THEN NoAccount
                        ELSE [account[u] EXCEPT !.suspended = b]
      BY <2>1 DEF ProcessInstallationEvent
    <2> HIDE DEF b
    <2> QED
      BY <1>1, <2>2 DEF AccountT, NoAccount
  <1>8. NoLeftRows'
    BY <1>3, <1>7 DEF Lists, NoLeftRows
  <1>9. AsListed'
    <2>1. SUFFICES ASSUME github.there, KnownOf({"repositories"})', Straight'
                   PROVE  ListsStand' \/ \E g \in Handlers : Replacing(g)'
      BY <1>3 DEF AsListed
    <2>2. ASSUME NEW m \in 1..Len(news), news[m] = "repositories" PROVE applied[m] > 0
      <3>1. m \in Ids /\ m # n
        BY <1>2, <2>2, IdsAre, TypedParts DEF Base, NewsT
      <3>2. applied'[m] > 0
        BY <1>3, <2>1, <2>2 DEF KnownOf
      <3> QED
        BY <1>4, <3>1, <3>2
    <2>3. KnownOf({"repositories"}) /\ Straight
      BY <1>3, <2>1, <2>2, StraightBefore DEF KnownOf
    <2>4. CASE ListsStand
      BY <1>3, <1>7, <2>1, <2>4 DEF ListsStand
    <2>5. CASE \E g \in Handlers : Replacing(g)
      <3>1. ~Replacing(h)
        BY <1>3 DEF Replacing, At
      <3> QED
        BY <1>5, <2>5, <3>1, KeptReading DEF Others
    <2> QED
      BY <2>1, <2>3, <2>4, <2>5 DEF Lists, AsListed
  <1> QED
    BY <1>6, <1>8, <1>9 DEF Lists

LEMMA ListsUpsert ==
  ASSUME Base, Lists, NEW h \in Handlers, Upsert(h)
  PROVE  Lists'
  <1>1. /\ github' = github /\ news' = news /\ listed' = listed /\ applied' = applied
        /\ mishap \subseteq mishap' /\ At(h, "upsert") /\ HasRead(h)
        /\ run[h].found = {} /\ run[h].stale => "blind" \in mishap'
    BY DEF Upsert, At, HasRead
  <1>2. /\ Others(h) /\ IsLink(h)
        /\ \/ run[h].found = {} /\ run'[h] = Idle
           \/ /\ run[h].found # {} /\ run'[h].at = "delete" /\ Same(h)
              /\ run'[h].found = run[h].found /\ run'[h].stale = run[h].stale
        /\ \A u \in Users :
             \/ account'[u] = account[u]
             \/ account'[u].linked /\ account'[u].suspended = account[u].suspended
    BY UpsertIs
  <1>3. AllAsRead'
    <2>1. AsRead(h)'
      <3>1. CASE run'[h] = Idle
        BY <3>1, IdleIsRun DEF AsRead, HasRead, At
      <3>2. CASE run'[h].at = "delete" /\ run'[h].found = run[h].found
                 /\ run'[h].stale = run[h].stale
        BY <1>1, <3>2, StraightBefore DEF Lists, AllAsRead, AsRead, At
      <3> QED
        BY <1>2, <3>1, <3>2
    <2> QED
      BY <1>1, <1>2, <2>1, AsReadRests DEF Lists, AllAsRead, Others
  <1>4. NoLeftRows'
    BY <1>1, <1>2 DEF Lists, NoLeftRows
  <1>5. AsListed'
    <2>1. SUFFICES ASSUME github.there, KnownOf({"repositories"})', Straight'
                   PROVE  ListsStand' \/ \E g \in Handlers : Replacing(g)'
      BY <1>1 DEF AsListed
    <2>2. KnownOf({"repositories"}) /\ Straight
      BY <1>1, <2>1, StraightBefore DEF KnownOf
    <2>3. CASE run[h].found # {}
      BY <1>2, <2>3, IdleIsRun DEF Replacing, At, IsLink, Same
    <2>4. CASE run[h].found = {}
      <3>1. ~run[h].stale
        BY <1>1, <2>1, <2>4 DEF Straight
      <3>2. github.repos = {}
        BY <1>1, <2>2, <2>4, <3>1 DEF Lists, AllAsRead, AsRead
      <3>3. CASE ListsStand
        BY <1>1, <1>2, <2>1, <3>2, <3>3 DEF ListsStand, Lists, NoLeftRows
      <3>4. CASE \E g \in Handlers : Replacing(g)
        <4>1. ~Replacing(h)
          BY <1>1 DEF Replacing, At
        <4> QED
          BY <1>2, <3>4, <4>1, KeptReading DEF Others
      <3> QED
        BY <2>1, <2>2, <3>3, <3>4 DEF Lists, AsListed
    <2> QED
      BY <2>3, <2>4
  <1> QED
    BY <1>3, <1>4, <1>5 DEF Lists

LEMMA ThroughIsRead == ASSUME NEW h \in Handlers, Through(h) PROVE AsRead(h)'
  BY IdleIsRun DEF Through, AsRead, HasRead, At

LEMMA ListsDelete ==
  ASSUME Base, Lists, NEW h \in Handlers, DeleteRows(h)
  PROVE  Lists'
  <1>1. /\ github' = github /\ mishap \subseteq mishap' /\ HasRead(h)
        /\ run[h].stale => "crossed" \in mishap'
        /\ \A u \in Users : listed'[u] = {}
    BY DEF DeleteRows, At, HasRead
  <1>2. /\ Others(h)
        /\ \A g \in Handlers : g # h /\ HasRead(g) => run'[g].stale
        /\ \/ run[h].found = {} /\ Through(h)
           \/ /\ run[h].found # {} /\ run'[h].at = "insert" /\ Same(h)
              /\ run'[h].found = run[h].found /\ run'[h].stale = run[h].stale
    BY DeleteIs
  <1>3. AsRead(h)'
    <2>1. CASE Through(h)
      BY <2>1, ThroughIsRead
    <2>2. CASE /\ run'[h].at = "insert" /\ run'[h].found = run[h].found
               /\ run'[h].stale = run[h].stale
      BY <1>1, <2>2, StraightBefore DEF Lists, AllAsRead, AsRead
    <2> QED
      BY <1>2, <2>1, <2>2
  <1>4. AllAsRead'
    BY <1>1, <1>2, <1>3, AsReadRests DEF Lists, AllAsRead, Others
  <1>5. NoLeftRows'
    BY <1>1 DEF NoLeftRows
  <1>6. AsListed'
    <2>1. SUFFICES ASSUME Straight' PROVE ListsStand' \/ \E g \in Handlers : Replacing(g)'
      BY DEF AsListed
    <2>2. run[h].found = github.repos
      BY <1>1, <2>1, StraightBefore DEF Straight, Lists, AllAsRead, AsRead
    <2>3. CASE run[h].found = {}
      BY <1>1, <2>2, <2>3 DEF ListsStand
    <2>4. CASE run[h].found # {}
      BY <1>2, <2>4 DEF Replacing, At
    <2> QED
      BY <2>3, <2>4
  <1> QED
    BY <1>4, <1>5, <1>6 DEF Lists

LEMMA ListsInsert ==
  ASSUME Base, Lists, NEW h \in Handlers, InsertRows(h)
  PROVE  Lists'
  <1>1. /\ github' = github /\ account' = account /\ mishap \subseteq mishap' /\ HasRead(h)
        /\ At(h, "insert") /\ (run[h].stale => "crossed" \in mishap')
        /\ \A u \in Users : account[u].suspended => "crossed" \in mishap'
        /\ \A u \in Users : listed'[u] =
             IF account[u].linked /\ ~account[u].suspended
             THEN listed[u] \cup run[h].found ELSE listed[u]
    BY DEF InsertRows, At, HasRead
  <1>2. /\ Others(h) /\ Through(h)
        /\ \A g \in Handlers : g # h /\ HasRead(g) => run'[g].stale
    BY InsertIs
  <1>3. AllAsRead'
    BY <1>1, <1>2, ThroughIsRead, AsReadRests DEF Lists, AllAsRead, Others
  <1>4. NoLeftRows'
    BY <1>1 DEF Lists, NoLeftRows
  <1>5. AsListed'
    <2>1. SUFFICES ASSUME Straight' PROVE ListsStand'
      BY DEF AsListed
    <2>2. ~run[h].stale /\ run[h].found = github.repos /\ \A u \in Users : listed[u] = {}
      BY <1>1, <2>1, StraightBefore DEF Straight, Lists, AllAsRead, AsRead
    <2>3. \A u \in Users : ~account[u].suspended
      BY <1>1, <2>1 DEF Straight
    <2> QED
      BY <1>1, <2>2, <2>3 DEF ListsStand
  <1> QED
    BY <1>3, <1>4, <1>5 DEF Lists

\* The steps of the handlers that leave accounts, lists and effects alone.
LEMMA ListsOther ==
  ASSUME Base, Lists, NEW h \in Handlers,
         \/ BeginWebhookDelivery(h) \/ FetchInstallationRepositories(h) \/ Complete(h)
         \/ CompleteUnanswered(h) \/ ReleaseWebhookDelivery(h) \/ DeliveryFails(h) \/ Crash(h) \/ LinkFails(h)
         \/ Begins(h) \/ Inspect(h) \/ InspectFails(h)
  PROVE  Lists'
  <1>1. /\ github' = github /\ news' = news /\ listed' = listed /\ account' = account
        /\ applied' = applied
    BY DEF BeginWebhookDelivery, FetchInstallationRepositories, Complete, CompleteUnanswered,
           ReleaseWebhookDelivery, DeliveryFails, Crash, LinkFails, Begins, Inspect, InspectFails
  <1>2. mishap \subseteq mishap'
    BY DEF BeginWebhookDelivery, FetchInstallationRepositories, Complete, CompleteUnanswered,
           ReleaseWebhookDelivery, DeliveryFails, Crash, LinkFails, Begins, Inspect, InspectFails, Note
  <1>3. RunT
    BY TypedParts DEF Base
  <1>4. ASSUME Others(h), AsRead(h)', Replacing(h) => ~Straight' PROVE Lists'
    BY <1>1, <1>2, <1>4, ListsRest
  <1>5. CASE BeginWebhookDelivery(h)
    <2>1. PICK n \in wire :
            n \in 1..Len(news) /\ n \in Ids /\ wire' = wire \ {n} /\ (Claim(h, n) \/ Duplicate(n))
      BY <1>5, BeginIs
    <2>2. ~Replacing(h) /\ At(h, "idle")
      BY <1>5 DEF BeginWebhookDelivery, Replacing, At
    <2>3. Others(h) /\ run'[h].at \in {"idle", "fetch", "apply"}
      BY <2>1, <2>2, KeptStill DEF Claim, Duplicate, Others, At
    <2>4. AsRead(h)'
      BY <2>3 DEF AsRead, HasRead, At
    <2> QED
      BY <1>4, <2>2, <2>3, <2>4
  <1>6. CASE FetchInstallationRepositories(h)
    <2>1. /\ Others(h)
          /\ \/ /\ run'[h].at = "delete" /\ run'[h].found = github.repos
             \/ run'[h].at = "release"
      BY <1>6, FetchIs
    <2>2. ~Replacing(h)
      BY <1>6 DEF FetchInstallationRepositories, Replacing, At
    <2>3. AsRead(h)'
      BY <1>1, <2>1 DEF AsRead, HasRead, At
    <2> QED
      BY <1>4, <2>1, <2>2, <2>3
  <1>7. CASE End(h)
    <2>1. Others(h) /\ run'[h] = Idle
      BY <1>3, <1>7, EndIs
    <2>2. AsRead(h)'
      BY <2>1, IdleIsRun DEF AsRead, HasRead, At
    <2>3. Replacing(h) => ~Straight'
      <3>1. CASE Complete(h) \/ CompleteUnanswered(h) \/ ReleaseWebhookDelivery(h)
        BY <3>1 DEF Complete, CompleteUnanswered, ReleaseWebhookDelivery, Replacing, At
      <3>2. CASE Crash(h)
        BY <3>2 DEF Crash, Replacing, Note, Straight
      <3>3. CASE LinkFails(h)
        BY <3>3 DEF LinkFails, Replacing, Note, Straight, At
      <3>4. CASE BeginWebhookDelivery(h) \/ Begins(h)
        BY <3>4 DEF BeginWebhookDelivery, Begins, Replacing, At
      <3>5. CASE FetchInstallationRepositories(h) \/ Inspect(h) \/ InspectFails(h)
        BY <3>5 DEF FetchInstallationRepositories, Inspect, InspectFails, Replacing, At
      <3>6. CASE DeliveryFails(h)
        BY <3>6 DEF DeliveryFails, Replacing, Note, Straight
      <3> QED
        BY <3>1, <3>2, <3>3, <3>4, <3>5, <3>6
    <2> QED
      BY <1>4, <2>1, <2>2, <2>3
  <1>8. CASE DeliveryFails(h)
    <2>1. Go(h, "release") /\ "release" \in Steps
      BY <1>8 DEF DeliveryFails, Steps
    <2>2. Others(h) /\ run'[h].at = "release"
      BY <1>3, <2>1, GoIs
    <2>3. AsRead(h)'
      BY <2>2 DEF AsRead, HasRead, At
    <2>4. Replacing(h) => ~Straight'
      BY <1>8 DEF DeliveryFails, Replacing, Note, Straight
    <2> QED
      BY <1>4, <2>2, <2>3, <2>4
  <1>9. CASE Begins(h)
    <2>1. PICK u \in Users : run' = [run EXCEPT ![h] = [Idle EXCEPT !.at = "inspect", !.user = {u}]]
      BY <1>9 DEF Begins
    <2>2. Others(h) /\ run'[h].at = "inspect"
      BY <1>3, <2>1, BeginLinkIs
    <2>3. AsRead(h)' /\ ~Replacing(h)
      BY <1>9, <2>2 DEF AsRead, HasRead, At, Begins, Replacing
    <2> QED
      BY <1>4, <2>2, <2>3
  <1>10. CASE Inspect(h)
    <2>1. /\ Others(h) /\ run'[h].at = "upsert"
          /\ run'[h].found = IF github.suspended THEN {} ELSE github.repos
          /\ github.suspended => "blind" \in mishap'
      BY <1>10, InspectIs
    <2>2. AsRead(h)'
      BY <1>1, <2>1 DEF AsRead, At, Straight
    <2>3. ~Replacing(h)
      BY <1>10 DEF Inspect, Replacing, At
    <2> QED
      BY <1>4, <2>1, <2>2, <2>3
  <1>11. CASE InspectFails(h)
    <2>1. Others(h) /\ run'[h].at = "upsert" /\ "blind" \in mishap'
      BY <1>11, InspectFailsIs
    <2>2. AsRead(h)' /\ ~Replacing(h)
      BY <1>11, <2>1 DEF AsRead, At, Straight, InspectFails, Replacing
    <2> QED
      BY <1>4, <2>1, <2>2
  <1> QED
    BY <1>5, <1>6, <1>7, <1>8, <1>9, <1>10, <1>11
    DEF Complete, CompleteUnanswered, ReleaseWebhookDelivery, Crash, LinkFails

LEMMA ListsStay == ASSUME Base, Ledger, Accounts, Lists, [Next]_vars PROVE Lists'
  <1>1. ASSUME NEW h \in Handlers, DeliveryStep(h) PROVE Lists'
    BY <1>1, ListsProcess, ListsOther DEF DeliveryStep
  <1>2. ASSUME NEW h \in Handlers, LinkStep(h) PROVE Lists'
    BY <1>2, BothBegin, ListsUpsert, ListsOther DEF LinkStep
  <1>3. CASE UNCHANGED vars
    BY <1>3 DEF vars, Lists, AllAsRead, AsRead, NoLeftRows, AsListed, KnownOf, Straight,
                ListsStand, Replacing, HasRead, At, IsLink
  <1>4. CASE ClaimUnanswered
    BY <1>4 DEF ClaimUnanswered, Lists, AllAsRead, AsRead, NoLeftRows, AsListed, KnownOf,
                Straight, ListsStand, Replacing, HasRead, At, IsLink
  <1> QED
    BY <1>1, <1>2, <1>3, <1>4, ListsAtGithub, ListsDelete, ListsInsert DEF Next

LEMMA ListsAtFirst == ASSUME Init PROVE Lists
  <1>1. /\ \A u \in Users : ~account[u].linked /\ listed[u] = {}
        /\ \A h \in Handlers : run[h] = Idle
    BY DEF Init, NoAccount
  <1> QED
    BY <1>1, IdleIsRun
    DEF Lists, AllAsRead, AsRead, NoLeftRows, AsListed, ListsStand, HasRead, At

----------------------------------------------------------------------------
\* The theorems

LEMMA IInvParts ==
  /\ IInv <=> Base /\ Ledger /\ Accounts /\ Lists
  /\ IInv' <=> Base' /\ Ledger' /\ Accounts' /\ Lists'
  BY DEF IInv, Base, Ledger, Accounts, Lists

LEMMA InvHolds == Spec => []IInv
  <1>1. Init => IInv
    BY IInvParts, BaseAtFirst, LedgerAtFirst, AccountsAtFirst, ListsAtFirst
  <1>2. IInv /\ [Next]_vars => IInv'
    BY IInvParts, BaseStays, LedgerStays, AccountsStay, ListsStay
  <1> QED
    BY <1>1, <1>2, PTL DEF Spec

\* A delivery that is accepted takes effect, unless its handler stopped dead or failed
\* after a redelivery was accepted, or the answer to its claim was lost; and it takes
\* effect again only if a handler failed after the effect.  (handleWebhook: beginWebhookDelivery, completeWebhookDelivery,
\* releaseWebhookDelivery.)
THEOREM DeliveriesHandledOnce == Spec => []HandledOnce
  <1>1. IInv => HandledOnce
    <2> SUFFICES ASSUME IInv PROVE HandledOnce
      OBVIOUS
    <2>1. WireT /\ AllRows
      BY IInvParts, TypedParts DEF Base, Ledger
    <2>2. ASSUME NEW n \in acked, applied[n] = 0
          PROVE  {<<"crashed", n>>, <<"acked early", n>>, <<"claim unanswered", n>>} \cap broken # {}
      BY <2>1, <2>2 DEF WireT, AllRows, Rows
    <2>3. ASSUME NEW n \in Ids, applied[n] > 1 PROVE <<"failed late", n>> \in broken
      BY <2>1, <2>3 DEF AllRows, Rows
    <2> QED
      BY <2>2, <2>3 DEF HandledOnce
  <1> QED
    BY <1>1, InvHolds, PTL

\* When all is handled, in whatever order, the accounts and the lists of repositories
\* agree with GitHub, but for the mishaps that are named; and the tables are of their
\* types.  (GithubInstallationsRepository, processWebhookEvent, linkInstallation,
\* replaceRepos.)
THEOREM TablesAlwaysAgree == Spec => []TablesAgree
  <1>1. IInv => TablesAgree
    <2> SUFFICES ASSUME IInv PROVE TablesAgree
      OBVIOUS
    <2>1. Base /\ Ledger /\ Accounts /\ Lists /\ TypeOK
      BY IInvParts DEF Base
    <2>2. ASSUME AllApplied, NEW events PROVE KnownOf(events)
      BY <2>2 DEF AllApplied, KnownOf
    <2>3. AccountsAgree
      <3>1. SUFFICES ASSUME Quiet, AllApplied PROVE
              /\ ~github.there => "ghost" \in mishap \/ \A u \in Users : ~account[u].linked
              /\ github.there /\ {"disorder", "late row"} \cap mishap = {} =>
                   \A u \in Users : account[u].linked => account[u].suspended = github.suspended
        BY DEF AccountsAgree
      <3>2. ~github.there => applied[Len(news)] > 0
        <4>1. ~github.there => Len(news) \in 1..Len(news)
          BY <2>1, TypedParts DEF Accounts, Told, NewsT
        <4> QED
          BY <3>1, <4>1 DEF AllApplied
      <3> QED
        BY <2>1, <2>2, <3>1, <3>2 DEF Accounts, NoGhosts, AsSuspended
    <2>4. ListsAgree
      <3>1. SUFFICES ASSUME Quiet, AllApplied, github.there, Straight PROVE ListsStand
        BY DEF ListsAgree, ListsStand, Straight
      <3>2. \A h \in Handlers : ~Replacing(h)
        BY <3>1 DEF Quiet, Replacing, At
      <3> QED
        BY <2>1, <2>2, <3>1, <3>2 DEF Lists, AsListed
    <2> QED
      BY <2>1, <2>3, <2>4 DEF TablesAgree
  <1> QED
    BY <1>1, InvHolds, PTL

====
