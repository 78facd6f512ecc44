---- MODULE DeliveryProofs ----
(***************************************************************************)
(* What a pipeline deploys and promotes, what the console shows of it, and *)
(* what it tells of the project in Drift, for any number of commits, runs, *)
(* requests, tokens and changes, and any faults.                           *)
(***************************************************************************)
EXTENDS Delivery, FiniteSetTheorems, WellFoundedInduction, TLAPS

-----------------------------------------------------------------------------
(* Drift: types.                                                           *)

Places == {"idle", "metadata", "token", "read", "resolve", "place", "repair", "mark",
           "snapshot", "branch", "files", "pull", "record"}
Time == [tokens : Nat, changes : Nat]
Requests == [at : Places, found : SUBSET (Codes \cup SnapshotCodes), health : {"none", "ok", "warning"},
             rows : SUBSET Nat, todo : SUBSET Codes, row : Nat, target : Nat, update : Nat,
             since : Time, overlapped : BOOLEAN]
Findings == [code : Codes, target : Nat, status : FindingStatuses, overlapped : BOOLEAN, since : Time]
Branched == [at : {"branch", "files", "open", "merged"}, recorded : BOOLEAN, overlapped : BOOLEAN, cut : BOOLEAN]
Snapshot == [shows : SUBSET SnapshotCodes, status : {"none", "ok", "warning"}, since : Time, overlapped : BOOLEAN]

FactsTyped ==
  /\ token = issued /\ issued \in 0..MaxTokens /\ tracked \in BOOLEAN
  /\ environment \in Environments /\ changes \in Nat /\ target \in 1..changes + 1
FindingTyped == finding \in Seq(Findings)
SessionTyped == session \in [Sessions -> Requests]
UpdateTyped == update \in Seq(Branched)
SnapshotTyped == snapshot \in Snapshot
RowsTyped == \A s \in Sessions : session[s].row \in 0..Len(finding) /\ session[s].update \in 0..Len(update)

DriftTyped ==
  /\ FactsTyped /\ FindingTyped /\ SessionTyped
  /\ UpdateTyped /\ SnapshotTyped /\ RowsTyped

LEMMA CodesAre ==
  /\ Codes = {"workflow_files_missing", "ci_token_missing",
              "provider_connection_metadata_unavailable", "env_metadata_empty"}
  /\ OfTarget = {"provider_connection_metadata_unavailable"}
  /\ DOMAIN CodeOrder = 1..4
  BY DEF Codes, OfTarget, CodeOrder

LEMMA IdleTyped == Idle \in Requests /\ Idle.overlapped = FALSE /\ Start \in Time
<1>1. Start \in Time
  BY DEF Start, Time
<1> QED
  BY <1>1 DEF Idle, Requests, Places

LEMMA NowTyped == FactsTyped => Now \in Time
  BY DriftAssumption DEF FactsTyped, Now, Time, DriftAssumption

LEMMA RowsOfTyped ==
  /\ FindingTyped => DOMAIN finding = 1..Len(finding) /\ Len(finding) \in Nat
                     /\ \A i \in DOMAIN finding : finding[i] \in Findings
  /\ UpdateTyped => DOMAIN update = 1..Len(update) /\ Len(update) \in Nat
                    /\ \A u \in DOMAIN update : update[u] \in Branched
<1>1. FindingTyped => DOMAIN finding = 1..Len(finding) /\ Len(finding) \in Nat /\ finding \in [1..Len(finding) -> Findings]
  BY DEF FindingTyped
<1>2. UpdateTyped => DOMAIN update = 1..Len(update) /\ Len(update) \in Nat /\ update \in [1..Len(update) -> Branched]
  BY DEF UpdateTyped
<1> QED
  BY <1>1, <1>2

LEMMA DriftTypesHold == DriftTyped => DriftTypeOK
<1> SUFFICES ASSUME DriftTyped PROVE DriftTypeOK
  OBVIOUS
<1>1. issued \in Nat
  BY DriftAssumption DEF DriftTyped, FactsTyped, DriftAssumption
<1>2. token \in 0..issued /\ issued \in 0..MaxTokens /\ tracked \in BOOLEAN
      /\ environment \in Environments /\ changes \in Nat /\ target \in 1..changes + 1
  BY <1>1 DEF DriftTyped, FactsTyped
<1>3. \A i \in DOMAIN finding : finding[i].code \in Codes /\ finding[i].status \in FindingStatuses
  BY RowsOfTyped DEF DriftTyped, Findings
<1>4. snapshot.shows \subseteq SnapshotCodes /\ snapshot.status \in {"none", "ok", "warning"}
  BY DEF DriftTyped, SnapshotTyped, Snapshot
<1>5. \A u \in DOMAIN update : update[u].at \in {"branch", "files", "open", "merged"}
  BY RowsOfTyped DEF DriftTyped, Branched
<1> QED
  BY <1>2, <1>3, <1>4, <1>5 DEF DriftTyped, RowsTyped, DriftTypeOK

LEMMA NextCodeIs ==
  ASSUME NEW s \in Sessions, session[s].todo \subseteq Codes, session[s].todo # {}
  PROVE  NextCode(s) \in session[s].todo
<1> DEFINE Chosen(code) ==
             \E i \in DOMAIN CodeOrder : CodeOrder[i] = code /\ \A k \in 1..i - 1 : CodeOrder[k] \notin session[s].todo
<1>1. \E code \in session[s].todo : Chosen(code)
  BY CodesAre DEF CodeOrder
<1> QED
  BY <1>1 DEF NextCode

-----------------------------------------------------------------------------
(* Drift: what a step makes of the requests.                               *)

\* A request goes on, perhaps found to overlap another.
Beside(y) ==
  \/ session'[y] = session[y]
  \/ session'[y] = [session[y] EXCEPT !.overlapped = TRUE]

\* All that the request s is afterwards.
Becoming(s, its) ==
  /\ session' \in [Sessions -> Requests]
  /\ session'[s] = its
  /\ \A y \in Sessions \ {s} : Beside(y)

LEMMA BesideIs ==
  ASSUME SessionTyped, NEW y \in Sessions, Beside(y)
  PROVE  /\ session'[y].at = session[y].at /\ session'[y].found = session[y].found
         /\ session'[y].health = session[y].health /\ session'[y].rows = session[y].rows
         /\ session'[y].todo = session[y].todo /\ session'[y].row = session[y].row
         /\ session'[y].target = session[y].target /\ session'[y].update = session[y].update
         /\ session'[y].since = session[y].since
         /\ session[y].overlapped => session'[y].overlapped
  BY DEF SessionTyped, Requests, Beside

LEMMA AloneIs ==
  ASSUME SessionTyped, NEW s \in Sessions, NEW its \in Requests, session' = [session EXCEPT ![s] = its]
  PROVE  Becoming(s, its) /\ \A y \in Sessions \ {s} : session'[y] = session[y]
  BY DEF SessionTyped, Becoming, Beside

\* Who comes among others at the same places finds them, and is found by them.
LEMMA AmongIs ==
  ASSUME SessionTyped, NEW s \in Sessions, NEW its \in Requests, NEW places, Among(s, its, places)
  PROVE  LET met == \E y \in Sessions \ {s} : session[y].at \in places
         IN  /\ Becoming(s, [its EXCEPT !.overlapped = @ \/ met])
             /\ [its EXCEPT !.overlapped = @ \/ met] \in Requests
             /\ \A y \in Sessions \ {s} : session[y].at \in places => session'[y].overlapped
             /\ \A y \in Sessions \ {s} : session[y].at \notin places => session'[y] = session[y]
<1> DEFINE met == \E y \in Sessions \ {s} : session[y].at \in places
           r == [its EXCEPT !.overlapped = @ \/ met]
<1>0. (its.overlapped \/ met) \in BOOLEAN
  BY DEF Requests
<1>1. r \in Requests
  <2> DEFINE b == (its.overlapped \/ met)
  <2>1. b \in BOOLEAN /\ r = [its EXCEPT !.overlapped = b]
    BY <1>0
  <2> HIDE DEF b, met, r
  <2> QED
    BY <2>1 DEF Requests
<1>2. session' = [x \in Sessions |->
         IF x = s THEN r
         ELSE IF session[x].at \in places THEN [session[x] EXCEPT !.overlapped = TRUE] ELSE session[x]]
  BY DEF Among
<1> HIDE DEF r
<1>3. session'[s] = r
  BY <1>2
<1>4. ASSUME NEW y \in Sessions \ {s}
      PROVE  /\ session'[y] \in Requests /\ Beside(y)
             /\ session[y].at \in places => session'[y].overlapped
             /\ session[y].at \notin places => session'[y] = session[y]
  <2>1. session'[y] = IF session[y].at \in places THEN [session[y] EXCEPT !.overlapped = TRUE] ELSE session[y]
    BY <1>2
  <2>2. session[y] \in Requests
    BY DEF SessionTyped
  <2>3. [session[y] EXCEPT !.overlapped = TRUE] \in Requests /\ [session[y] EXCEPT !.overlapped = TRUE].overlapped
    BY <2>2 DEF Requests
  <2> QED
    BY <2>1, <2>2, <2>3 DEF Beside
<1>5. session' \in [Sessions -> Requests]
  BY <1>1, <1>2, <1>3, <1>4
<1> QED
  BY <1>1, <1>3, <1>4, <1>5 DEF Becoming, r, met

-----------------------------------------------------------------------------
(* Drift: the invariant.                                                   *)

Detecting == {"metadata", "token", "read", "resolve", "place"}

\* A detection is never ahead of the facts, and has read them as they are unless they
\* have changed since.
AsRead(s) ==
  session[s].at \in Detecting =>
    LET found == session[s].found
        since == session[s].since
    IN  /\ found \subseteq Codes
        /\ since.tokens <= issued /\ since.changes <= changes
        /\ ("workflow_files_missing" \in found) <=> ~tracked
        /\ "ci_token_missing" \in found => since.tokens = 0
        /\ since.tokens = issued /\ since.changes = changes =>
             /\ ("provider_connection_metadata_unavailable" \in found) <=> (environment = "orphaned")
             /\ ("env_metadata_empty" \in found)
                   <=> (IF At(s, "metadata") THEN environment # "none" ELSE environment = "empty")
             /\ ("ci_token_missing" \in found) <=> (session[s].at \notin {"metadata", "token"} /\ token = 0)

\* What a request is about to mark or to insert.
Aimed(s) ==
  /\ session[s].at \in Replacing => session[s].todo \subseteq session[s].found
  /\ At(s, "place") => session[s].todo # {}
  /\ At(s, "resolve") => \A i \in session[s].rows : i \in DOMAIN finding /\ finding[i].code # "workflow_files_missing"
  /\ At(s, "repair") \/ At(s, "mark") => session[s].row \in DOMAIN finding
  /\ At(s, "mark") => finding[session[s].row].code = "ci_token_missing"

\* Two requests at the same thing have overlapped.
Apart ==
  \A s \in Sessions : \A y \in Sessions \ {s} : \A places \in {Replacing, {"snapshot"}, Updating} :
    session[s].at \in places /\ session[y].at \in places => session[s].overlapped

\* A detection that nothing overlapped will leave the codes that it has found.
Staying(s, i) == Active(i) /\ ~(At(s, "resolve") /\ i \in session[s].rows)
Listed(s) ==
  session[s].at \in Replacing /\ ~session[s].overlapped =>
    /\ \A i \in DOMAIN finding : Staying(s, i) => finding[i].code \in session[s].found \ session[s].todo
    /\ \A code \in session[s].found \ session[s].todo : \E i \in DOMAIN finding : Staying(s, i) /\ finding[i].code = code

\* What a finding says was so.
Truthful ==
  \A i \in DOMAIN finding :
    /\ finding[i].code = "ci_token_missing" => finding[i].since.tokens = 0
    /\ finding[i].code = "workflow_files_missing" => ~tracked /\ finding[i].status # "resolved"
    /\ finding[i].code \notin OfTarget => finding[i].target = 0

\* Twins were inserted by requests that overlapped, whatever target they lost.
Twins ==
  \A i, k \in DOMAIN finding :
    i < k /\ Active(i) /\ Active(k) /\ finding[i].code = finding[k].code => finding[k].overlapped

\* A picture is of its time, and what it says fits what it shows.
Fits(shows, status) ==
  /\ status = "ok" => shows \subseteq {"env_metadata_empty"}
  /\ status = "warning" => shows \ {"env_metadata_empty"} # {}
Age(since) == since.tokens + since.changes
Pictured(s) ==
  At(s, "snapshot") =>
    /\ session[s].found \subseteq SnapshotCodes /\ Fits(session[s].found, session[s].health)
    /\ Age(session[s].since) <= Age(Now)
    /\ session[s].overlapped \/ Age(snapshot.since) <= Age(session[s].since)
Shows == Fits(snapshot.shows, snapshot.status) /\ Age(snapshot.since) <= Age(Now)

\* A request for an update has a branch of its own, as far as it has come.
Making == {"files", "pull", "record"}
Counted(s) ==
  LET u == session[s].update
  IN  /\ session[s].at \in Making =>
           /\ u \in DOMAIN update /\ ~update[u].recorded
           /\ At(s, "files") => update[u].at = "branch"
           /\ At(s, "record") => update[u].at \in {"open", "merged"}
           /\ \A y \in Sessions \ {s} : session[y].at \in Making => session[y].update # u
      /\ session[s].at \notin Making => u = 0
      /\ session[s].at \in Updating /\ ~session[s].overlapped => WithinQuota
AllCounted == UpdatesAreCounted /\ \A s \in Sessions : Counted(s)

FindingInv == Truthful /\ Twins /\ Apart /\ \A s \in Sessions : AsRead(s) /\ Aimed(s) /\ Listed(s)
SnapshotInv == Shows /\ \A s \in Sessions : Pictured(s)
DriftInv == DriftTyped /\ FindingInv /\ SnapshotInv /\ AllCounted

-----------------------------------------------------------------------------
(* Drift: each step of a request.                                          *)

\* The request s takes a step by itself; or among others at the same places.
Alone(s) == SessionTyped' /\ \A y \in Sessions \ {s} : session'[y] = session[y]
Met(s, places) ==
  /\ SessionTyped'
  /\ \A y \in Sessions \ {s} : Beside(y)
  /\ \A y \in Sessions \ {s} : session[y].at \in places => session'[y].overlapped
  /\ \A y \in Sessions \ {s} : session[y].at \notin places => session'[y] = session[y]
Meets(s, places) == \E y \in Sessions \ {s} : session[y].at \in places

\* The request is about the same rows as before.
SameRows(s) == session'[s].row = session[s].row /\ session'[s].update = session[s].update
SameReading(s) ==
  /\ session'[s].since = session[s].since /\ session'[s].found = session[s].found
  /\ session'[s].target = session[s].target

LEMMA EndsIs ==
  ASSUME SessionTyped, NEW s \in Sessions, Ends(s)
  PROVE  Alone(s) /\ session'[s] = Idle
  BY IdleTyped DEF SessionTyped, Ends, Alone

LEMMA GoesIs ==
  ASSUME SessionTyped, NEW s \in Sessions, NEW place \in Places, Goes(s, place)
  PROVE  /\ Alone(s) /\ session'[s].at = place /\ SameRows(s) /\ SameReading(s)
         /\ session'[s].overlapped = session[s].overlapped
<1>1. session[s] \in Requests /\ session' = [session EXCEPT ![s] = [session[s] EXCEPT !.at = place]]
  BY DEF SessionTyped, Goes
<1>2. [session[s] EXCEPT !.at = place] \in Requests
  BY <1>1 DEF Requests
<1> QED
  BY <1>1, <1>2 DEF Requests, SessionTyped, Alone, SameRows, SameReading

LEMMA RunDetectionIs ==
  ASSUME DriftTyped, NEW s \in Sessions, RunDetection(s)
  PROVE  /\ Alone(s)
         /\ session'[s].at = "metadata" /\ session'[s].since = Now /\ session'[s].target = target
         /\ session'[s].found =
              (IF tracked THEN {} ELSE {"workflow_files_missing"})
                 \cup (IF environment = "none" THEN {} ELSE {"env_metadata_empty"})
                 \cup (IF environment = "orphaned" THEN OfTarget ELSE {})
         /\ session'[s].row = 0 /\ session'[s].update = 0
<1> DEFINE found == (IF tracked THEN {} ELSE {"workflow_files_missing"})
                      \cup (IF environment = "none" THEN {} ELSE {"env_metadata_empty"})
                      \cup (IF environment = "orphaned" THEN OfTarget ELSE {})
           r == [Idle EXCEPT !.at = "metadata", !.since = Now, !.found = found, !.target = target]
<1>1. found \in SUBSET Codes
  BY CodesAre
<1>2. target \in Nat /\ Now \in Time
  BY NowTyped DEF DriftTyped, FactsTyped
<1>3. session' = [session EXCEPT ![s] = r]
  BY DEF RunDetection
<1> HIDE DEF found
<1>4. r \in Requests
  BY <1>1, <1>2, IdleTyped DEF Requests, Places
<1>5. r.at = "metadata" /\ r.since = Now /\ r.target = target /\ r.found = found /\ r.row = 0 /\ r.update = 0
  BY DEF Idle
<1> HIDE DEF r
<1> QED
  BY <1>3, <1>4, <1>5 DEF found, DriftTyped, SessionTyped, Alone

LEMMA ListEnvMetadataIs ==
  ASSUME DriftTyped, NEW s \in Sessions, ListEnvMetadata(s)
  PROVE  /\ Alone(s) /\ SameRows(s) /\ session'[s].at = "token"
         /\ session'[s].since = session[s].since
         /\ session'[s].found = IF environment \in {"some", "orphaned"} THEN session[s].found \ {"env_metadata_empty"}
                                ELSE session[s].found
<1> DEFINE found == IF environment \in {"some", "orphaned"} THEN session[s].found \ {"env_metadata_empty"}
                    ELSE session[s].found
           r == [session[s] EXCEPT !.at = "token", !.found = found]
<1>1. session[s] \in Requests /\ session' = [session EXCEPT ![s] = r]
  BY DEF ListEnvMetadata, DriftTyped, SessionTyped
<1>2. found \in SUBSET (Codes \cup SnapshotCodes)
  BY <1>1 DEF Requests
<1> HIDE DEF found
<1>3. r \in Requests /\ r.at = "token" /\ r.found = found /\ r.since = session[s].since
      /\ r.row = session[s].row /\ r.update = session[s].update
  BY <1>1, <1>2 DEF Requests, Places
<1> HIDE DEF r
<1> QED
  BY <1>1, <1>3 DEF found, DriftTyped, SessionTyped, Alone, SameRows

LEMMA FindTokenStatusIs ==
  ASSUME DriftTyped, NEW s \in Sessions, FindTokenStatus(s)
  PROVE  /\ Alone(s) /\ SameRows(s) /\ session'[s].at = "read"
         /\ session'[s].since = session[s].since
         /\ session'[s].found = IF token = 0 THEN session[s].found \cup {"ci_token_missing"} ELSE session[s].found
<1> DEFINE found == IF token = 0 THEN session[s].found \cup {"ci_token_missing"} ELSE session[s].found
           r == [session[s] EXCEPT !.at = "read", !.found = found]
<1>1. session[s] \in Requests /\ session' = [session EXCEPT ![s] = r]
  BY DEF FindTokenStatus, DriftTyped, SessionTyped, CiAuth
<1>2. found \in SUBSET (Codes \cup SnapshotCodes)
  BY <1>1, CodesAre DEF Requests
<1> HIDE DEF found
<1>3. r \in Requests /\ r.at = "read" /\ r.found = found /\ r.since = session[s].since
      /\ r.row = session[s].row /\ r.update = session[s].update
  BY <1>1, <1>2 DEF Requests, Places
<1> HIDE DEF r
<1> QED
  BY <1>1, <1>3 DEF found, DriftTyped, SessionTyped, Alone, SameRows

LEMMA MetIs ==
  ASSUME SessionTyped, NEW s \in Sessions, NEW its \in Requests, NEW places, Among(s, its, places)
  PROVE  /\ Met(s, places)
         /\ session'[s].at = its.at /\ session'[s].found = its.found /\ session'[s].health = its.health
         /\ session'[s].rows = its.rows /\ session'[s].todo = its.todo /\ session'[s].row = its.row
         /\ session'[s].target = its.target /\ session'[s].update = its.update /\ session'[s].since = its.since
         /\ session'[s].overlapped <=> (its.overlapped \/ Meets(s, places))
<1> DEFINE met == \E y \in Sessions \ {s} : session[y].at \in places
           b == its.overlapped \/ met
           r == [its EXCEPT !.overlapped = b]
<1>1. /\ Becoming(s, r) /\ r \in Requests
      /\ \A y \in Sessions \ {s} : session[y].at \in places => session'[y].overlapped
      /\ \A y \in Sessions \ {s} : session[y].at \notin places => session'[y] = session[y]
  BY AmongIs
<1>2. b \in BOOLEAN
  BY DEF Requests
<1>3. b <=> (its.overlapped \/ Meets(s, places))
  BY DEF Meets
<1>4. Met(s, places) /\ session'[s] = r
  BY <1>1 DEF Met, Becoming, SessionTyped
<1> HIDE DEF b, met
<1>5. /\ r.at = its.at /\ r.found = its.found /\ r.health = its.health
      /\ r.rows = its.rows /\ r.todo = its.todo /\ r.row = its.row
      /\ r.target = its.target /\ r.update = its.update /\ r.since = its.since /\ r.overlapped = b
  BY DEF Requests
<1> HIDE DEF r
<1> QED
  BY <1>1, <1>2, <1>3, <1>4, <1>5

LEMMA FindActiveIs ==
  ASSUME DriftTyped, NEW s \in Sessions, session[s].found \subseteq Codes, FindActive(s)
  PROVE  /\ Met(s, Replacing) /\ SameRows(s) /\ SameReading(s)
         /\ session'[s].at = "resolve" /\ session'[s].rows = NotFound(s) /\ session'[s].todo = Missing(s)
         /\ session'[s].overlapped <=> (session[s].overlapped \/ Meets(s, Replacing))
<1> DEFINE r == [session[s] EXCEPT !.at = "resolve", !.rows = NotFound(s), !.todo = Missing(s)]
<1>1. session[s] \in Requests /\ Among(s, r, Replacing)
  BY DEF FindActive, DriftTyped, SessionTyped
<1>2. NotFound(s) \subseteq Nat
  BY RowsOfTyped DEF NotFound, DriftTyped
<1>3. Missing(s) \subseteq Codes
  BY DEF Missing
<1>4. r \in Requests
  BY <1>1, <1>2, <1>3 DEF Requests, Places
<1>5. /\ r.at = "resolve" /\ r.rows = NotFound(s) /\ r.todo = Missing(s) /\ r.row = session[s].row
      /\ r.update = session[s].update /\ r.since = session[s].since /\ r.found = session[s].found
      /\ r.target = session[s].target /\ r.overlapped = session[s].overlapped
  BY <1>1 DEF Requests
<1> HIDE DEF r
<1> QED
  BY <1>1, <1>4, <1>5, MetIs DEF DriftTyped, SameRows, SameReading

LEMMA GoalIs ==
  ASSUME DriftTyped, NEW s \in Sessions, NEW todo \in SUBSET Codes, Goal(s, todo)
  PROVE  /\ Alone(s)
         /\ todo = {} => session'[s] = Idle
         /\ todo # {} => /\ SameRows(s) /\ SameReading(s)
                         /\ session'[s].at = "place" /\ session'[s].todo = todo
                         /\ session'[s].overlapped = session[s].overlapped
<1> DEFINE r == [session[s] EXCEPT !.at = "place", !.todo = todo]
           its == IF todo = {} THEN Idle ELSE r
<1>1. session[s] \in Requests
  BY DEF DriftTyped, SessionTyped
<1>2. session' = [session EXCEPT ![s] = its]
  BY DEF Goal
<1>3. /\ r \in Requests
      /\ r.at = "place" /\ r.todo = todo /\ r.row = session[s].row /\ r.update = session[s].update
      /\ r.since = session[s].since /\ r.found = session[s].found /\ r.target = session[s].target
      /\ r.overlapped = session[s].overlapped
  BY <1>1 DEF Requests, Places
<1> HIDE DEF r
<1>4. its \in Requests
  BY <1>3, IdleTyped
<1>5. Alone(s) /\ session'[s] = its
  BY <1>2, <1>4 DEF DriftTyped, SessionTyped, Alone
<1> QED
  BY <1>3, <1>5 DEF SameRows, SameReading

\* A request begins from nothing.
LEMMA RepairIs ==
  ASSUME DriftTyped, NEW s \in Sessions, NEW i \in DOMAIN finding, Repair(s, i)
  PROVE  /\ Alone(s) /\ session'[s].at = "repair" /\ session'[s].row = i /\ session'[s].update = 0
<1> DEFINE r == [Idle EXCEPT !.at = "repair", !.row = i]
<1>1. i \in Nat
  BY RowsOfTyped DEF DriftTyped
<1>2. r \in Requests /\ session' = [session EXCEPT ![s] = r]
  BY <1>1, IdleTyped DEF Requests, Repair, Places
<1>3. r.at = "repair" /\ r.row = i /\ r.update = 0
  BY DEF Idle
<1> HIDE DEF r
<1> QED
  BY <1>2, <1>3 DEF DriftTyped, SessionTyped, Alone

LEMMA MarkedAmong ==
  ASSUME DriftTyped, NEW s \in Sessions, NEW places, Among(s, Idle, places)
  PROVE  /\ Met(s, places) /\ session'[s].at = "idle" /\ session'[s].row = 0 /\ session'[s].update = 0
<1>1. Idle.at = "idle" /\ Idle.row = 0 /\ Idle.update = 0
  BY DEF Idle
<1> QED
  BY <1>1, MetIs, IdleTyped DEF DriftTyped

LEMMA LocalFindingsAre == LocalSnapshotFindings(Overview) \subseteq SnapshotCodes
  BY DEF LocalSnapshotFindings

LEMMA SyncProjectSnapshotIs ==
  ASSUME DriftTyped, NEW s \in Sessions, SyncProjectSnapshot(s)
  PROVE  /\ Met(s, {"snapshot"}) /\ session'[s].at = "snapshot" /\ session'[s].row = 0 /\ session'[s].update = 0
         /\ session'[s].found = LocalSnapshotFindings(Overview)
         /\ session'[s].health = OverviewHealth(Overview) /\ session'[s].since = Now
         /\ session'[s].overlapped <=> Meets(s, {"snapshot"})
<1> DEFINE r == [Idle EXCEPT !.at = "snapshot", !.found = LocalSnapshotFindings(Overview),
                             !.health = OverviewHealth(Overview), !.since = Now]
<1>1. Among(s, r, {"snapshot"})
  BY DEF SyncProjectSnapshot
<1>2. Now \in Time /\ OverviewHealth(Overview) \in {"none", "ok", "warning"}
  BY NowTyped DEF OverviewHealth, DriftTyped
<1>3. r \in Requests
  BY <1>2, LocalFindingsAre, IdleTyped DEF Requests, Places
<1>4. /\ r.at = "snapshot" /\ r.row = 0 /\ r.update = 0 /\ r.found = LocalSnapshotFindings(Overview)
      /\ r.health = OverviewHealth(Overview) /\ r.since = Now /\ r.overlapped = FALSE
  BY DEF Idle
<1> HIDE DEF r
<1> QED
  BY <1>1, <1>3, <1>4, MetIs DEF DriftTyped

LEMMA CreateWorkflowUpdateIs ==
  ASSUME DriftTyped, NEW s \in Sessions, CreateWorkflowUpdate(s)
  PROVE  /\ Met(s, Updating) /\ session'[s].at = "branch" /\ session'[s].row = 0 /\ session'[s].update = 0
         /\ session'[s].overlapped <=> Meets(s, Updating)
<1> DEFINE r == [Idle EXCEPT !.at = "branch"]
<1>1. Among(s, r, Updating)
  BY DEF CreateWorkflowUpdate
<1>2. r \in Requests /\ r.at = "branch" /\ r.row = 0 /\ r.update = 0 /\ r.overlapped = FALSE
  BY IdleTyped DEF Requests, Idle, Places
<1> HIDE DEF r
<1> QED
  BY <1>1, <1>2, MetIs DEF DriftTyped

LEMMA CreateBranchIs ==
  ASSUME DriftTyped, NEW s \in Sessions, CreateBranch(s)
  PROVE  /\ Alone(s) /\ session'[s].at = "files" /\ session'[s].update = Len(update) + 1
         /\ session'[s].row = session[s].row /\ session'[s].overlapped = session[s].overlapped
<1> DEFINE u == Len(update) + 1
           r == [session[s] EXCEPT !.at = "files", !.update = u]
<1>1. session[s] \in Requests /\ u \in Nat
  BY RowsOfTyped DEF DriftTyped, SessionTyped
<1>2. session' = [session EXCEPT ![s] = r]
  BY <1>1 DEF CreateBranch
<1> HIDE DEF u
<1>3. r \in Requests /\ r.at = "files" /\ r.update = u /\ r.row = session[s].row
      /\ r.overlapped = session[s].overlapped
  BY <1>1 DEF Requests, Places
<1> HIDE DEF r
<1> QED
  BY <1>2, <1>3 DEF u, DriftTyped, SessionTyped, Alone

-----------------------------------------------------------------------------
(* Drift: what a step makes of the findings and of the updates.            *)

\* The findings there were stay what they are, and none becomes active again.
OldFindings ==
  /\ Len(finding) <= Len(finding')
  /\ \A i \in DOMAIN finding :
       /\ i \in DOMAIN finding' /\ finding'[i].code = finding[i].code
       /\ finding'[i].since = finding[i].since /\ finding'[i].overlapped = finding[i].overlapped
       /\ finding'[i].status = "active" => Active(i)
NoNewFinding == DOMAIN finding' = DOMAIN finding

LEMMA OldStay == FindingTyped /\ UNCHANGED finding => OldFindings /\ NoNewFinding /\ FindingTyped'
<1> SUFFICES ASSUME FindingTyped, UNCHANGED finding PROVE OldFindings /\ NoNewFinding /\ FindingTyped'
  OBVIOUS
<1>1. finding' = finding /\ Len(finding) \in Nat
  BY RowsOfTyped
<1> QED
  BY <1>1 DEF OldFindings, NoNewFinding, FindingTyped, Active

LEMMA MarkedIs ==
  ASSUME FindingTyped, NEW rows, NEW status \in {"resolved", "ignored"}, Marked(rows, status)
  PROVE  /\ FindingTyped' /\ OldFindings /\ NoNewFinding
         /\ \A i \in DOMAIN finding :
              /\ finding'[i].target = finding[i].target
              /\ finding'[i].status = IF i \in rows THEN status ELSE finding[i].status
<1> DEFINE n == Len(finding)
<1>1. n \in Nat /\ DOMAIN finding = 1..n /\ \A i \in 1..n : finding[i] \in Findings
  BY RowsOfTyped
<1>2. DOMAIN finding' = 1..n
  BY <1>1 DEF Marked
<1>3. ASSUME NEW i \in 1..n
      PROVE  /\ finding'[i] \in Findings
             /\ finding'[i].code = finding[i].code /\ finding'[i].since = finding[i].since
             /\ finding'[i].overlapped = finding[i].overlapped /\ finding'[i].target = finding[i].target
             /\ finding'[i].status = IF i \in rows THEN status ELSE finding[i].status
  <2>1. finding[i] \in Findings
    BY <1>1
  <2>2. finding'[i] = IF i \in rows THEN [finding[i] EXCEPT !.status = status] ELSE finding[i]
    BY <1>1 DEF Marked
  <2> QED
    BY <2>1, <2>2 DEF Findings, FindingStatuses
<1>4. finding' \in [1..n -> Findings]
  BY <1>1, <1>3 DEF Marked
<1>5. finding' \in Seq(Findings) /\ Len(finding') = n
  BY <1>1, <1>2, <1>4
<1> QED
  BY <1>1, <1>2, <1>3, <1>5 DEF FindingTyped, OldFindings, NoNewFinding, Active

LEMMA EnvironmentFindings ==
  ASSUME FindingTyped, EnvironmentChanges
  PROVE  /\ FindingTyped' /\ OldFindings /\ NoNewFinding
         /\ \A i \in DOMAIN finding : finding'[i].status = finding[i].status
                                      /\ finding'[i].target \in {finding[i].target, 0}
<1> DEFINE n == Len(finding)
<1>1. n \in Nat /\ DOMAIN finding = 1..n /\ \A i \in 1..n : finding[i] \in Findings
  BY RowsOfTyped
<1>2. CASE UNCHANGED finding
  BY <1>1, <1>2, OldStay
<1>3. CASE finding' = [i \in DOMAIN finding |-> [finding[i] EXCEPT !.target = 0]]
  <2>1. ASSUME NEW i \in 1..n
        PROVE  /\ finding'[i] \in Findings
               /\ finding'[i].code = finding[i].code /\ finding'[i].since = finding[i].since
               /\ finding'[i].overlapped = finding[i].overlapped /\ finding'[i].target = 0
               /\ finding'[i].status = finding[i].status
    <3>1. finding[i] \in Findings /\ finding'[i] = [finding[i] EXCEPT !.target = 0]
      BY <1>1, <1>3
    <3> QED
      BY <3>1 DEF Findings
  <2>2. finding' \in [1..n -> Findings]
    BY <1>1, <1>3, <2>1
  <2>3. finding' \in Seq(Findings) /\ Len(finding') = n /\ DOMAIN finding' = 1..n
    BY <1>1, <2>2
  <2> QED
    BY <1>1, <2>1, <2>3 DEF FindingTyped, OldFindings, NoNewFinding, Active
<1> QED
  BY <1>2, <1>3 DEF EnvironmentChanges

LEMMA InsertIs ==
  ASSUME DriftTyped, NEW s \in Sessions, session[s].todo \subseteq Codes, session[s].todo # {}, InsertFinding(s)
  PROVE  LET k == Len(finding) + 1
             code == NextCode(s)
         IN  /\ FindingTyped' /\ OldFindings /\ DOMAIN finding' = DOMAIN finding \cup {k}
             /\ \A i \in DOMAIN finding : finding'[i] = finding[i]
             /\ code \in session[s].todo /\ finding'[k].code = code /\ finding'[k].status = "active"
             /\ finding'[k].since = session[s].since /\ finding'[k].overlapped = session[s].overlapped
             /\ finding'[k].target = TargetOf(s, code)
             /\ Goal(s, session[s].todo \ {code})
<1> DEFINE n == Len(finding)
           code == NextCode(s)
           f == [code |-> code, status |-> "active", target |-> TargetOf(s, code),
                 overlapped |-> session[s].overlapped, since |-> session[s].since]
<1>1. n \in Nat /\ DOMAIN finding = 1..n
  BY RowsOfTyped DEF DriftTyped
<1>2. code \in session[s].todo /\ code \in Codes
  BY NextCodeIs
<1>3. session[s] \in Requests
  BY DEF DriftTyped, SessionTyped
<1>4. TargetOf(s, code) \in Nat
  BY <1>3 DEF TargetOf, Requests
<1>5. f \in Findings
  BY <1>2, <1>3, <1>4 DEF Findings, Requests, FindingStatuses
<1>6. finding' = Append(finding, f) /\ Goal(s, session[s].todo \ {code})
  BY DEF InsertFinding
<1>7. f.code = code /\ f.status = "active" /\ f.target = TargetOf(s, code)
      /\ f.since = session[s].since /\ f.overlapped = session[s].overlapped
  OBVIOUS
<1> HIDE DEF f, code
<1>8. finding \in Seq(Findings)
  BY DEF DriftTyped, FindingTyped
<1>9. /\ finding' \in Seq(Findings) /\ Len(finding') = n + 1 /\ DOMAIN finding' = 1..n + 1
      /\ finding'[n + 1] = f /\ \A i \in 1..n : finding'[i] = finding[i]
  BY <1>5, <1>6, <1>8
<1> QED
  BY <1>1, <1>2, <1>6, <1>7, <1>9 DEF FindingTyped, OldFindings, Active, code

LEMMA UpdateIs ==
  ASSUME UpdateTyped, NEW u \in DOMAIN update, NEW b \in Branched, update' = [update EXCEPT ![u] = b]
  PROVE  /\ UpdateTyped' /\ DOMAIN update' = DOMAIN update /\ Len(update') = Len(update) /\ update'[u] = b
         /\ \A v \in DOMAIN update \ {u} : update'[v] = update[v]
  BY DEF UpdateTyped

-----------------------------------------------------------------------------
(* Drift: types, and what every step leaves standing.                      *)

RequestSteps(s) == Detection(s) \/ Repairing(s) \/ Snapshots(s) \/ Updates(s) \/ RequestCutShort(s)
TokenIssued == IssueToken /\ UNCHANGED <<tracked, environment, target, changes, finding, session, update, snapshot>>
Merged == \E u \in DOMAIN update : MergeUpdate(u)
Drifts == DriftStep \/ TokenIssued \/ Merged \/ UNCHANGED driftVars

\* The facts go on, and are the same while nothing counts a change.
Onward ==
  /\ tracked' = tracked /\ issued <= issued' /\ changes <= changes'
  /\ changes' = changes => environment' = environment

LEMMA FactsGo ==
  ASSUME FactsTyped, Drifts
  PROVE  FactsTyped' /\ Onward
<1>0. MaxTokens \in Nat /\ issued \in Nat /\ changes \in Nat /\ target \in 1..changes + 1
  BY DriftAssumption DEF DriftAssumption, FactsTyped
<1>1. CASE UNCHANGED facts
  BY <1>0, <1>1 DEF facts, FactsTyped, Onward
<1>2. CASE EnvironmentChanges
  <2>1. environment' \in Environments
    BY <1>2 DEF EnvironmentChanges, Becomes, Environments, FactsTyped
  <2>2. target' \in 1..changes' + 1 /\ changes' = changes + 1
    BY <1>0, <1>2 DEF EnvironmentChanges
  <2> QED
    BY <1>0, <1>2, <2>1, <2>2 DEF EnvironmentChanges, FactsTyped, Onward
<1>3. CASE IssueToken /\ UNCHANGED <<tracked, environment, target, changes>>
  BY <1>0, <1>3 DEF IssueToken, FactsTyped, Onward
<1>4. ASSUME NEW s \in Sessions, RequestSteps(s)
      PROVE  UNCHANGED facts \/ (IssueToken /\ UNCHANGED <<tracked, environment, target, changes>>)
  <2>1. CASE Detection(s)
    BY <2>1 DEF Detection, RunDetection, ListEnvMetadata, FindTokenStatus, FindActive, ResolveOthers, ResolveFails,
                InsertFinding, InsertRefused
  <2>2. CASE Repairing(s)
    BY <2>2 DEF Repairing, MarkIgnored, RotateToken, MarkResolved, RepairRefused, Repair
  <2>3. CASE Snapshots(s) \/ Updates(s) \/ RequestCutShort(s)
    BY <2>3 DEF Snapshots, SyncProjectSnapshot, CreateSnapshot, RequestCutShort,
                Updates, CreateWorkflowUpdate, CreateBranch, PutFiles, CreatePullRequest, CreateRequest
  <2> QED
    BY <1>4, <2>1, <2>2, <2>3 DEF RequestSteps
<1>5. DriftStep => EnvironmentChanges \/ \E s \in Sessions : RequestSteps(s)
  BY DEF DriftStep, RequestSteps
<1>6. Merged => UNCHANGED facts
  BY DEF Merged, MergeUpdate
<1>7. (UNCHANGED driftVars) => UNCHANGED facts
  BY DEF driftVars
<1> QED
  BY <1>1, <1>2, <1>3, <1>4, <1>5, <1>6, <1>7 DEF Drifts, TokenIssued

LEMMA DetectionIs ==
  ASSUME DriftInv, NEW s \in Sessions, Detection(s)
  PROVE  /\ SessionTyped' /\ \A y \in Sessions \ {s} : Beside(y)
         /\ session'[s].row \in {session[s].row, 0} /\ session'[s].update \in {session[s].update, 0}
         /\ FindingTyped' /\ OldFindings
<1>0. DriftTyped /\ SessionTyped /\ FindingTyped /\ AsRead(s) /\ Aimed(s) /\ session[s] \in Requests
  BY DEF DriftInv, DriftTyped, FindingInv, SessionTyped
<1>1. ASSUME Alone(s) PROVE SessionTyped' /\ \A y \in Sessions \ {s} : Beside(y)
  BY <1>1 DEF Alone, Beside
<1>2. ASSUME Met(s, Replacing) PROVE SessionTyped' /\ \A y \in Sessions \ {s} : Beside(y)
  BY <1>2 DEF Met
<1>3. UNCHANGED finding => FindingTyped' /\ OldFindings
  BY <1>0, OldStay
<1>4. Idle.row = 0 /\ Idle.update = 0
  BY DEF Idle
<1>5. CASE RunDetection(s)
  BY <1>0, <1>1, <1>3, <1>5, RunDetectionIs DEF RunDetection
<1>6. CASE ListEnvMetadata(s)
  BY <1>0, <1>1, <1>3, <1>6, ListEnvMetadataIs DEF ListEnvMetadata, SameRows
<1>7. CASE FindTokenStatus(s)
  BY <1>0, <1>1, <1>3, <1>7, FindTokenStatusIs DEF FindTokenStatus, SameRows
<1>8. CASE FindActive(s)
  <2>1. session[s].found \subseteq Codes
    BY <1>0, <1>8 DEF FindActive, At, AsRead, Detecting
  <2> QED
    BY <1>0, <1>2, <1>3, <1>8, <2>1, FindActiveIs DEF FindActive, SameRows
<1>9. CASE ResolveOthers(s)
  <2>1. session[s].todo \in SUBSET Codes /\ Goal(s, session[s].todo) /\ Marked(session[s].rows, "resolved")
    BY <1>0, <1>9 DEF ResolveOthers, Requests
  <2>2. FindingTyped' /\ OldFindings
    BY <1>0, <2>1, MarkedIs
  <2> QED
    BY <1>0, <1>1, <1>4, <2>1, <2>2, GoalIs DEF SameRows
<1>10. CASE ResolveFails(s)
  <2>1. PICK some : Marked(some, "resolved")
    BY <1>10 DEF ResolveFails
  <2>2. FindingTyped' /\ OldFindings
    BY <1>0, <2>1, MarkedIs
  <2> QED
    BY <1>0, <1>1, <1>4, <1>10, <2>2, EndsIs DEF ResolveFails
<1>11. CASE InsertFinding(s)
  <2>1. session[s].todo \subseteq Codes /\ session[s].todo # {}
    BY <1>0, <1>11 DEF InsertFinding, Requests, Aimed
  <2>2. FindingTyped' /\ OldFindings /\ Goal(s, session[s].todo \ {NextCode(s)})
    BY <1>0, <1>11, <2>1, InsertIs
  <2>3. session[s].todo \ {NextCode(s)} \in SUBSET Codes
    BY <2>1
  <2> QED
    BY <1>0, <1>1, <1>4, <2>2, <2>3, GoalIs DEF SameRows
<1>12. CASE InsertRefused(s)
  BY <1>0, <1>1, <1>3, <1>4, <1>12, EndsIs DEF InsertRefused
<1> QED
  BY <1>5, <1>6, <1>7, <1>8, <1>9, <1>10, <1>11, <1>12 DEF Detection

LEMMA RepairingIs ==
  ASSUME DriftTyped, NEW s \in Sessions, Repairing(s)
  PROVE  /\ SessionTyped' /\ \A y \in Sessions \ {s} : Beside(y)
         /\ session'[s].row \in {session[s].row, 0} \cup DOMAIN finding
         /\ session'[s].update \in {session[s].update, 0}
         /\ FindingTyped' /\ OldFindings /\ NoNewFinding
<1>0. SessionTyped /\ FindingTyped
  BY DEF DriftTyped
<1>1. ASSUME Alone(s) PROVE SessionTyped' /\ \A y \in Sessions \ {s} : Beside(y)
  BY <1>1 DEF Alone, Beside
<1>2. UNCHANGED finding => FindingTyped' /\ OldFindings /\ NoNewFinding
  BY <1>0, OldStay
<1>3. Idle.row = 0 /\ Idle.update = 0
  BY DEF Idle
<1>4. ASSUME NEW i \in DOMAIN finding, Repair(s, i)
      PROVE  Alone(s) /\ session'[s].row = i /\ session'[s].update = 0 /\ UNCHANGED finding
  BY <1>4, RepairIs DEF Repair
<1>5. CASE MarkIgnored(s) \/ MarkResolved(s)
  <2>1. PICK status \in {"resolved", "ignored"} : Marked({session[s].row}, status)
    BY <1>5 DEF MarkIgnored, MarkResolved
  <2>2. Among(s, Idle, Replacing)
    BY <1>5 DEF MarkIgnored, MarkResolved
  <2>3. FindingTyped' /\ OldFindings /\ NoNewFinding
    BY <1>0, <2>1, MarkedIs
  <2> QED
    BY <2>2, <2>3, MarkedAmong DEF Met
<1>6. CASE RotateToken(s)
  BY <1>0, <1>1, <1>2, <1>6, GoesIs DEF RotateToken, Places, SameRows
<1>7. CASE RepairRefused(s)
  BY <1>0, <1>1, <1>2, <1>3, <1>7, EndsIs DEF RepairRefused
<1>8. CASE \E i \in DOMAIN finding : Repair(s, i)
  BY <1>1, <1>2, <1>4, <1>8
<1> QED
  BY <1>5, <1>6, <1>7, <1>8 DEF Repairing

LEMMA SnapshotsIs ==
  ASSUME DriftInv, NEW s \in Sessions, Snapshots(s)
  PROVE  /\ SessionTyped' /\ \A y \in Sessions \ {s} : Beside(y)
         /\ session'[s].row = 0 /\ session'[s].update = 0
         /\ SnapshotTyped' /\ UNCHANGED finding /\ UNCHANGED update
<1>0. DriftTyped /\ SessionTyped /\ SnapshotTyped /\ Pictured(s) /\ session[s] \in Requests
  BY DEF DriftInv, DriftTyped, SnapshotInv, SessionTyped
<1>1. CASE SyncProjectSnapshot(s)
  BY <1>0, <1>1, SyncProjectSnapshotIs DEF SyncProjectSnapshot, Met, SnapshotTyped
<1>2. CASE CreateSnapshot(s)
  <2>1. Alone(s) /\ session'[s] = Idle
    BY <1>0, <1>2, EndsIs DEF CreateSnapshot
  <2>2. session[s].found \in SUBSET SnapshotCodes
    BY <1>0, <1>2 DEF CreateSnapshot, Pictured
  <2>3. snapshot' \in Snapshot
    BY <1>0, <1>2, <2>2 DEF CreateSnapshot, Requests, Snapshot
  <2> QED
    BY <1>2, <2>1, <2>3 DEF Alone, Beside, Idle, SnapshotTyped, CreateSnapshot
<1> QED
  BY <1>1, <1>2 DEF Snapshots

\* What a request that has a branch makes of it.
LEMMA StageIs ==
  ASSUME UpdateTyped, NEW u \in DOMAIN update, NEW stage \in {"branch", "files", "open", "merged"},
         update' = [update EXCEPT ![u].at = stage]
  PROVE  /\ UpdateTyped' /\ DOMAIN update' = DOMAIN update /\ Len(update') = Len(update)
         /\ update'[u].at = stage /\ update'[u].recorded = update[u].recorded
         /\ update'[u].overlapped = update[u].overlapped /\ update'[u].cut = update[u].cut
         /\ \A v \in DOMAIN update \ {u} : update'[v] = update[v]
<1>1. update[u] \in Branched
  BY RowsOfTyped
<1> DEFINE b == [update[u] EXCEPT !.at = stage]
<1>2. b \in Branched /\ b.at = stage /\ b.recorded = update[u].recorded
      /\ b.overlapped = update[u].overlapped /\ b.cut = update[u].cut
  BY <1>1 DEF Branched
<1>3. update' = [update EXCEPT ![u] = b]
  OBVIOUS
<1> HIDE DEF b
<1> QED
  BY <1>2, <1>3, UpdateIs

LEMMA RecordIs ==
  ASSUME UpdateTyped, NEW s \in Sessions, session[s].update \in DOMAIN update,
         session[s].overlapped \in BOOLEAN, CreateRequest(s)
  PROVE  LET u == session[s].update
         IN  /\ UpdateTyped' /\ DOMAIN update' = DOMAIN update /\ Len(update') = Len(update)
             /\ update'[u].recorded /\ update'[u].overlapped = session[s].overlapped
             /\ update'[u].at = update[u].at
             /\ \A v \in DOMAIN update \ {u} : update'[v] = update[v]
<1> DEFINE u == session[s].update
           o == session[s].overlapped
           b == [update[u] EXCEPT !.recorded = TRUE, !.overlapped = o]
<1>1. update[u] \in Branched /\ o \in BOOLEAN
  BY RowsOfTyped
<1>2. update' = [update EXCEPT ![u] = b]
  BY RowsOfTyped DEF CreateRequest, UpdateTyped, Branched
<1> HIDE DEF o
<1>3. b \in Branched /\ b.recorded /\ b.overlapped = o /\ b.at = update[u].at
  BY <1>1 DEF Branched
<1> HIDE DEF b
<1> QED
  BY <1>2, <1>3, UpdateIs DEF o

LEMMA CreateBranchUpdate ==
  ASSUME DriftTyped, NEW s \in Sessions, CreateBranch(s)
  PROVE  /\ UpdateTyped' /\ DOMAIN update' = DOMAIN update \cup {Len(update) + 1}
         /\ Len(update') = Len(update) + 1
         /\ LET b == update'[Len(update) + 1] IN b.at = "branch" /\ ~b.recorded
         /\ \A v \in DOMAIN update : update'[v] = update[v]
<1> DEFINE b == [at |-> "branch", recorded |-> FALSE, overlapped |-> FALSE, cut |-> FALSE]
<1>1. b \in Branched /\ b.at = "branch" /\ ~b.recorded /\ update' = Append(update, b)
  BY DEF Branched, CreateBranch
<1> HIDE DEF b
<1> QED
  BY <1>1, RowsOfTyped DEF DriftTyped, UpdateTyped

LEMMA CutIs ==
  ASSUME DriftTyped, NEW s \in Sessions, RequestCutShort(s)
  PROVE  /\ UpdateTyped' /\ DOMAIN update' = DOMAIN update /\ Len(update') = Len(update)
         /\ \A u \in DOMAIN update :
              /\ u = session[s].update =>
                   /\ update'[u].cut /\ update'[u].at = update[u].at
                   /\ update'[u].recorded = update[u].recorded
                   /\ update'[u].overlapped = update[u].overlapped
              /\ u # session[s].update => update'[u] = update[u]
<1> DEFINE n == Len(update)
<1>1. n \in Nat /\ DOMAIN update = 1..n /\ \A u \in 1..n : update[u] \in Branched
  BY RowsOfTyped DEF DriftTyped
<1>2. update' = [u \in 1..n |-> IF u = session[s].update THEN [update[u] EXCEPT !.cut = TRUE] ELSE update[u]]
  BY <1>1 DEF RequestCutShort
<1>3. ASSUME NEW u \in 1..n
      PROVE  /\ update'[u] \in Branched
             /\ u = session[s].update =>
                  /\ update'[u].cut /\ update'[u].at = update[u].at
                  /\ update'[u].recorded = update[u].recorded
                  /\ update'[u].overlapped = update[u].overlapped
             /\ u # session[s].update => update'[u] = update[u]
  <2>1. update[u] \in Branched
    BY <1>1
  <2>2. update'[u] = IF u = session[s].update THEN [update[u] EXCEPT !.cut = TRUE] ELSE update[u]
    BY <1>2
  <2> QED
    BY <2>1, <2>2 DEF Branched
<1>4. update' \in [1..n -> Branched]
  BY <1>2, <1>3
<1>5. update' \in Seq(Branched) /\ Len(update') = n /\ DOMAIN update' = 1..n
  BY <1>1, <1>4
<1> QED
  BY <1>1, <1>3, <1>5 DEF UpdateTyped

\* Updates are only added, and keep what is recorded of them.
LEMMA UpdatesIs ==
  ASSUME DriftInv, NEW s \in Sessions, Updates(s)
  PROVE  /\ SessionTyped' /\ \A y \in Sessions \ {s} : Beside(y)
         /\ session'[s].row \in {session[s].row, 0}
         /\ session'[s].update \in {session[s].update, 0} \cup DOMAIN update'
         /\ UpdateTyped' /\ Len(update) <= Len(update') /\ UNCHANGED finding
<1>0. DriftTyped /\ SessionTyped /\ UpdateTyped /\ Counted(s) /\ session[s] \in Requests /\ Len(update) \in Nat
  BY RowsOfTyped DEF DriftInv, DriftTyped, AllCounted, SessionTyped
<1>1. ASSUME Alone(s) PROVE SessionTyped' /\ \A y \in Sessions \ {s} : Beside(y)
  BY <1>1 DEF Alone, Beside
<1>2. CASE CreateWorkflowUpdate(s)
  BY <1>0, <1>2, CreateWorkflowUpdateIs DEF CreateWorkflowUpdate, Met, UpdateTyped
<1>3. CASE CreateBranch(s)
  <2>1. Len(update) + 1 \in DOMAIN update' /\ Len(update) <= Len(update') /\ UpdateTyped'
    BY <1>0, <1>3, CreateBranchUpdate
  <2> QED
    BY <1>0, <1>1, <1>3, <2>1, CreateBranchIs DEF CreateBranch
<1>4. CASE PutFiles(s) \/ CreatePullRequest(s)
  <2>1. session[s].update \in DOMAIN update
    BY <1>0, <1>4 DEF Counted, Making, At, PutFiles, CreatePullRequest
  <2>2. PICK stage \in {"files", "open"} : update' = [update EXCEPT ![session[s].update].at = stage]
    BY <1>4 DEF PutFiles, CreatePullRequest
  <2>3. PICK place \in Places : Goes(s, place)
    BY <1>4 DEF PutFiles, CreatePullRequest, Places
  <2>4. UpdateTyped' /\ Len(update') = Len(update)
    BY <1>0, <2>1, <2>2, StageIs
  <2>5. Alone(s) /\ SameRows(s)
    BY <1>0, <2>3, GoesIs
  <2> QED
    BY <1>0, <1>1, <1>4, <2>4, <2>5 DEF PutFiles, CreatePullRequest, SameRows
<1>5. CASE CreateRequest(s)
  <2>1. session[s].update \in DOMAIN update
    BY <1>0, <1>5 DEF Counted, Making, At, CreateRequest
  <2>2. UpdateTyped' /\ Len(update') = Len(update)
    BY <1>0, <1>5, <2>1, RecordIs DEF Requests
  <2>3. Alone(s) /\ session'[s] = Idle
    BY <1>0, <1>5, EndsIs DEF CreateRequest
  <2> QED
    BY <1>0, <1>1, <1>5, <2>2, <2>3 DEF CreateRequest, Idle
<1> QED
  BY <1>2, <1>3, <1>4, <1>5 DEF Updates

LEMMA DriftTypedStep ==
  ASSUME DriftInv, Drifts
  PROVE  DriftTyped' /\ OldFindings
<1>0. /\ DriftTyped /\ FactsTyped /\ SessionTyped /\ FindingTyped /\ UpdateTyped /\ SnapshotTyped /\ RowsTyped
      /\ Len(finding) \in Nat /\ Len(update) \in Nat
  BY RowsOfTyped DEF DriftInv, DriftTyped
<1>1. FactsTyped'
  BY <1>0, FactsGo
<1>2. ASSUME NEW s \in Sessions, RequestSteps(s)
      PROVE  DriftTyped' /\ OldFindings
  <2>1. /\ SessionTyped' /\ \A y \in Sessions \ {s} : Beside(y)
        /\ session'[s].row \in {session[s].row, 0} \cup DOMAIN finding
        /\ session'[s].update \in {session[s].update, 0} \cup DOMAIN update'
        /\ FindingTyped' /\ OldFindings /\ UpdateTyped' /\ Len(update) <= Len(update') /\ SnapshotTyped'
    <3>1. CASE Detection(s)
      <4>1. UNCHANGED <<update, snapshot>>
        BY <3>1 DEF Detection, RunDetection, ListEnvMetadata, FindTokenStatus, FindActive, ResolveOthers,
                    ResolveFails, InsertFinding, InsertRefused
      <4> QED
        BY <1>0, <3>1, <4>1, DetectionIs DEF UpdateTyped, SnapshotTyped
    <3>2. CASE Repairing(s)
      <4>1. UNCHANGED <<update, snapshot>>
        BY <3>2 DEF Repairing, MarkIgnored, RotateToken, MarkResolved, RepairRefused, Repair
      <4> QED
        BY <1>0, <3>2, <4>1, RepairingIs DEF UpdateTyped, SnapshotTyped
    <3>3. CASE Snapshots(s)
      BY <1>0, <3>3, SnapshotsIs, OldStay DEF UpdateTyped
    <3>4. CASE Updates(s)
      <4>1. UNCHANGED snapshot
        BY <3>4 DEF Updates, CreateWorkflowUpdate, CreateBranch, PutFiles, CreatePullRequest, CreateRequest
      <4> QED
        BY <1>0, <3>4, <4>1, UpdatesIs, OldStay DEF SnapshotTyped
    <3>5. CASE RequestCutShort(s)
      <4>1. Alone(s) /\ session'[s] = Idle
        BY <1>0, <3>5, EndsIs DEF RequestCutShort
      <4>2. UNCHANGED <<finding, snapshot>>
        BY <3>5 DEF RequestCutShort
      <4> QED
        BY <1>0, <3>5, <4>1, <4>2, CutIs, OldStay DEF Alone, Beside, Idle, SnapshotTyped
    <3> QED
      BY <1>2, <3>1, <3>2, <3>3, <3>4, <3>5 DEF RequestSteps
  <2>2. Len(finding) <= Len(finding') /\ Len(finding') \in Nat /\ Len(update') \in Nat
        /\ DOMAIN finding = 1..Len(finding) /\ DOMAIN update' = 1..Len(update')
    BY <1>0, <2>1, RowsOfTyped DEF OldFindings, FindingTyped, UpdateTyped
  <2>3. ASSUME NEW y \in Sessions
        PROVE  session'[y].row \in 0..Len(finding') /\ session'[y].update \in 0..Len(update')
    <3>1. session[y].row \in 0..Len(finding) /\ session[y].update \in 0..Len(update)
      BY <1>0 DEF RowsTyped
    <3>2. CASE y = s
      BY <1>0, <2>1, <2>2, <3>1, <3>2
    <3>3. CASE y # s
      <4>1. session'[y].row = session[y].row /\ session'[y].update = session[y].update
        BY <1>0, <2>1, <3>3, BesideIs
      <4> QED
        BY <1>0, <2>1, <2>2, <3>1, <4>1
    <3> QED
      BY <3>2, <3>3
  <2> QED
    BY <1>1, <2>1, <2>3 DEF DriftTyped, RowsTyped
<1>3. CASE EnvironmentChanges
  <2>1. FindingTyped' /\ OldFindings
    BY <1>0, <1>3, EnvironmentFindings
  <2>2. UNCHANGED <<session, update, snapshot>>
    BY <1>3 DEF EnvironmentChanges
  <2>3. Len(finding) <= Len(finding') /\ Len(finding') \in Nat
    BY <2>1, RowsOfTyped DEF OldFindings, FindingTyped
  <2>4. RowsTyped'
    BY <1>0, <2>2, <2>3 DEF RowsTyped
  <2> QED
    BY <1>0, <1>1, <2>1, <2>2, <2>4 DEF DriftTyped, SessionTyped, UpdateTyped, SnapshotTyped
<1>4. CASE Merged
  <2>1. PICK u \in DOMAIN update : MergeUpdate(u)
    BY <1>4 DEF Merged
  <2>2. UpdateTyped' /\ Len(update') = Len(update)
    BY <1>0, <2>1, StageIs DEF MergeUpdate
  <2>3. UNCHANGED <<session, finding, snapshot>>
    BY <2>1 DEF MergeUpdate
  <2> QED
    BY <1>0, <1>1, <2>2, <2>3, OldStay DEF DriftTyped, SessionTyped, SnapshotTyped, RowsTyped
<1>5. CASE UNCHANGED <<finding, session, update, snapshot>>
  BY <1>0, <1>1, <1>5, OldStay DEF DriftTyped, SessionTyped, UpdateTyped, SnapshotTyped, RowsTyped
<1> QED
  BY <1>2, <1>3, <1>4, <1>5 DEF Drifts, DriftStep, RequestSteps, TokenIssued, driftVars

-----------------------------------------------------------------------------
(* Drift: detections and repairs.                                          *)

Groups == {Replacing, {"snapshot"}, Updating}

LEMMA AsReadRests ==
  ASSUME FactsTyped, FactsTyped', Onward, SessionTyped, NEW y \in Sessions, Beside(y), AsRead(y)
  PROVE  AsRead(y)'
<1>1. /\ session'[y].at = session[y].at /\ session'[y].found = session[y].found
      /\ session'[y].since = session[y].since
  BY BesideIs
<1>2. SUFFICES ASSUME session[y].at \in Detecting PROVE AsRead(y)'
  BY <1>1 DEF AsRead
<1>3. session[y].since \in Time /\ issued \in Nat /\ issued' \in Nat /\ changes \in Nat /\ changes' \in Nat
  BY DriftAssumption DEF SessionTyped, Requests, FactsTyped, DriftAssumption
<1>4. session[y].since.tokens <= issued' /\ session[y].since.changes <= changes'
  BY <1>2, <1>3 DEF AsRead, Onward, Time
<1>5. session[y].since.tokens = issued' /\ session[y].since.changes = changes' =>
        /\ session[y].since.tokens = issued /\ session[y].since.changes = changes
        /\ environment' = environment /\ token' = token
  BY <1>2, <1>3 DEF AsRead, Onward, Time, FactsTyped
<1> QED
  BY <1>1, <1>2, <1>4, <1>5 DEF AsRead, At, Onward

LEMMA AimedRests ==
  ASSUME SessionTyped, OldFindings, NEW y \in Sessions, Beside(y), Aimed(y)
  PROVE  Aimed(y)'
<1>1. /\ session'[y].at = session[y].at /\ session'[y].found = session[y].found
      /\ session'[y].rows = session[y].rows /\ session'[y].todo = session[y].todo /\ session'[y].row = session[y].row
  BY BesideIs
<1> QED
  BY <1>1 DEF Aimed, At, OldFindings

LEMMA ListedRests ==
  ASSUME SessionTyped, NEW y \in Sessions, Beside(y), Listed(y), OldFindings,
         \/ session[y].at \in Replacing => session'[y].overlapped
         \/ NoNewFinding /\ \A i \in DOMAIN finding : finding'[i].status = finding[i].status
  PROVE  Listed(y)'
<1>1. /\ session'[y].at = session[y].at /\ session'[y].found = session[y].found
      /\ session'[y].rows = session[y].rows /\ session'[y].todo = session[y].todo
      /\ session[y].overlapped => session'[y].overlapped
  BY BesideIs
<1>2. CASE session[y].at \in Replacing => session'[y].overlapped
  BY <1>1, <1>2 DEF Listed
<1>3. CASE NoNewFinding /\ \A i \in DOMAIN finding : finding'[i].status = finding[i].status
  <2>1. \A i \in DOMAIN finding : Staying(y, i)' <=> Staying(y, i)
    BY <1>1, <1>3 DEF Staying, Active, At, OldFindings
  <2>2. DOMAIN finding' = DOMAIN finding /\ \A i \in DOMAIN finding : finding'[i].code = finding[i].code
    BY <1>3 DEF NoNewFinding, OldFindings
  <2> QED
    BY <1>1, <2>1, <2>2 DEF Listed
<1> QED
  BY <1>2, <1>3

LEMMA ApartAlone ==
  ASSUME Apart, NEW s \in Sessions, Alone(s),
         \A places \in Groups : session'[s].at \in places =>
           session[s].at \in places /\ (session[s].overlapped => session'[s].overlapped)
  PROVE  Apart'
  BY DEF Apart, Alone, Groups

LEMMA ApartMet ==
  ASSUME Apart, SessionTyped, NEW s \in Sessions, NEW places \in Groups, Met(s, places),
         \A others \in Groups : session'[s].at \in others => others = places,
         session'[s].at \in places /\ Meets(s, places) => session'[s].overlapped
  PROVE  Apart'
<1> SUFFICES ASSUME NEW x \in Sessions, NEW y \in Sessions \ {x}, NEW group \in Groups,
                    session'[x].at \in group, session'[y].at \in group
             PROVE  session'[x].overlapped
  BY DEF Apart, Groups
<1>1. CASE x = s
  <2>1. group = places /\ session'[y].at = session[y].at
    BY <1>1, BesideIs DEF Met
  <2> QED
    BY <1>1, <2>1 DEF Meets
<1>2. CASE y = s
  <2>1. group = places /\ session'[x].at = session[x].at
    BY <1>2, BesideIs DEF Met
  <2> QED
    BY <1>2, <2>1 DEF Met
<1>3. CASE x # s /\ y # s
  <2>1. session'[x].at = session[x].at /\ session'[y].at = session[y].at
    BY <1>3, BesideIs DEF Met
  <2>2. session[x].overlapped
    BY <1>3, <2>1 DEF Apart, Groups
  <2> QED
    BY <1>3, <2>1, <2>2, BesideIs DEF Met
<1> QED
  BY <1>1, <1>2, <1>3

\* A finding is only ever marked, or has its target removed.
LEMMA TwinsRest ==
  ASSUME Twins, FindingTyped, OldFindings, NoNewFinding
  PROVE  Twins'
  BY DEF Twins, OldFindings, NoNewFinding, Active

LEMMA TruthfulRests ==
  ASSUME Truthful, FindingTyped, FindingTyped', OldFindings, NoNewFinding, tracked' = tracked,
         \A i \in DOMAIN finding : finding'[i].target \in {finding[i].target, 0},
         \A i \in DOMAIN finding : finding[i].code = "workflow_files_missing" /\ finding'[i].status = "resolved"
                                     => finding[i].status = "resolved"
  PROVE  Truthful'
  BY DEF Truthful, OldFindings, NoNewFinding

LEMMA MissingTyped ==
  \A s \in Sessions : Missing(s) = {code \in session[s].found : ~Known(s, code)}
  BY DEF Missing

\* Somewhere else, a request says nothing of findings.
LEMMA Elsewhere ==
  ASSUME NEW s \in Sessions, session'[s].at \notin Detecting \cup {"repair", "mark"}
  PROVE  AsRead(s)' /\ Aimed(s)' /\ Listed(s)'
  BY DEF AsRead, Aimed, Listed, At, Detecting, Replacing

\* While it reads, a detection has listed nothing yet.
LEMMA Reading ==
  ASSUME NEW s \in Sessions, session'[s].at \in {"metadata", "token", "read"}
  PROVE  Aimed(s)' /\ Listed(s)'
  BY DEF Aimed, Listed, At, Replacing

LEMMA ReadingSteps ==
  ASSUME DriftInv, FactsTyped', NEW s \in Sessions, RunDetection(s) \/ ListEnvMetadata(s) \/ FindTokenStatus(s)
  PROVE  AsRead(s)' /\ Aimed(s)' /\ Listed(s)'
<1>0. /\ DriftTyped /\ FactsTyped /\ AsRead(s) /\ session[s].since \in Time
      /\ issued \in Nat /\ changes \in Nat /\ token = issued
  BY DriftAssumption DEF DriftInv, DriftTyped, FindingInv, SessionTyped, Requests, FactsTyped, DriftAssumption
<1>1. CASE RunDetection(s)
  <2>1. session'[s].at = "metadata" /\ session'[s].since.tokens = issued /\ session'[s].since.changes = changes
    BY <1>0, <1>1, RunDetectionIs DEF Now
  <2>2. /\ session'[s].found \subseteq Codes
        /\ ("workflow_files_missing" \in session'[s].found) <=> ~tracked
        /\ "ci_token_missing" \notin session'[s].found
        /\ ("provider_connection_metadata_unavailable" \in session'[s].found) <=> (environment = "orphaned")
        /\ ("env_metadata_empty" \in session'[s].found) <=> (environment # "none")
    BY <1>0, <1>1, RunDetectionIs, CodesAre
  <2>3. UNCHANGED facts
    BY <1>1 DEF RunDetection
  <2>4. AsRead(s)'
    BY <1>0, <2>1, <2>2, <2>3 DEF AsRead, At, facts
  <2> QED
    BY <2>1, <2>4, Reading
<1>2. CASE ListEnvMetadata(s)
  <2>1. At(s, "metadata") /\ UNCHANGED facts
    BY <1>2 DEF ListEnvMetadata
  <2>2. /\ session'[s].at = "token" /\ session'[s].since = session[s].since
        /\ session'[s].found = IF environment \in {"some", "orphaned"} THEN session[s].found \ {"env_metadata_empty"}
                               ELSE session[s].found
    BY <1>0, <1>2, ListEnvMetadataIs
  <2>3. environment \in {"none", "empty", "some", "orphaned"}
    BY <1>0 DEF FactsTyped, Environments
  <2>4. AsRead(s)'
    BY <1>0, <2>1, <2>2, <2>3 DEF AsRead, At, facts, Detecting
  <2> QED
    BY <2>2, <2>4, Reading
<1>3. CASE FindTokenStatus(s)
  <2>1. At(s, "token") /\ UNCHANGED facts
    BY <1>3 DEF FindTokenStatus
  <2>2. /\ session'[s].at = "read" /\ session'[s].since = session[s].since
        /\ session'[s].found = IF token = 0 THEN session[s].found \cup {"ci_token_missing"} ELSE session[s].found
    BY <1>0, <1>3, FindTokenStatusIs
  <2>3. token = 0 => session[s].since.tokens = 0
    BY <1>0, <2>1 DEF AsRead, At, Detecting, Time
  <2>4. AsRead(s)'
    BY <1>0, <2>1, <2>2, <2>3, CodesAre DEF AsRead, At, facts, Detecting
  <2> QED
    BY <2>2, <2>4, Reading
<1> QED
  BY <1>1, <1>2, <1>3

\* What FindActive lists: who is not in the rows to be resolved was found, and what is
\* not to be inserted is there.
LEMMA FindActiveStep ==
  ASSUME DriftInv, FactsTyped', NEW s \in Sessions, FindActive(s)
  PROVE  AsRead(s)' /\ Aimed(s)' /\ Listed(s)'
<1>0. /\ DriftTyped /\ FactsTyped /\ AsRead(s) /\ Truthful /\ session[s].at \in Detecting
      /\ session[s].found \subseteq Codes
  BY DEF DriftInv, DriftTyped, FindingInv, FindActive, At, Detecting, AsRead
<1>1. /\ session'[s].at = "resolve" /\ session'[s].rows = NotFound(s) /\ session'[s].todo = Missing(s)
      /\ session'[s].found = session[s].found /\ session'[s].since = session[s].since
  BY <1>0, FindActiveIs DEF SameReading
<1>2. At(s, "read") /\ UNCHANGED <<facts, finding>>
  BY DEF FindActive
<1>3. AsRead(s)'
  BY <1>0, <1>1, <1>2 DEF AsRead, At, facts, Detecting
<1>4. ASSUME NEW i \in NotFound(s)
      PROVE  i \in DOMAIN finding /\ finding[i].code # "workflow_files_missing"
  <2>1. i \in DOMAIN finding /\ \A code \in session[s].found : ~Same(s, i, code)
    BY DEF NotFound
  <2>2. ASSUME finding[i].code = "workflow_files_missing" PROVE FALSE
    <3>1. ~tracked /\ finding[i].target = 0
      BY <1>0, <2>1, <2>2, CodesAre DEF Truthful
    <3>2. "workflow_files_missing" \in session[s].found
      BY <1>0, <3>1 DEF AsRead
    <3>3. Same(s, i, "workflow_files_missing")
      BY <2>2, <3>1, CodesAre DEF Same, TargetOf
    <3> QED
      BY <2>1, <3>2, <3>3
  <2> QED
    BY <2>1, <2>2
<1>5. Aimed(s)'
  BY <1>1, <1>2, <1>4, MissingTyped DEF Aimed, At
<1>6. \A i \in DOMAIN finding : Staying(s, i)' <=> Active(i) /\ i \notin NotFound(s)
  BY <1>1, <1>2 DEF Staying, Active, At
<1>7. ASSUME NEW i \in DOMAIN finding, Active(i), i \notin NotFound(s)
      PROVE  finding[i].code \in session[s].found \ Missing(s)
  <2>1. PICK code \in session[s].found : Same(s, i, code)
    BY <1>7 DEF NotFound
  <2>2. finding[i].code = code /\ Known(s, code)
    BY <1>7, <2>1 DEF Same, Known
  <2> QED
    BY <2>1, <2>2, MissingTyped
<1>8. ASSUME NEW code \in session[s].found \ Missing(s)
      PROVE  \E i \in DOMAIN finding : Active(i) /\ i \notin NotFound(s) /\ finding[i].code = code
  <2>1. PICK i \in DOMAIN finding : Active(i) /\ Same(s, i, code)
    BY <1>8, MissingTyped DEF Known
  <2> QED
    BY <2>1 DEF NotFound, Same
<1>9. Listed(s)'
  BY <1>1, <1>2, <1>6, <1>7, <1>8 DEF Listed
<1> QED
  BY <1>3, <1>5, <1>9

LEMMA ResolveStep ==
  ASSUME DriftInv, FactsTyped', NEW s \in Sessions, ResolveOthers(s)
  PROVE  AsRead(s)' /\ Aimed(s)' /\ Listed(s)'
<1>0. /\ DriftTyped /\ FactsTyped /\ FindingTyped /\ AsRead(s) /\ Aimed(s) /\ Listed(s)
      /\ session[s] \in Requests
  BY DEF DriftInv, DriftTyped, FindingInv, SessionTyped
<1>1. At(s, "resolve") /\ Marked(session[s].rows, "resolved") /\ Goal(s, session[s].todo) /\ UNCHANGED facts
  BY DEF ResolveOthers
<1>2. session[s].todo \in SUBSET Codes
  BY <1>0 DEF Requests
<1>3. CASE session[s].todo = {}
  <2>1. session'[s].at = "idle"
    BY <1>0, <1>1, <1>2, <1>3, GoalIs DEF Idle
  <2> QED
    BY <2>1, Elsewhere DEF Detecting
<1>4. CASE session[s].todo # {}
  <2>1. /\ session'[s].at = "place" /\ session'[s].todo = session[s].todo
        /\ session'[s].found = session[s].found /\ session'[s].since = session[s].since
        /\ session'[s].overlapped = session[s].overlapped
    BY <1>0, <1>1, <1>2, <1>4, GoalIs DEF SameReading
  <2>2. /\ OldFindings /\ NoNewFinding
        /\ \A i \in DOMAIN finding :
             finding'[i].status = IF i \in session[s].rows THEN "resolved" ELSE finding[i].status
    BY <1>0, <1>1, MarkedIs
  <2>3. AsRead(s)'
    BY <1>0, <1>1, <2>1 DEF AsRead, At, facts, Detecting
  <2>4. Aimed(s)'
    BY <1>0, <1>1, <1>4, <2>1 DEF Aimed, At, Replacing
  <2>5. \A i \in DOMAIN finding : Staying(s, i)' <=> Staying(s, i)
    BY <1>1, <2>1, <2>2 DEF Staying, Active, At
  <2>6. DOMAIN finding' = DOMAIN finding /\ \A i \in DOMAIN finding : finding'[i].code = finding[i].code
    BY <2>2 DEF NoNewFinding, OldFindings
  <2>7. Listed(s)'
    BY <1>0, <1>1, <2>1, <2>5, <2>6 DEF Listed, At, Replacing
  <2> QED
    BY <2>3, <2>4, <2>7
<1> QED
  BY <1>3, <1>4

LEMMA InsertStep ==
  ASSUME DriftInv, FactsTyped', NEW s \in Sessions, InsertFinding(s)
  PROVE  AsRead(s)' /\ Aimed(s)' /\ Listed(s)' /\ Twins' /\ Truthful'
<1>0. /\ DriftTyped /\ FactsTyped /\ FindingTyped /\ AsRead(s) /\ Aimed(s) /\ Listed(s)
      /\ session[s] \in Requests /\ Twins /\ Truthful
      /\ Len(finding) \in Nat /\ DOMAIN finding = 1..Len(finding)
  BY RowsOfTyped DEF DriftInv, DriftTyped, FindingInv, SessionTyped
<1>1. At(s, "place") /\ UNCHANGED facts
  BY DEF InsertFinding
<1>2. session[s].todo \in SUBSET Codes /\ session[s].todo # {} /\ session[s].todo \subseteq session[s].found
  BY <1>0, <1>1 DEF Requests, Aimed, At, Replacing
<1>k. PICK k \in Nat : k = Len(finding) + 1
  BY <1>0
<1>c. PICK code \in Codes : code = NextCode(s)
  BY <1>2, NextCodeIs
<1>3. /\ OldFindings /\ DOMAIN finding' = DOMAIN finding \cup {k}
      /\ \A i \in DOMAIN finding : finding'[i] = finding[i]
      /\ code \in session[s].todo /\ finding'[k].code = code /\ finding'[k].status = "active"
      /\ finding'[k].since = session[s].since /\ finding'[k].overlapped = session[s].overlapped
      /\ finding'[k].target = TargetOf(s, code)
      /\ Goal(s, session[s].todo \ {code})
  BY <1>0, <1>2, <1>k, <1>c, InsertIs
<1>4. k \notin DOMAIN finding /\ \A i \in DOMAIN finding : i < k
  BY <1>0, <1>k
<1> DEFINE todo == session[s].todo \ {code}
<1>5. todo \in SUBSET Codes
  BY <1>2
<1>6. AsRead(s)' /\ Aimed(s)' /\ Listed(s)'
  <2>1. CASE todo = {}
    <3>1. session'[s].at = "idle"
      BY <1>0, <1>3, <1>5, <2>1, GoalIs DEF Idle
    <3> QED
      BY <3>1, Elsewhere DEF Detecting
  <2>2. CASE todo # {}
    <3>1. /\ session'[s].at = "place" /\ session'[s].todo = todo
          /\ session'[s].found = session[s].found /\ session'[s].since = session[s].since
          /\ session'[s].overlapped = session[s].overlapped
      BY <1>0, <1>3, <1>5, <2>2, GoalIs DEF SameReading
    <3>2. AsRead(s)'
      BY <1>0, <1>1, <3>1 DEF AsRead, At, facts, Detecting
    <3>3. Aimed(s)'
      BY <1>0, <1>1, <1>2, <2>2, <3>1 DEF Aimed, At, Replacing
    <3>4. \A i \in DOMAIN finding : (Staying(s, i)' <=> Staying(s, i)) /\ finding'[i].code = finding[i].code
      BY <1>1, <1>3, <3>1 DEF Staying, Active, At
    <3>5. Staying(s, k)' /\ finding'[k].code = code
      BY <1>3, <3>1 DEF Staying, Active, At
    <3>6. Listed(s)'
      BY <1>0, <1>1, <1>2, <1>3, <3>1, <3>4, <3>5 DEF Listed, At, Replacing
    <3> QED
      BY <3>2, <3>3, <3>6
  <2> QED
    BY <2>1, <2>2
<1>7. Twins'
  <2>1. ASSUME NEW i \in DOMAIN finding, Active(i), finding[i].code = code, ~session[s].overlapped
        PROVE  FALSE
    BY <1>0, <1>1, <1>3, <2>1 DEF Listed, Staying, At, Replacing
  <2>2. SUFFICES ASSUME NEW i \in DOMAIN finding', NEW j \in DOMAIN finding',
                        i < j, Active(i)', Active(j)', finding'[i].code = finding'[j].code
                 PROVE  finding'[j].overlapped
    BY DEF Twins
  <2>3. i \in Nat /\ j \in Nat /\ k \in Nat
    BY <1>0, <1>3
  <2>4. i \in DOMAIN finding
    BY <1>0, <1>3, <1>4, <2>2, <2>3
  <2>5. CASE j \in DOMAIN finding
    BY <1>0, <1>3, <2>2, <2>4, <2>5 DEF Twins, Active
  <2>6. CASE j = k
    BY <1>3, <2>1, <2>2, <2>4, <2>6, <1>0 DEF Active, Requests
  <2> QED
    BY <1>3, <2>5, <2>6
<1>8. Truthful'
  <2>1. /\ code = "ci_token_missing" => session[s].since.tokens = 0
        /\ code = "workflow_files_missing" => ~tracked
    BY <1>0, <1>1, <1>2, <1>3 DEF AsRead, At, Detecting
  <2>2. code \notin OfTarget => finding'[k].target = 0
    BY <1>3 DEF TargetOf
  <2> QED
    BY <1>0, <1>1, <1>3, <2>1, <2>2 DEF Truthful, facts
<1> QED
  BY <1>6, <1>7, <1>8

\* What a step of the request s leaves to the others.
LEMMA OthersKeep ==
  ASSUME DriftInv, FactsTyped', Onward, OldFindings, NEW s \in Sessions,
         \A y \in Sessions \ {s} : Beside(y),
         AsRead(s)' /\ Aimed(s)' /\ Listed(s)',
         \/ \A y \in Sessions \ {s} : session[y].at \in Replacing => session'[y].overlapped
         \/ NoNewFinding /\ \A i \in DOMAIN finding : finding'[i].status = finding[i].status
  PROVE  \A y \in Sessions : AsRead(y)' /\ Aimed(y)' /\ Listed(y)'
<1> SUFFICES ASSUME NEW y \in Sessions \ {s} PROVE AsRead(y)' /\ Aimed(y)' /\ Listed(y)'
  OBVIOUS
<1>1. FactsTyped /\ SessionTyped /\ AsRead(y) /\ Aimed(y) /\ Listed(y) /\ Beside(y)
  BY DEF DriftInv, DriftTyped, FindingInv
<1>2. AsRead(y)' /\ Aimed(y)'
  BY <1>1, AsReadRests, AimedRests
<1>3. Listed(y)'
  BY <1>1, ListedRests
<1> QED
  BY <1>2, <1>3

\* The places of the groups.
LEMMA GroupsAre ==
  /\ Groups = {{"resolve", "place"}, {"snapshot"}, {"branch", "files", "pull", "record"}}
  /\ Replacing = {"resolve", "place"} /\ Updating = {"branch", "files", "pull", "record"}
  BY DEF Groups, Replacing, Updating

LEMMA SameFindings ==
  ASSUME FindingTyped, UNCHANGED finding
  PROVE  /\ NoNewFinding /\ OldFindings /\ Len(finding') = Len(finding)
         /\ \A i \in DOMAIN finding : finding'[i].status = finding[i].status /\ finding'[i].target = finding[i].target
<1>1. finding' = finding
  OBVIOUS
<1> QED
  BY <1>1, OldStay

LEMMA DetectionKeeps ==
  ASSUME DriftInv, FactsTyped', Onward, NEW s \in Sessions, Detection(s)
  PROVE  FindingInv'
<1>0. /\ DriftTyped /\ FactsTyped /\ FindingTyped /\ SessionTyped /\ Truthful /\ Twins /\ Apart /\ Aimed(s)
      /\ session[s] \in Requests
  BY DEF DriftInv, DriftTyped, FindingInv, SessionTyped
<1>1. /\ \A y \in Sessions \ {s} : Beside(y)
      /\ FindingTyped' /\ OldFindings
  BY DetectionIs
<1>2. tracked' = tracked
  BY DEF Onward
<1>3. Idle.at = "idle"
  BY DEF Idle
<1>4. At(s, "resolve") \/ At(s, "place") =>
        \A y \in Sessions \ {s} : session[y].at \in Replacing => session'[y].overlapped
  <2> SUFFICES ASSUME At(s, "resolve") \/ At(s, "place"), NEW y \in Sessions \ {s}, session[y].at \in Replacing
               PROVE  session'[y].overlapped
    OBVIOUS
  <2>1. session[y].overlapped
    BY <1>0 DEF Apart, At, Replacing
  <2> QED
    BY <1>0, <1>1, <2>1, BesideIs
<1>5. CASE RunDetection(s) \/ ListEnvMetadata(s) \/ FindTokenStatus(s)
  <2>1. AsRead(s)' /\ Aimed(s)' /\ Listed(s)'
    BY <1>5, ReadingSteps
  <2>2. UNCHANGED finding
    BY <1>5 DEF RunDetection, ListEnvMetadata, FindTokenStatus
  <2>3. Truthful' /\ Twins'
    BY <1>0, <1>1, <1>2, <2>2, SameFindings, TruthfulRests, TwinsRest
  <2>4. Alone(s) /\ session'[s].at \in {"metadata", "token", "read"}
    BY <1>0, <1>5, RunDetectionIs, ListEnvMetadataIs, FindTokenStatusIs
  <2>5. Apart'
    BY <1>0, <2>4, ApartAlone, GroupsAre
  <2>6. NoNewFinding /\ \A i \in DOMAIN finding : finding'[i].status = finding[i].status
    BY <1>0, <2>2, SameFindings
  <2>7. \A y \in Sessions : AsRead(y)' /\ Aimed(y)' /\ Listed(y)'
    BY <1>1, <2>1, <2>6, OthersKeep
  <2> QED
    BY <2>3, <2>5, <2>7 DEF FindingInv
<1>6. CASE FindActive(s)
  <2>1. AsRead(s)' /\ Aimed(s)' /\ Listed(s)'
    BY <1>6, FindActiveStep
  <2>2. UNCHANGED finding
    BY <1>6 DEF FindActive
  <2>3. Truthful' /\ Twins'
    BY <1>0, <1>1, <1>2, <2>2, SameFindings, TruthfulRests, TwinsRest
  <2>4. session[s].found \subseteq Codes
    BY <1>6 DEF FindActive, At, AsRead, Detecting, DriftInv, FindingInv
  <2>5. /\ Met(s, Replacing) /\ session'[s].at = "resolve"
        /\ session'[s].overlapped <=> (session[s].overlapped \/ Meets(s, Replacing))
    BY <1>0, <1>6, <2>4, FindActiveIs
  <2>6. \A others \in Groups : "resolve" \in others => others = Replacing
    BY GroupsAre
  <2>7. Replacing \in Groups
    BY DEF Groups
  <2>8. Apart'
    BY <1>0, <2>5, <2>6, <2>7, ApartMet
  <2>9. NoNewFinding /\ \A i \in DOMAIN finding : finding'[i].status = finding[i].status
    BY <1>0, <2>2, SameFindings
  <2>10. \A y \in Sessions : AsRead(y)' /\ Aimed(y)' /\ Listed(y)'
    BY <1>1, <2>1, <2>9, OthersKeep
  <2> QED
    BY <2>3, <2>8, <2>10 DEF FindingInv
<1>7. ASSUME NEW rows \in SUBSET session[s].rows, At(s, "resolve"), Marked(rows, "resolved")
      PROVE  Truthful' /\ Twins'
  <2>1. /\ NoNewFinding
        /\ \A i \in DOMAIN finding :
             /\ finding'[i].target = finding[i].target
             /\ finding'[i].status = IF i \in rows THEN "resolved" ELSE finding[i].status
    BY <1>0, <1>7, MarkedIs
  <2>2. \A i \in rows : finding[i].code # "workflow_files_missing"
    BY <1>0, <1>7 DEF Aimed
  <2> QED
    BY <1>0, <1>1, <1>2, <2>1, <2>2, TruthfulRests, TwinsRest
<1>8. CASE ResolveOthers(s)
  <2>1. AsRead(s)' /\ Aimed(s)' /\ Listed(s)'
    BY <1>8, ResolveStep
  <2>2. At(s, "resolve") /\ Marked(session[s].rows, "resolved") /\ Goal(s, session[s].todo)
    BY <1>8 DEF ResolveOthers
  <2>3. Truthful' /\ Twins'
    BY <1>7, <2>2
  <2>4. session[s].todo \in SUBSET Codes
    BY <1>0 DEF Requests
  <2>5. Alone(s) /\ (session'[s].at = "idle" \/ (session'[s].at = "place" /\ session'[s].overlapped = session[s].overlapped))
    BY <1>0, <1>3, <2>2, <2>4, GoalIs
  <2>6. Apart'
    BY <1>0, <2>2, <2>5, ApartAlone, GroupsAre DEF At
  <2>7. \A y \in Sessions : AsRead(y)' /\ Aimed(y)' /\ Listed(y)'
    BY <1>1, <1>4, <2>1, <2>2, OthersKeep
  <2> QED
    BY <2>3, <2>6, <2>7 DEF FindingInv
<1>9. CASE ResolveFails(s)
  <2>1. Alone(s) /\ session'[s] = Idle
    BY <1>0, <1>9, EndsIs DEF ResolveFails
  <2>2. AsRead(s)' /\ Aimed(s)' /\ Listed(s)'
    BY <1>3, <2>1, Elsewhere DEF Detecting
  <2>3. Truthful' /\ Twins' /\ At(s, "resolve")
    BY <1>7, <1>9 DEF ResolveFails
  <2>4. Apart'
    BY <1>0, <1>3, <2>1, ApartAlone, GroupsAre
  <2>5. \A y \in Sessions : AsRead(y)' /\ Aimed(y)' /\ Listed(y)'
    BY <1>1, <1>4, <2>2, <2>3, OthersKeep
  <2> QED
    BY <2>3, <2>4, <2>5 DEF FindingInv
<1>10. CASE InsertFinding(s)
  <2>1. AsRead(s)' /\ Aimed(s)' /\ Listed(s)' /\ Twins' /\ Truthful'
    BY <1>10, InsertStep
  <2>2. At(s, "place")
    BY <1>10 DEF InsertFinding
  <2>3. session[s].todo \subseteq Codes /\ session[s].todo # {}
    BY <1>0, <2>2 DEF Requests, Aimed
  <2>4. Goal(s, session[s].todo \ {NextCode(s)}) /\ session[s].todo \ {NextCode(s)} \in SUBSET Codes
    BY <1>0, <1>10, <2>3, InsertIs
  <2>5. Alone(s) /\ (session'[s].at = "idle" \/ (session'[s].at = "place" /\ session'[s].overlapped = session[s].overlapped))
    BY <1>0, <1>3, <2>4, GoalIs
  <2>6. Apart'
    BY <1>0, <2>2, <2>5, ApartAlone, GroupsAre DEF At
  <2>7. \A y \in Sessions : AsRead(y)' /\ Aimed(y)' /\ Listed(y)'
    BY <1>1, <1>4, <2>1, <2>2, OthersKeep
  <2> QED
    BY <2>1, <2>6, <2>7 DEF FindingInv
<1>11. CASE InsertRefused(s)
  <2>1. Alone(s) /\ session'[s] = Idle /\ UNCHANGED finding
    BY <1>0, <1>11, EndsIs DEF InsertRefused
  <2>2. AsRead(s)' /\ Aimed(s)' /\ Listed(s)'
    BY <1>3, <2>1, Elsewhere DEF Detecting
  <2>3. Truthful' /\ Twins'
    BY <1>0, <1>1, <1>2, <2>1, SameFindings, TruthfulRests, TwinsRest
  <2>4. Apart'
    BY <1>0, <1>3, <2>1, ApartAlone, GroupsAre
  <2>5. NoNewFinding /\ \A i \in DOMAIN finding : finding'[i].status = finding[i].status
    BY <1>0, <2>1, SameFindings
  <2>6. \A y \in Sessions : AsRead(y)' /\ Aimed(y)' /\ Listed(y)'
    BY <1>1, <2>2, <2>5, OthersKeep
  <2> QED
    BY <2>3, <2>4, <2>6 DEF FindingInv
<1> QED
  BY <1>5, <1>6, <1>8, <1>9, <1>10, <1>11 DEF Detection

\* A step that leaves the findings alone and ends somewhere else.
LEMMA AwayKeeps ==
  ASSUME DriftInv, FactsTyped', Onward, FindingTyped', NEW s \in Sessions, UNCHANGED finding,
         \A y \in Sessions \ {s} : Beside(y),
         AsRead(s)' /\ Aimed(s)' /\ Listed(s)', Apart'
  PROVE  FindingInv'
<1>0. FindingTyped /\ Truthful /\ Twins /\ tracked' = tracked
  BY DEF DriftInv, DriftTyped, FindingInv, Onward
<1>1. /\ NoNewFinding /\ OldFindings
      /\ \A i \in DOMAIN finding : finding'[i].status = finding[i].status /\ finding'[i].target = finding[i].target
  BY <1>0, SameFindings
<1>2. Truthful' /\ Twins'
  BY <1>0, <1>1, TruthfulRests, TwinsRest
<1>3. \A y \in Sessions : AsRead(y)' /\ Aimed(y)' /\ Listed(y)'
  BY <1>1, OthersKeep
<1> QED
  BY <1>2, <1>3 DEF FindingInv

LEMMA RepairingKeeps ==
  ASSUME DriftInv, FactsTyped', Onward, NEW s \in Sessions, Repairing(s)
  PROVE  FindingInv'
<1>0. /\ DriftTyped /\ FactsTyped /\ FindingTyped /\ SessionTyped /\ Truthful /\ Twins /\ Apart /\ Aimed(s)
      /\ session[s] \in Requests /\ tracked' = tracked
  BY DEF DriftInv, DriftTyped, FindingInv, SessionTyped, Onward
<1>1. /\ \A y \in Sessions \ {s} : Beside(y)
      /\ FindingTyped' /\ OldFindings /\ NoNewFinding
  BY <1>0, RepairingIs
<1>2. CASE MarkIgnored(s) \/ MarkResolved(s)
  <2>1. PICK status \in {"resolved", "ignored"} :
          /\ Marked({session[s].row}, status)
          /\ status = "resolved" => At(s, "mark")
    BY <1>2 DEF MarkIgnored, MarkResolved
  <2>2. Met(s, Replacing) /\ session'[s].at = "idle"
    BY <1>0, <1>2, MarkedAmong DEF MarkIgnored, MarkResolved
  <2>3. AsRead(s)' /\ Aimed(s)' /\ Listed(s)'
    BY <2>2, Elsewhere DEF Detecting
  <2>4. \A i \in DOMAIN finding :
          /\ finding'[i].target = finding[i].target
          /\ finding'[i].status = IF i \in {session[s].row} THEN status ELSE finding[i].status
    BY <1>0, <2>1, MarkedIs
  <2>5. status = "resolved" => finding[session[s].row].code # "workflow_files_missing"
    BY <1>0, <2>1 DEF Aimed
  <2>6. Truthful' /\ Twins'
    BY <1>0, <1>1, <2>4, <2>5, TruthfulRests, TwinsRest
  <2>7. Apart'
    BY <1>0, <2>2, ApartMet, GroupsAre
  <2>8. \A y \in Sessions \ {s} : session[y].at \in Replacing => session'[y].overlapped
    BY <2>2 DEF Met
  <2>9. \A y \in Sessions : AsRead(y)' /\ Aimed(y)' /\ Listed(y)'
    BY <1>1, <2>3, <2>8, OthersKeep
  <2> QED
    BY <2>6, <2>7, <2>9 DEF FindingInv
<1>3. CASE RotateToken(s)
  <2>1. Alone(s) /\ session'[s].at = "mark" /\ session'[s].row = session[s].row
    BY <1>0, <1>3, GoesIs DEF RotateToken, Places, SameRows
  <2>2. At(s, "repair") /\ finding[session[s].row].code = "ci_token_missing" /\ UNCHANGED finding
    BY <1>3 DEF RotateToken
  <2>3. AsRead(s)' /\ Aimed(s)' /\ Listed(s)'
    BY <1>0, <2>1, <2>2 DEF AsRead, Aimed, Listed, At, Detecting, Replacing
  <2>4. Apart'
    BY <1>0, <2>1, ApartAlone, GroupsAre
  <2> QED
    BY <1>1, <2>2, <2>3, <2>4, AwayKeeps
<1>4. CASE RepairRefused(s)
  <2>1. Alone(s) /\ session'[s].at = "idle" /\ UNCHANGED finding
    BY <1>0, <1>4, EndsIs DEF RepairRefused, Idle
  <2>2. AsRead(s)' /\ Aimed(s)' /\ Listed(s)'
    BY <2>1, Elsewhere DEF Detecting
  <2>3. Apart'
    BY <1>0, <2>1, ApartAlone, GroupsAre
  <2> QED
    BY <1>1, <2>1, <2>2, <2>3, AwayKeeps
<1>5. CASE \E i \in DOMAIN finding : Repair(s, i)
  <2>1. PICK i \in DOMAIN finding : Repair(s, i)
    BY <1>5
  <2>2. Alone(s) /\ session'[s].at = "repair" /\ session'[s].row = i /\ UNCHANGED finding
    BY <1>0, <2>1, RepairIs DEF Repair
  <2>3. AsRead(s)' /\ Aimed(s)' /\ Listed(s)'
    BY <2>2 DEF AsRead, Aimed, Listed, At, Detecting, Replacing
  <2>4. Apart'
    BY <1>0, <2>2, ApartAlone, GroupsAre
  <2> QED
    BY <1>1, <2>2, <2>3, <2>4, AwayKeeps
<1> QED
  BY <1>2, <1>3, <1>4, <1>5 DEF Repairing

LEMMA SnapshotsKeepFindings ==
  ASSUME DriftInv, FactsTyped', Onward, NEW s \in Sessions, Snapshots(s)
  PROVE  FindingInv'
<1>0. DriftTyped /\ FindingTyped /\ SessionTyped /\ Apart
  BY DEF DriftInv, DriftTyped, FindingInv
<1>1. (\A y \in Sessions \ {s} : Beside(y)) /\ UNCHANGED finding /\ FindingTyped'
  BY <1>0, SnapshotsIs, OldStay
<1>2. Apart' /\ session'[s].at \in {"snapshot", "idle"}
  <2>1. CASE SyncProjectSnapshot(s)
    <3>1. /\ Met(s, {"snapshot"}) /\ session'[s].at = "snapshot"
          /\ session'[s].overlapped <=> Meets(s, {"snapshot"})
      BY <1>0, <2>1, SyncProjectSnapshotIs
    <3>2. {"snapshot"} \in Groups /\ \A others \in Groups : "snapshot" \in others => others = {"snapshot"}
      BY GroupsAre
    <3> QED
      BY <1>0, <3>1, <3>2, ApartMet
  <2>2. CASE CreateSnapshot(s)
    <3>1. Alone(s) /\ session'[s].at = "idle"
      BY <1>0, <2>2, EndsIs DEF CreateSnapshot, Idle
    <3> QED
      BY <1>0, <3>1, ApartAlone, GroupsAre
  <2> QED
    BY <2>1, <2>2 DEF Snapshots
<1>3. AsRead(s)' /\ Aimed(s)' /\ Listed(s)'
  BY <1>2, Elsewhere DEF Detecting
<1> QED
  BY <1>1, <1>2, <1>3, AwayKeeps

LEMMA UpdatesKeepFindings ==
  ASSUME DriftInv, FactsTyped', Onward, NEW s \in Sessions, Updates(s)
  PROVE  FindingInv'
<1>0. DriftTyped /\ FindingTyped /\ SessionTyped /\ Apart
  BY DEF DriftInv, DriftTyped, FindingInv
<1>1. (\A y \in Sessions \ {s} : Beside(y)) /\ UNCHANGED finding /\ FindingTyped'
  BY <1>0, UpdatesIs, OldStay
<1>2. Apart' /\ session'[s].at \in Updating \cup {"idle"}
  <2>1. CASE CreateWorkflowUpdate(s)
    <3>1. /\ Met(s, Updating) /\ session'[s].at = "branch"
          /\ session'[s].overlapped <=> Meets(s, Updating)
      BY <1>0, <2>1, CreateWorkflowUpdateIs
    <3>2. Updating \in Groups /\ \A others \in Groups : "branch" \in others => others = Updating
      BY GroupsAre
    <3> QED
      BY <1>0, <3>1, <3>2, ApartMet, GroupsAre
  <2>2. CASE CreateBranch(s)
    <3>1. Alone(s) /\ session'[s].at = "files" /\ session'[s].overlapped = session[s].overlapped /\ session[s].at = "branch"
      BY <1>0, <2>2, CreateBranchIs DEF CreateBranch, At
    <3> QED
      BY <1>0, <3>1, ApartAlone, GroupsAre
  <2>3. CASE PutFiles(s) \/ CreatePullRequest(s)
    <3>1. PICK place \in {"pull", "record"} : Goes(s, place) /\ session[s].at \in {"files", "pull"}
      BY <2>3 DEF PutFiles, CreatePullRequest, At
    <3>2. Alone(s) /\ session'[s].at = place /\ session'[s].overlapped = session[s].overlapped
      BY <1>0, <3>1, GoesIs DEF Places
    <3> QED
      BY <1>0, <3>1, <3>2, ApartAlone, GroupsAre
  <2>4. CASE CreateRequest(s)
    <3>1. Alone(s) /\ session'[s].at = "idle"
      BY <1>0, <2>4, EndsIs DEF CreateRequest, Idle
    <3> QED
      BY <1>0, <3>1, ApartAlone, GroupsAre
  <2> QED
    BY <2>1, <2>2, <2>3, <2>4 DEF Updates
<1>3. AsRead(s)' /\ Aimed(s)' /\ Listed(s)'
  BY <1>2, Elsewhere DEF Detecting, Updating
<1> QED
  BY <1>1, <1>2, <1>3, AwayKeeps

LEMMA FindingInvStep ==
  ASSUME DriftInv, Drifts
  PROVE  FindingInv'
<1>0. /\ DriftTyped /\ FactsTyped /\ FindingTyped /\ SessionTyped /\ Truthful /\ Twins /\ Apart
      /\ FactsTyped' /\ Onward /\ FindingTyped' /\ OldFindings /\ tracked' = tracked
  BY DriftTypedStep, FactsGo DEF DriftInv, DriftTyped, FindingInv, Onward
<1>1. ASSUME NEW s \in Sessions, RequestSteps(s) PROVE FindingInv'
  <2>1. CASE RequestCutShort(s)
    <3>1. Alone(s) /\ session'[s].at = "idle" /\ UNCHANGED finding
      BY <1>0, <2>1, EndsIs DEF RequestCutShort, Idle
    <3>2. AsRead(s)' /\ Aimed(s)' /\ Listed(s)'
      BY <3>1, Elsewhere DEF Detecting
    <3>3. Apart'
      BY <1>0, <3>1, ApartAlone, GroupsAre
    <3>4. \A y \in Sessions \ {s} : Beside(y)
      BY <3>1 DEF Alone, Beside
    <3> QED
      BY <1>0, <3>1, <3>2, <3>3, <3>4, AwayKeeps
  <2> QED
    BY <1>0, <1>1, <2>1, DetectionKeeps, RepairingKeeps, SnapshotsKeepFindings, UpdatesKeepFindings DEF RequestSteps
<1>2. ASSUME UNCHANGED session, NoNewFinding,
             \A i \in DOMAIN finding : finding'[i].status = finding[i].status
                                       /\ finding'[i].target \in {finding[i].target, 0}
      PROVE  FindingInv'
  <2>1. Truthful' /\ Twins'
    BY <1>0, <1>2, TruthfulRests, TwinsRest
  <2>2. ASSUME NEW y \in Sessions PROVE AsRead(y)' /\ Aimed(y)' /\ Listed(y)'
    <3>1. Beside(y) /\ AsRead(y) /\ Aimed(y) /\ Listed(y)
      BY <1>2 DEF Beside, DriftInv, FindingInv
    <3> QED
      BY <1>0, <1>2, <3>1, AsReadRests, AimedRests, ListedRests
  <2>3. Apart'
    BY <1>0, <1>2 DEF Apart
  <2> QED
    BY <2>1, <2>2, <2>3 DEF FindingInv
<1>3. CASE EnvironmentChanges
  <2>1. UNCHANGED session
    BY <1>3 DEF EnvironmentChanges
  <2> QED
    BY <1>0, <1>2, <1>3, <2>1, EnvironmentFindings
<1>4. CASE Merged \/ TokenIssued \/ UNCHANGED driftVars
  <2>1. UNCHANGED session /\ UNCHANGED finding
    BY <1>4 DEF Merged, MergeUpdate, TokenIssued, driftVars
  <2> QED
    BY <1>0, <1>2, <2>1, SameFindings
<1> QED
  BY <1>1, <1>3, <1>4 DEF Drifts, DriftStep, RequestSteps

-----------------------------------------------------------------------------
(* Drift: snapshots.                                                       *)

LEMMA LocalFits == Fits(LocalSnapshotFindings(Overview), OverviewHealth(Overview))
<1> DEFINE o == Overview
<1>1. o.ciAuth \in {"missing", "active"}
  BY DEF Overview, CiAuth
<1>2. {"workflow_files_missing", "ci_token_missing", "deployment_target_not_provisioned"} \subseteq SnapshotCodes
  BY CodesAre DEF SnapshotCodes
<1>3. o.files \in BOOLEAN => o.files \in {TRUE, FALSE}
  OBVIOUS
<1> HIDE DEF o
<1>4. OverviewHealth(o) = "ok" => LocalSnapshotFindings(o) \subseteq {"env_metadata_empty"}
  BY DEF OverviewHealth, LocalSnapshotFindings
<1>5. OverviewHealth(o) = "warning" => LocalSnapshotFindings(o) \ {"env_metadata_empty"} # {}
  <2> SUFFICES ASSUME OverviewHealth(o) = "warning"
               PROVE  \E code \in LocalSnapshotFindings(o) : code # "env_metadata_empty"
    OBVIOUS
  <2>1. CASE ~o.files
    BY <1>2, <2>1 DEF LocalSnapshotFindings
  <2>2. CASE o.ciAuth # "active"
    BY <1>1, <1>2, <2>2 DEF LocalSnapshotFindings
  <2>3. CASE ~o.targets
    BY <1>2, <2>3 DEF LocalSnapshotFindings
  <2> QED
    BY <2>1, <2>2, <2>3 DEF OverviewHealth
<1> QED
  BY <1>4, <1>5 DEF Fits, o

LEMMA AgeGrows ==
  ASSUME FactsTyped, FactsTyped', Onward
  PROVE  Age(Now) \in Nat /\ Age(Now)' \in Nat /\ Age(Now) <= Age(Now)'
<1>1. issued \in Nat /\ issued' \in Nat /\ changes \in Nat /\ changes' \in Nat
  BY DriftAssumption DEF FactsTyped, DriftAssumption
<1>2. issued <= issued' /\ changes <= changes'
  BY DEF Onward
<1>3. \A a, b, c, d \in Nat : a <= b /\ c <= d => a + c \in Nat /\ b + d \in Nat /\ a + c <= b + d
  OBVIOUS
<1>4. Age(Now) = issued + changes
  BY DEF Age, Now
<1>5. Age(Now)' = issued' + changes'
  BY DEF Age, Now
<1>6. issued + changes \in Nat
  BY <1>1, <1>2, <1>3
<1>7. issued' + changes' \in Nat
  BY <1>1, <1>2, <1>3
<1>8. issued + changes <= issued' + changes'
  BY <1>1, <1>2, <1>3
<1>9. Age(Now) \in Nat
  BY <1>4, <1>6
<1> QED
  BY <1>4, <1>5, <1>6, <1>7, <1>8, <1>9

LEMMA PicturedRests ==
  ASSUME FactsTyped, FactsTyped', Onward, SessionTyped, NEW y \in Sessions, Beside(y), Pictured(y),
         session[y].at = "snapshot" => session'[y].overlapped \/ UNCHANGED snapshot
  PROVE  Pictured(y)'
<1>1. /\ session'[y].at = session[y].at /\ session'[y].found = session[y].found
      /\ session'[y].health = session[y].health /\ session'[y].since = session[y].since
      /\ session[y].overlapped => session'[y].overlapped
  BY BesideIs
<1>2. SUFFICES ASSUME At(y, "snapshot") PROVE Pictured(y)'
  BY <1>1 DEF Pictured, At
<1>3. Age(session'[y].since) <= Age(Now)'
  <2>1. session[y].since.tokens \in Nat /\ session[y].since.changes \in Nat
    BY DEF SessionTyped, Requests, Time
  <2>2. Age(session[y].since) \in Nat /\ Age(session[y].since) <= Age(Now)
    BY <1>2, <2>1 DEF Pictured, Age
  <2>3. Age(session'[y].since) = Age(session[y].since)
    BY <1>1 DEF Age
  <2> QED
    BY <2>2, <2>3, AgeGrows
<1>4. session'[y].overlapped \/ Age(snapshot'.since) <= Age(session'[y].since)
  BY <1>1, <1>2 DEF Pictured, At, Age
<1> QED
  BY <1>1, <1>2, <1>3, <1>4 DEF Pictured, At

LEMMA DetectionPlaces ==
  ASSUME DriftInv, NEW s \in Sessions, Detection(s)
  PROVE  session[s].at \in Detecting \cup {"idle"} /\ session'[s].at \in Detecting \cup {"idle"}
<1>0. DriftTyped /\ SessionTyped /\ AsRead(s) /\ session[s] \in Requests /\ Idle.at = "idle"
  BY DEF DriftInv, DriftTyped, FindingInv, SessionTyped, Idle
<1>1. CASE RunDetection(s) \/ ListEnvMetadata(s) \/ FindTokenStatus(s)
  BY <1>0, <1>1, RunDetectionIs, ListEnvMetadataIs, FindTokenStatusIs
     DEF RunDetection, ListEnvMetadata, FindTokenStatus, At, Detecting
<1>2. CASE FindActive(s)
  BY <1>0, <1>2, FindActiveIs DEF FindActive, At, AsRead, Detecting
<1>3. CASE ResolveOthers(s)
  BY <1>0, <1>3, GoalIs DEF ResolveOthers, Requests, At, Detecting
<1>4. CASE ResolveFails(s) \/ InsertRefused(s)
  BY <1>0, <1>4, EndsIs DEF ResolveFails, InsertRefused, At, Detecting
<1>5. CASE InsertFinding(s)
  <2>1. Goal(s, session[s].todo \ {NextCode(s)}) /\ session[s].todo \ {NextCode(s)} \in SUBSET Codes
    BY <1>0, <1>5 DEF InsertFinding, Requests
  <2> QED
    BY <1>0, <1>5, <2>1, GoalIs DEF InsertFinding, At, Detecting
<1> QED
  BY <1>1, <1>2, <1>3, <1>4, <1>5 DEF Detection

LEMMA RepairingPlaces ==
  ASSUME DriftTyped, NEW s \in Sessions, Repairing(s)
  PROVE  session[s].at \in {"idle", "repair", "mark"} /\ session'[s].at \in {"idle", "repair", "mark"}
<1>0. SessionTyped
  BY DEF DriftTyped
<1>1. CASE MarkIgnored(s) \/ MarkResolved(s)
  BY <1>1, MarkedAmong DEF MarkIgnored, MarkResolved, At
<1>2. CASE RotateToken(s)
  BY <1>0, <1>2, GoesIs DEF RotateToken, Places, At
<1>3. CASE RepairRefused(s)
  BY <1>0, <1>3, EndsIs DEF RepairRefused, Idle, At
<1>4. CASE \E i \in DOMAIN finding : Repair(s, i)
  BY <1>4, RepairIs DEF Repair, At
<1> QED
  BY <1>1, <1>2, <1>3, <1>4 DEF Repairing

LEMMA SnapshotInvStep ==
  ASSUME DriftInv, Drifts
  PROVE  SnapshotInv'
<1>0. /\ DriftTyped /\ FactsTyped /\ SessionTyped /\ FindingTyped /\ SnapshotTyped /\ Apart /\ Shows
      /\ FactsTyped' /\ Onward /\ SnapshotTyped' /\ \A y \in Sessions : Pictured(y)
  BY DriftTypedStep, FactsGo DEF DriftInv, DriftTyped, FindingInv, SnapshotInv
<1>1. Age(Now) \in Nat /\ Age(Now)' \in Nat /\ Age(Now) <= Age(Now)'
      /\ Age(snapshot.since) \in Nat /\ Age(snapshot'.since) \in Nat
  BY <1>0, AgeGrows DEF SnapshotTyped, Snapshot, Age, Time
<1>2. ASSUME UNCHANGED snapshot PROVE Shows'
  <2>1. snapshot' = snapshot /\ Age(snapshot.since) <= Age(Now)
    BY <1>0, <1>2 DEF Shows
  <2>2. Age(snapshot'.since) <= Age(Now)'
    BY <1>1, <2>1
  <2> QED
    BY <1>0, <2>1, <2>2 DEF Shows
<1>3. ASSUME NEW s \in Sessions, \A y \in Sessions \ {s} : Beside(y), session'[s].at # "snapshot", UNCHANGED snapshot
      PROVE  SnapshotInv'
  <2>1. ASSUME NEW y \in Sessions \ {s} PROVE Pictured(y)'
    BY <1>0, <1>3, PicturedRests
  <2>2. Pictured(s)'
    BY <1>3 DEF Pictured, At
  <2> QED
    BY <1>2, <1>3, <2>1, <2>2 DEF SnapshotInv
<1>4. ASSUME NEW s \in Sessions, SyncProjectSnapshot(s) PROVE SnapshotInv'
  <2>1. /\ Met(s, {"snapshot"}) /\ session'[s].at = "snapshot"
        /\ session'[s].found = LocalSnapshotFindings(Overview)
        /\ session'[s].health = OverviewHealth(Overview) /\ session'[s].since = Now
    BY <1>0, <1>4, SyncProjectSnapshotIs
  <2>2. UNCHANGED snapshot /\ UNCHANGED facts
    BY <1>4 DEF SyncProjectSnapshot
  <2>3. ASSUME NEW y \in Sessions \ {s} PROVE Pictured(y)'
    BY <1>0, <2>1, <2>2, PicturedRests DEF Met
  <2>4. Age(session'[s].since) = Age(Now) /\ Age(Now)' = Age(Now) /\ Age(snapshot'.since) <= Age(Now)
    BY <1>0, <2>1, <2>2 DEF Age, Now, facts, Shows
  <2>5. Pictured(s)'
    BY <1>1, <2>1, <2>4, LocalFits, LocalFindingsAre DEF Pictured
  <2> QED
    BY <1>2, <2>2, <2>3, <2>5 DEF SnapshotInv
<1>5. ASSUME NEW s \in Sessions, CreateSnapshot(s) PROVE SnapshotInv'
  <2>1. Alone(s) /\ session'[s].at = "idle"
    BY <1>0, <1>5, EndsIs DEF CreateSnapshot, Idle
  <2>2. At(s, "snapshot") /\ Pictured(s)
    BY <1>0, <1>5 DEF CreateSnapshot
  <2>3. snapshot'.shows = session[s].found /\ snapshot'.status = session[s].health /\ snapshot'.since = session[s].since
    BY <1>5 DEF CreateSnapshot
  <2>4. ASSUME NEW y \in Sessions \ {s} PROVE Pictured(y)'
    <3>1. session'[y] = session[y] /\ Beside(y)
      BY <2>1 DEF Alone, Beside
    <3>2. session[y].at = "snapshot" => session[y].overlapped
      BY <1>0, <2>2 DEF Apart, At
    <3> QED
      BY <1>0, <3>1, <3>2, PicturedRests
  <2>5. Shows'
    BY <1>1, <2>2, <2>3 DEF Shows, Pictured, Age
  <2>6. Pictured(s)'
    BY <2>1 DEF Pictured, At
  <2> QED
    BY <2>4, <2>5, <2>6 DEF SnapshotInv
<1>6. ASSUME NEW s \in Sessions, Detection(s) PROVE SnapshotInv'
  <2>1. \A y \in Sessions \ {s} : Beside(y)
    BY <1>6, DetectionIs
  <2>2. session'[s].at # "snapshot"
    BY <1>6, DetectionPlaces DEF Detecting
  <2>3. UNCHANGED snapshot
    BY <1>6 DEF Detection, RunDetection, ListEnvMetadata, FindTokenStatus, FindActive, ResolveOthers,
                ResolveFails, InsertFinding, InsertRefused
  <2> QED
    BY <1>3, <2>1, <2>2, <2>3
<1>7. ASSUME NEW s \in Sessions, Repairing(s) PROVE SnapshotInv'
  <2>1. \A y \in Sessions \ {s} : Beside(y)
    BY <1>0, <1>7, RepairingIs
  <2>2. session'[s].at # "snapshot"
    BY <1>0, <1>7, RepairingPlaces
  <2>3. UNCHANGED snapshot
    BY <1>7 DEF Repairing, MarkIgnored, RotateToken, MarkResolved, RepairRefused, Repair
  <2> QED
    BY <1>3, <2>1, <2>2, <2>3
<1>8. ASSUME NEW s \in Sessions, Updates(s) PROVE SnapshotInv'
  <2>1. \A y \in Sessions \ {s} : Beside(y)
    BY <1>8, UpdatesIs
  <2>2. session'[s].at # "snapshot"
    <3>1. CASE CreateWorkflowUpdate(s)
      BY <1>0, <3>1, CreateWorkflowUpdateIs
    <3>2. CASE CreateBranch(s)
      BY <1>0, <3>2, CreateBranchIs
    <3>3. CASE PutFiles(s) \/ CreatePullRequest(s)
      BY <1>0, <3>3, GoesIs DEF PutFiles, CreatePullRequest, Places
    <3>4. CASE CreateRequest(s)
      BY <1>0, <3>4, EndsIs DEF CreateRequest, Idle
    <3> QED
      BY <1>8, <3>1, <3>2, <3>3, <3>4 DEF Updates
  <2>3. UNCHANGED snapshot
    BY <1>8 DEF Updates, CreateWorkflowUpdate, CreateBranch, PutFiles, CreatePullRequest, CreateRequest
  <2> QED
    BY <1>3, <2>1, <2>2, <2>3
<1>9. ASSUME NEW s \in Sessions, RequestCutShort(s) PROVE SnapshotInv'
  <2>1. Alone(s) /\ session'[s].at = "idle" /\ UNCHANGED snapshot
    BY <1>0, <1>9, EndsIs DEF RequestCutShort, Idle
  <2> QED
    BY <1>3, <2>1 DEF Alone, Beside
<1>10. ASSUME UNCHANGED session, UNCHANGED snapshot PROVE SnapshotInv'
  <2>1. ASSUME NEW y \in Sessions PROVE Pictured(y)'
    BY <1>0, <1>10, PicturedRests DEF Beside
  <2> QED
    BY <1>2, <1>10, <2>1 DEF SnapshotInv
<1>11. CASE EnvironmentChanges \/ Merged \/ TokenIssued \/ UNCHANGED driftVars
  BY <1>10, <1>11 DEF EnvironmentChanges, Merged, MergeUpdate, TokenIssued, driftVars
<1> QED
  BY <1>4, <1>5, <1>6, <1>7, <1>8, <1>9, <1>11 DEF Drifts, DriftStep, Snapshots

-----------------------------------------------------------------------------
(* Drift: updates.                                                         *)

LEMMA RecordedFinite ==
  ASSUME UpdateTyped
  PROVE  IsFiniteSet(Recorded) /\ Cardinality(Recorded) \in Nat
<1>1. Recorded \subseteq 1..Len(update) /\ IsFiniteSet(1..Len(update))
  BY RowsOfTyped, FS_Interval DEF Recorded
<1> QED
  BY <1>1, FS_Subset, FS_CardinalityType

\* No update is recorded, and none is forgotten.
KeepsUpdates ==
  /\ \A u \in DOMAIN update :
       /\ u \in DOMAIN update' /\ update'[u].recorded = update[u].recorded
       /\ update'[u].overlapped = update[u].overlapped
       /\ update[u].cut => update'[u].cut
       /\ update'[u].at # update[u].at =>
            update[u].at # "branch" \/ \E s \in Sessions : session'[s].update = u
       /\ update[u].recorded => update'[u].at = update[u].at \/ update'[u].at = "merged"
  /\ \A u \in DOMAIN update' \ DOMAIN update : ~update'[u].recorded /\ update'[u].at = "branch"

LEMMA RecordedRests ==
  ASSUME KeepsUpdates
  PROVE  Recorded' = Recorded
  BY DEF KeepsUpdates, Recorded

LEMMA CountsRest ==
  ASSUME UpdateTyped, UpdatesAreCounted, KeepsUpdates,
         \A s \in Sessions : \A u \in DOMAIN update :
           session[s].update = u /\ session'[s].update # u => update'[u].cut
  PROVE  UpdatesAreCounted'
<1>1. Recorded' = Recorded
  BY RecordedRests
<1>2. ASSUME NEW u \in DOMAIN update'
      PROVE  /\ update'[u].recorded => update'[u].at \in {"open", "merged"}
             /\ update'[u].at # "branch" /\ ~update'[u].recorded =>
                  update'[u].cut \/ \E s \in Sessions : session'[s].update = u
  <2>1. CASE u \in DOMAIN update
    <3>1. update'[u].recorded => update'[u].at \in {"open", "merged"}
      BY <2>1 DEF KeepsUpdates, UpdatesAreCounted
    <3>2. ASSUME update'[u].at # "branch", ~update'[u].recorded
          PROVE  update'[u].cut \/ \E s \in Sessions : session'[s].update = u
      <4>1. CASE update[u].at = "branch"
        BY <2>1, <3>2, <4>1 DEF KeepsUpdates
      <4>2. CASE update[u].at # "branch"
        BY <2>1, <3>2, <4>2 DEF KeepsUpdates, UpdatesAreCounted
      <4> QED
        BY <4>1, <4>2
    <3> QED
      BY <3>1, <3>2
  <2>2. CASE u \notin DOMAIN update
    BY <2>2 DEF KeepsUpdates
  <2> QED
    BY <2>1, <2>2
<1>3. Cardinality(Recorded') > UpdateLimit => \E u \in Recorded' : update'[u].overlapped
  <2> SUFFICES ASSUME Cardinality(Recorded) > UpdateLimit PROVE \E u \in Recorded : update'[u].overlapped
    BY <1>1
  <2>1. PICK u \in Recorded : update[u].overlapped
    BY DEF UpdatesAreCounted
  <2> QED
    BY <2>1 DEF Recorded, KeepsUpdates
<1> QED
  BY <1>2, <1>3 DEF UpdatesAreCounted

LEMMA CountedRests ==
  ASSUME SessionTyped, NEW y \in Sessions, Beside(y), Counted(y),
         session[y].at \in Making =>
           LET u == session[y].update
           IN  /\ u \in DOMAIN update' /\ update'[u].recorded = update[u].recorded
               /\ update'[u].at = update[u].at \/ (update[u].at = "open" /\ update'[u].at = "merged")
               /\ \A z \in Sessions \ {y} : session'[z].at \in Making => session'[z].update # u,
         session[y].at \in Updating => session'[y].overlapped \/ Recorded' = Recorded
  PROVE  Counted(y)'
<1>1. /\ session'[y].at = session[y].at /\ session'[y].update = session[y].update
      /\ session[y].overlapped => session'[y].overlapped
  BY BesideIs
<1> DEFINE u == session[y].update
<1>2. ASSUME session'[y].at \in Making
      PROVE  /\ u \in DOMAIN update' /\ ~update'[u].recorded
             /\ session'[y].at = "files" => update'[u].at = "branch"
             /\ session'[y].at = "record" => update'[u].at \in {"open", "merged"}
             /\ \A z \in Sessions \ {y} : session'[z].at \in Making => session'[z].update # u
  BY <1>1, <1>2 DEF Counted, At
<1>3. session'[y].at \notin Making => u = 0
  BY <1>1 DEF Counted
<1>4. ASSUME session'[y].at \in Updating, ~session'[y].overlapped PROVE WithinQuota'
  <2>1. WithinQuota /\ Recorded' = Recorded
    BY <1>1, <1>4 DEF Counted
  <2> QED
    BY <2>1 DEF WithinQuota
<1> QED
  BY <1>1, <1>2, <1>3, <1>4 DEF Counted, At

LEMMA SameUpdates ==
  ASSUME UpdateTyped, UNCHANGED update
  PROVE  KeepsUpdates
<1>1. update' = update
  OBVIOUS
<1> QED
  BY <1>1 DEF KeepsUpdates

\* A step of a request that is at no update.
LEMMA CountedAway ==
  ASSUME DriftInv, NEW s \in Sessions, \A y \in Sessions \ {s} : Beside(y), UNCHANGED update,
         session[s].at \notin Making, session'[s].at \notin Making, session'[s].update = 0,
         session'[s].at \in Updating /\ ~session'[s].overlapped => WithinQuota
  PROVE  AllCounted'
<1>0. /\ UpdateTyped /\ SessionTyped /\ UpdatesAreCounted /\ KeepsUpdates
      /\ DOMAIN update = 1..Len(update) /\ session[s].update = 0
  BY SameUpdates, RowsOfTyped DEF DriftInv, DriftTyped, AllCounted, Counted
<1>1. ASSUME NEW y \in Sessions \ {s}
      PROVE  Counted(y) /\ Beside(y) /\ session'[y].update = session[y].update /\ session'[y].at = session[y].at
  BY <1>0, BesideIs DEF DriftInv, AllCounted
<1>2. UpdatesAreCounted'
  <2>1. ASSUME NEW x \in Sessions, NEW u \in DOMAIN update, session[x].update = u, session'[x].update # u PROVE FALSE
    BY <1>0, <1>1, <2>1
  <2> QED
    BY <1>0, <2>1, CountsRest
<1>3. Recorded' = Recorded
  BY <1>0, RecordedRests
<1>4. ASSUME NEW y \in Sessions \ {s} PROVE Counted(y)'
  <2>1. session[y].at \in Making =>
          LET u == session[y].update
          IN  /\ u \in DOMAIN update' /\ update'[u].recorded = update[u].recorded
              /\ update'[u].at = update[u].at
              /\ \A z \in Sessions \ {y} : session'[z].at \in Making => session'[z].update # u
    BY <1>1 DEF Counted
  <2> QED
    BY <1>0, <1>1, <1>3, <2>1, CountedRests
<1>5. Counted(s)'
  BY <1>3 DEF Counted, At, Making, WithinQuota
<1> QED
  BY <1>2, <1>4, <1>5 DEF AllCounted

LEMMA PlacesOfUpdates == Updating = Making \cup {"branch"} /\ "idle" \notin Updating
  BY DEF Updating, Making

LEMMA CreateBranchCounted ==
  ASSUME DriftInv, NEW s \in Sessions, CreateBranch(s)
  PROVE  AllCounted'
<1>0. /\ DriftTyped /\ UpdateTyped /\ SessionTyped /\ UpdatesAreCounted /\ Counted(s)
      /\ DOMAIN update = 1..Len(update) /\ Len(update) \in Nat /\ session[s].at = "branch"
  BY RowsOfTyped DEF DriftInv, DriftTyped, AllCounted, CreateBranch, At
<1>k. PICK k \in Nat : k = Len(update) + 1
  BY <1>0
<1>1. /\ DOMAIN update' = DOMAIN update \cup {k} /\ update'[k].at = "branch" /\ ~update'[k].recorded
      /\ \A v \in DOMAIN update : update'[v] = update[v]
  BY <1>0, <1>k, CreateBranchUpdate
<1>2. /\ Alone(s) /\ session'[s].at = "files" /\ session'[s].update = k
      /\ session'[s].overlapped = session[s].overlapped
  BY <1>0, <1>k, CreateBranchIs
<1>3. k \notin DOMAIN update /\ session[s].update = 0
  BY <1>0, <1>k DEF Counted, Making
<1>4. KeepsUpdates
  BY <1>1 DEF KeepsUpdates
<1>5. ASSUME NEW y \in Sessions \ {s}
      PROVE  Counted(y) /\ Beside(y) /\ session'[y] = session[y]
  BY <1>2 DEF DriftInv, AllCounted, Alone, Beside
<1>6. UpdatesAreCounted'
  <2>1. ASSUME NEW x \in Sessions, NEW u \in DOMAIN update, session[x].update = u, session'[x].update # u PROVE FALSE
    BY <1>0, <1>3, <1>5, <2>1
  <2> QED
    BY <1>0, <1>4, <2>1, CountsRest
<1>7. Recorded' = Recorded
  BY <1>4, RecordedRests
<1>8. ASSUME NEW y \in Sessions \ {s} PROVE Counted(y)'
  <2>1. session[y].at \in Making =>
          LET u == session[y].update
          IN  /\ u \in DOMAIN update' /\ update'[u].recorded = update[u].recorded
              /\ update'[u].at = update[u].at
              /\ \A z \in Sessions \ {y} : session'[z].at \in Making => session'[z].update # u
    BY <1>1, <1>2, <1>3, <1>5 DEF Counted
  <2> QED
    BY <1>0, <1>5, <1>7, <2>1, CountedRests
<1>9. Counted(s)'
  <2>1. \A y \in Sessions \ {s} : session'[y].at \in Making => session'[y].update # k
    BY <1>3, <1>5 DEF Counted
  <2>2. ~session'[s].overlapped => WithinQuota'
    BY <1>0, <1>2, <1>7, PlacesOfUpdates DEF Counted, WithinQuota
  <2> QED
    BY <1>1, <1>2, <2>1, <2>2 DEF Counted, At, Making
<1> QED
  BY <1>6, <1>8, <1>9 DEF AllCounted

LEMMA StageCounted ==
  ASSUME DriftInv, NEW s \in Sessions, PutFiles(s) \/ CreatePullRequest(s)
  PROVE  AllCounted'
<1>0. /\ DriftTyped /\ UpdateTyped /\ SessionTyped /\ UpdatesAreCounted /\ Counted(s)
      /\ DOMAIN update = 1..Len(update) /\ Len(update) \in Nat /\ session[s].at \in Making
  BY RowsOfTyped DEF DriftInv, DriftTyped, AllCounted, PutFiles, CreatePullRequest, At, Making
<1>u. PICK u \in DOMAIN update : u = session[s].update
  BY <1>0 DEF Counted
<1>1. PICK stage \in {"files", "open"}, place \in {"pull", "record"} :
        /\ update' = [update EXCEPT ![u].at = stage] /\ Goes(s, place)
        /\ place = "record" => stage = "open"
  BY <1>u DEF PutFiles, CreatePullRequest
<1>2. /\ DOMAIN update' = DOMAIN update /\ update'[u].at = stage /\ update'[u].recorded = update[u].recorded
      /\ update'[u].overlapped = update[u].overlapped /\ update'[u].cut = update[u].cut
      /\ \A v \in DOMAIN update \ {u} : update'[v] = update[v]
  BY <1>0, <1>1, StageIs
<1>3. /\ Alone(s) /\ session'[s].at = place /\ session'[s].update = u
      /\ session'[s].overlapped = session[s].overlapped
  BY <1>0, <1>1, <1>u, GoesIs DEF Places, SameRows
<1>4. ~update[u].recorded
  BY <1>0, <1>u DEF Counted
<1>5. KeepsUpdates
  BY <1>2, <1>3, <1>4 DEF KeepsUpdates
<1>6. ASSUME NEW y \in Sessions \ {s}
      PROVE  Counted(y) /\ Beside(y) /\ session'[y] = session[y]
  BY <1>3 DEF DriftInv, AllCounted, Alone, Beside
<1>7. UpdatesAreCounted'
  <2>1. ASSUME NEW x \in Sessions, NEW v \in DOMAIN update, session[x].update = v, session'[x].update # v PROVE FALSE
    BY <1>3, <1>6, <1>u, <2>1
  <2> QED
    BY <1>0, <1>5, <2>1, CountsRest
<1>8. Recorded' = Recorded
  BY <1>5, RecordedRests
<1>9. ASSUME NEW y \in Sessions \ {s} PROVE Counted(y)'
  <2>1. session[y].at \in Making =>
          LET v == session[y].update
          IN  /\ v \in DOMAIN update' /\ update'[v].recorded = update[v].recorded
              /\ update'[v].at = update[v].at
              /\ \A z \in Sessions \ {y} : session'[z].at \in Making => session'[z].update # v
    <3> SUFFICES ASSUME session[y].at \in Making
                 PROVE  LET v == session[y].update
                        IN  /\ v \in DOMAIN update' /\ update'[v].recorded = update[v].recorded
                            /\ update'[v].at = update[v].at
                            /\ \A z \in Sessions \ {y} : session'[z].at \in Making => session'[z].update # v
      OBVIOUS
    <3>1. session[y].update \in DOMAIN update /\ session[y].update # u
      BY <1>0, <1>6, <1>u DEF Counted
    <3>2. \A z \in Sessions \ {y} : session[z].at \in Making => session[z].update # session[y].update
      BY <1>6 DEF Counted
    <3> QED
      BY <1>2, <1>3, <1>6, <3>1, <3>2
  <2> QED
    BY <1>0, <1>6, <1>8, <2>1, CountedRests
<1>10. Counted(s)'
  <2>1. \A y \in Sessions \ {s} : session'[y].at \in Making => session'[y].update # u
    BY <1>0, <1>6, <1>u DEF Counted
  <2>2. ~session'[s].overlapped => WithinQuota'
    BY <1>0, <1>3, <1>8, PlacesOfUpdates DEF Counted, WithinQuota
  <2> QED
    BY <1>1, <1>2, <1>3, <1>4, <2>1, <2>2 DEF Counted, At, Making
<1> QED
  BY <1>7, <1>9, <1>10 DEF AllCounted

LEMMA CreateRequestCounted ==
  ASSUME DriftInv, NEW s \in Sessions, CreateRequest(s)
  PROVE  AllCounted'
<1>0. /\ DriftTyped /\ UpdateTyped /\ SessionTyped /\ UpdatesAreCounted /\ Counted(s) /\ Apart
      /\ DOMAIN update = 1..Len(update) /\ At(s, "record") /\ session[s] \in Requests
  BY RowsOfTyped DEF DriftInv, DriftTyped, FindingInv, AllCounted, SessionTyped, CreateRequest
<1>u. PICK u \in DOMAIN update : u = session[s].update
  BY <1>0 DEF Counted, At, Making
<1>o. session[s].overlapped \in BOOLEAN
  BY <1>0 DEF Requests
<1>1. /\ DOMAIN update' = DOMAIN update /\ update'[u].recorded
      /\ update'[u].overlapped = session[s].overlapped /\ update'[u].at = update[u].at
      /\ \A v \in DOMAIN update \ {u} : update'[v] = update[v]
  BY <1>0, <1>u, <1>o, RecordIs
<1>2. Alone(s) /\ session'[s].at = "idle" /\ session'[s].update = 0
  BY <1>0, EndsIs DEF CreateRequest, Idle
<1>3. ~update[u].recorded /\ update[u].at \in {"open", "merged"}
  BY <1>0, <1>u DEF Counted, At, Making
<1>4. ASSUME NEW y \in Sessions \ {s}
      PROVE  Counted(y) /\ Beside(y) /\ session'[y] = session[y]
  BY <1>2 DEF DriftInv, AllCounted, Alone, Beside
<1>5. Recorded' = Recorded \cup {u} /\ u \notin Recorded
  BY <1>1, <1>3 DEF Recorded
<1>6. ASSUME NEW v \in DOMAIN update'
      PROVE  /\ update'[v].recorded => update'[v].at \in {"open", "merged"}
             /\ update'[v].at # "branch" /\ ~update'[v].recorded =>
                  update'[v].cut \/ \E x \in Sessions : session'[x].update = v
  <2>1. CASE v = u
    BY <1>1, <1>3, <2>1
  <2>2. CASE v # u
    <3>1. update'[v] = update[v] /\ v \in DOMAIN update
      BY <1>1, <2>2
    <3>2. ASSUME NEW x \in Sessions, session[x].update = v PROVE session'[x].update = v
      BY <1>4, <1>u, <2>2, <3>2
    <3> QED
      BY <1>0, <3>1, <3>2 DEF UpdatesAreCounted
  <2> QED
    BY <2>1, <2>2
<1>7. Cardinality(Recorded') > UpdateLimit => \E v \in Recorded' : update'[v].overlapped
  <2>1. CASE session[s].overlapped
    BY <1>1, <1>5, <2>1
  <2>2. CASE ~session[s].overlapped
    <3>1. WithinQuota
      BY <1>0, <2>2, PlacesOfUpdates DEF Counted, At, Making
    <3>2. IsFiniteSet(Recorded) /\ Cardinality(Recorded) \in Nat
      BY <1>0, RecordedFinite
    <3>3. Cardinality(Recorded') = Cardinality(Recorded) + 1
      BY <1>5, <3>2, FS_AddElement
    <3> QED
      BY <3>1, <3>2, <3>3, DriftAssumption DEF WithinQuota, DriftAssumption
  <2> QED
    BY <2>1, <2>2
<1>8. UpdatesAreCounted'
  BY <1>6, <1>7 DEF UpdatesAreCounted
<1>9. ASSUME NEW y \in Sessions \ {s} PROVE Counted(y)'
  <2>1. session[y].at \in Making =>
          LET v == session[y].update
          IN  /\ v \in DOMAIN update' /\ update'[v].recorded = update[v].recorded
              /\ update'[v].at = update[v].at
              /\ \A z \in Sessions \ {y} : session'[z].at \in Making => session'[z].update # v
    <3> SUFFICES ASSUME session[y].at \in Making
                 PROVE  LET v == session[y].update
                        IN  /\ v \in DOMAIN update' /\ update'[v].recorded = update[v].recorded
                            /\ update'[v].at = update[v].at
                            /\ \A z \in Sessions \ {y} : session'[z].at \in Making => session'[z].update # v
      OBVIOUS
    <3>1. session[y].update \in DOMAIN update /\ session[y].update # u
      BY <1>0, <1>4, <1>u DEF Counted, At, Making
    <3>2. \A z \in Sessions \ {y} : session[z].at \in Making => session[z].update # session[y].update
      BY <1>4 DEF Counted
    <3>3. session'[s].at \notin Making
      BY <1>2 DEF Making
    <3> QED
      BY <1>1, <1>4, <3>1, <3>2, <3>3
  <2>2. session[y].at \in Updating => session'[y].overlapped
    BY <1>0, <1>4, PlacesOfUpdates DEF Apart, At, Making
  <2> QED
    BY <1>0, <1>4, <2>1, <2>2, CountedRests
<1>10. Counted(s)'
  BY <1>2 DEF Counted, At, Making, Updating
<1> QED
  BY <1>8, <1>9, <1>10 DEF AllCounted

LEMMA CutCounted ==
  ASSUME DriftInv, NEW s \in Sessions, RequestCutShort(s)
  PROVE  AllCounted'
<1>0. /\ DriftTyped /\ UpdateTyped /\ SessionTyped /\ UpdatesAreCounted /\ Counted(s)
  BY DEF DriftInv, DriftTyped, AllCounted
<1>u. PICK u : u = session[s].update
  OBVIOUS
<1>1. /\ DOMAIN update' = DOMAIN update
      /\ \A v \in DOMAIN update :
           /\ v = u => /\ update'[v].cut /\ update'[v].at = update[v].at
                       /\ update'[v].recorded = update[v].recorded
                       /\ update'[v].overlapped = update[v].overlapped
           /\ v # u => update'[v] = update[v]
  BY <1>0, <1>u, CutIs
<1>2. Alone(s) /\ session'[s].at = "idle" /\ session'[s].update = 0
  BY <1>0, EndsIs DEF RequestCutShort, Idle
<1>3. KeepsUpdates
  BY <1>1 DEF KeepsUpdates
<1>4. ASSUME NEW y \in Sessions \ {s}
      PROVE  Counted(y) /\ Beside(y) /\ session'[y] = session[y]
  BY <1>2 DEF DriftInv, AllCounted, Alone, Beside
<1>5. UpdatesAreCounted'
  <2>1. ASSUME NEW x \in Sessions, NEW v \in DOMAIN update, session[x].update = v, session'[x].update # v
        PROVE  update'[v].cut
    <3>1. x = s
      BY <1>4, <2>1
    <3> QED
      BY <1>1, <1>u, <2>1, <3>1
  <2> QED
    BY <1>0, <1>3, <2>1, CountsRest
<1>6. Recorded' = Recorded
  BY <1>3, RecordedRests
<1>7. ASSUME NEW y \in Sessions \ {s} PROVE Counted(y)'
  <2>1. session[y].at \in Making =>
          LET v == session[y].update
          IN  /\ v \in DOMAIN update' /\ update'[v].recorded = update[v].recorded
              /\ update'[v].at = update[v].at
              /\ \A z \in Sessions \ {y} : session'[z].at \in Making => session'[z].update # v
    BY <1>1, <1>2, <1>4 DEF Counted, Making
  <2> QED
    BY <1>0, <1>4, <1>6, <2>1, CountedRests
<1>8. Counted(s)'
  BY <1>2 DEF Counted, At, Making, Updating
<1> QED
  BY <1>5, <1>7, <1>8 DEF AllCounted

LEMMA RestCounted ==
  ASSUME DriftInv, UNCHANGED session, KeepsUpdates,
         \A u \in DOMAIN update : update'[u].at = update[u].at \/ (update[u].at = "open" /\ update'[u].at = "merged")
  PROVE  AllCounted'
<1>0. UpdateTyped /\ SessionTyped /\ UpdatesAreCounted /\ session' = session /\ Recorded' = Recorded
  BY RecordedRests DEF DriftInv, DriftTyped, AllCounted
<1>1. UpdatesAreCounted'
  BY <1>0, CountsRest
<1>2. ASSUME NEW y \in Sessions PROVE Counted(y)'
  <2>1. Counted(y) /\ Beside(y)
    BY <1>0 DEF DriftInv, AllCounted, Beside
  <2>2. session[y].at \in Making =>
          LET v == session[y].update
          IN  /\ v \in DOMAIN update' /\ update'[v].recorded = update[v].recorded
              /\ update'[v].at = update[v].at \/ (update[v].at = "open" /\ update'[v].at = "merged")
              /\ \A z \in Sessions \ {y} : session'[z].at \in Making => session'[z].update # v
    BY <1>0, <2>1 DEF Counted, KeepsUpdates
  <2> QED
    BY <1>0, <2>1, <2>2, CountedRests
<1> QED
  BY <1>1, <1>2 DEF AllCounted

LEMMA CountedStep ==
  ASSUME DriftInv, Drifts
  PROVE  AllCounted'
<1>0. /\ DriftTyped /\ UpdateTyped /\ SessionTyped /\ \A y \in Sessions : Counted(y)
  BY DEF DriftInv, DriftTyped, AllCounted
<1>1. ASSUME NEW s \in Sessions, Detection(s) PROVE AllCounted'
  <2>1. session[s].at \notin Making /\ session'[s].at \notin Updating
    BY <1>1, DetectionPlaces DEF Detecting, Making, Updating
  <2>2. session[s].update = 0
    BY <1>0, <2>1 DEF Counted
  <2>3. UNCHANGED update
    BY <1>1 DEF Detection, RunDetection, ListEnvMetadata, FindTokenStatus, FindActive, ResolveOthers,
                ResolveFails, InsertFinding, InsertRefused
  <2> QED
    BY <1>1, <2>1, <2>2, <2>3, DetectionIs, CountedAway, PlacesOfUpdates
<1>2. ASSUME NEW s \in Sessions, Repairing(s) PROVE AllCounted'
  <2>1. session[s].at \notin Making /\ session'[s].at \notin Updating
    BY <1>0, <1>2, RepairingPlaces DEF Making, Updating
  <2>2. session[s].update = 0
    BY <1>0, <2>1 DEF Counted
  <2>3. UNCHANGED update
    BY <1>2 DEF Repairing, MarkIgnored, RotateToken, MarkResolved, RepairRefused, Repair
  <2> QED
    BY <1>0, <1>2, <2>1, <2>2, <2>3, RepairingIs, CountedAway, PlacesOfUpdates
<1>3. ASSUME NEW s \in Sessions, Snapshots(s) PROVE AllCounted'
  <2>1. session[s].at \in {"idle", "snapshot"} /\ session'[s].at \in {"idle", "snapshot"}
    BY <1>0, <1>3, SyncProjectSnapshotIs, EndsIs DEF Snapshots, SyncProjectSnapshot, CreateSnapshot, At, Idle
  <2>2. session[s].at \notin Making /\ session'[s].at \notin Updating
    BY <2>1 DEF Making, Updating
  <2> QED
    BY <1>3, <2>2, SnapshotsIs, CountedAway, PlacesOfUpdates
<1>4. ASSUME NEW s \in Sessions, CreateWorkflowUpdate(s) PROVE AllCounted'
  <2>1. Met(s, Updating) /\ session'[s].at = "branch" /\ session'[s].update = 0
    BY <1>0, <1>4, CreateWorkflowUpdateIs
  <2>2. session[s].at \notin Making /\ session'[s].at \notin Making /\ WithinQuota /\ UNCHANGED update
    BY <1>4, <2>1 DEF CreateWorkflowUpdate, At, Making
  <2> QED
    BY <2>1, <2>2, CountedAway DEF Met
<1>5. ASSUME NEW s \in Sessions, RequestSteps(s) PROVE AllCounted'
  BY <1>1, <1>2, <1>3, <1>4, <1>5, CreateBranchCounted, StageCounted, CreateRequestCounted, CutCounted
     DEF RequestSteps, Updates
<1>6. CASE EnvironmentChanges \/ TokenIssued \/ UNCHANGED driftVars
  <2>1. UNCHANGED session /\ UNCHANGED update
    BY <1>6 DEF EnvironmentChanges, TokenIssued, driftVars
  <2>2. update' = update /\ KeepsUpdates
    BY <1>0, <2>1, SameUpdates
  <2> QED
    BY <2>1, <2>2, RestCounted
<1>7. CASE Merged
  <2>1. PICK u \in DOMAIN update : MergeUpdate(u)
    BY <1>7 DEF Merged
  <2>2. /\ DOMAIN update' = DOMAIN update /\ update'[u].at = "merged" /\ update[u].at = "open"
        /\ update'[u].recorded = update[u].recorded
        /\ update'[u].overlapped = update[u].overlapped /\ update'[u].cut = update[u].cut
        /\ \A v \in DOMAIN update \ {u} : update'[v] = update[v]
    BY <1>0, <2>1, StageIs DEF MergeUpdate
  <2>3. KeepsUpdates
    BY <2>2 DEF KeepsUpdates
  <2> QED
    BY <2>1, <2>2, <2>3, RestCounted DEF MergeUpdate
<1> QED
  BY <1>5, <1>6, <1>7 DEF Drifts, DriftStep, RequestSteps

LEMMA DriftInvStep == DriftInv /\ Drifts => DriftInv'
  BY DriftTypedStep, FindingInvStep, SnapshotInvStep, CountedStep DEF DriftInv

-----------------------------------------------------------------------------
(* Drift: how it begins, and what the invariant says.                      *)

LEMMA DriftInvInit == DriftInit => DriftInv
<1> SUFFICES ASSUME DriftInit PROVE DriftInv
  OBVIOUS
<1>1. /\ token = 0 /\ issued = 0 /\ target = 1 /\ changes = 0 /\ update = <<>> /\ snapshot = NoSnapshot
      /\ \A s \in Sessions : session[s] = Idle
      /\ session \in [Sessions -> Requests]
  BY IdleTyped DEF DriftInit
<1>2. PICK start \in Starts :
        /\ tracked = start.tracked /\ environment = start.environment
        /\ finding = IF start.noticed THEN <<Noticed>> ELSE <<>>
  BY DEF DriftInit
<1>3. Noticed \in Findings /\ Noticed.since.tokens = 0 /\ Noticed.code = "ci_token_missing" /\ Noticed.target = 0
  BY IdleTyped, CodesAre DEF Noticed, Findings, FindingStatuses, Start
<1>4. FactsTyped
  BY <1>1, <1>2, DriftAssumption DEF FactsTyped, DriftAssumption
<1>5. FindingTyped /\ DOMAIN finding \subseteq {1} /\ \A i \in DOMAIN finding : finding[i] = Noticed
  BY <1>2, <1>3 DEF FindingTyped
<1>6. snapshot \in Snapshot
  BY <1>1, IdleTyped DEF NoSnapshot, Snapshot
<1>7. Len(finding) \in Nat /\ Len(update) = 0 /\ DOMAIN update = {}
  BY <1>1, <1>5 DEF FindingTyped
<1>8. Idle.row = 0 /\ Idle.update = 0 /\ Idle.at = "idle"
  BY DEF Idle
<1>9. DriftTyped
  BY <1>1, <1>4, <1>5, <1>6, <1>7, <1>8 DEF DriftTyped, SessionTyped, UpdateTyped, SnapshotTyped, RowsTyped
<1>10. FindingInv
  <2>1. Truthful
    BY <1>3, <1>5 DEF Truthful
  <2>2. Twins
    BY <1>5 DEF Twins
  <2>3. Apart
    BY <1>1, <1>8, GroupsAre DEF Apart
  <2>4. \A s \in Sessions : AsRead(s) /\ Aimed(s) /\ Listed(s)
    BY <1>1, <1>8 DEF AsRead, Aimed, Listed, At, Detecting, Replacing
  <2> QED
    BY <2>1, <2>2, <2>3, <2>4 DEF FindingInv
<1>11. SnapshotInv
  <2>1. Shows
    BY <1>1 DEF Shows, Fits, Age, Now, NoSnapshot, Start
  <2> QED
    BY <1>1, <1>8, <2>1 DEF SnapshotInv, Pictured, At
<1>12. AllCounted
  <2>1. Recorded = {}
    BY <1>7 DEF Recorded
  <2>2. Cardinality(Recorded) = 0
    BY <2>1, FS_EmptySet
  <2>3. UpdatesAreCounted
    BY <1>7, <2>2, DriftAssumption DEF UpdatesAreCounted, DriftAssumption
  <2> QED
    BY <1>1, <1>8, <2>3 DEF AllCounted, Counted, At, Making, Updating
<1> QED
  BY <1>9, <1>10, <1>11, <1>12 DEF DriftInv

LEMMA FindingsSay ==
  ASSUME DriftInv
  PROVE  TwinsOnlyByOverlap /\ FilesStayMissing /\ StatusFitsFindings
<1>1. TwinsOnlyByOverlap
  BY DEF DriftInv, FindingInv, Twins, TwinsOnlyByOverlap
<1>2. FilesStayMissing
  BY DEF DriftInv, FindingInv, Truthful, FilesStayMissing
<1>3. StatusFitsFindings
  BY DEF DriftInv, SnapshotInv, Shows, Fits, StatusFitsFindings
<1> QED
  BY <1>1, <1>2, <1>3

LeftTyped == left \in [Things -> Nat]

LEMMA Spending ==
  ASSUME LeftTyped, NEW thing \in Things, Spend(thing)
  PROVE  LeftTyped' /\ left' # left
<1>1. left[thing] \in Nat /\ left[thing] > 0
  BY DEF LeftTyped, Spend
<1>2. left[thing] - 1 \in Nat /\ left[thing] - 1 # left[thing]
  BY <1>1
<1>3. left'[thing] = left[thing] - 1
  BY DEF LeftTyped, Spend
<1> QED
  BY <1>2, <1>3 DEF LeftTyped, Spend

\* What a detection that read everything at once has found is what there is to be found.
LEMMA FoundIsNow ==
  ASSUME DriftInv, NEW s \in Sessions, session[s].at \in Replacing
  PROVE  session[s].found = FoundNow \/ Before(session[s].since, Now)
<1>1. /\ AsRead(s) /\ FactsTyped /\ session[s].at \in Detecting /\ session[s].at \notin {"metadata", "token"}
      /\ session[s].since \in Time
  BY DEF DriftInv, DriftTyped, FindingInv, SessionTyped, Requests, Replacing, Detecting
<1>2. issued \in Nat /\ changes \in Nat /\ environment \in Environments
  BY <1>1, DriftAssumption DEF FactsTyped, DriftAssumption
<1>3. session[s].since.tokens \in Nat /\ session[s].since.changes \in Nat
  BY <1>1 DEF Time
<1>4. CASE session[s].since.tokens = issued /\ session[s].since.changes = changes
  <2>1. \A code \in Codes : code \in session[s].found <=> code \in FoundNow
    BY <1>1, <1>2, <1>4, CodesAre DEF AsRead, At, FoundNow, CiAuth, Environments
  <2>2. session[s].found \subseteq Codes /\ FoundNow \subseteq Codes
    BY <1>1 DEF AsRead, FoundNow
  <2> QED
    BY <2>1, <2>2
<1>5. CASE ~(session[s].since.tokens = issued /\ session[s].since.changes = changes)
  <2>1. session[s].since.tokens <= issued /\ session[s].since.changes <= changes
    BY <1>1 DEF AsRead
  <2>2. session[s].since.tokens + session[s].since.changes < issued + changes
    BY <1>2, <1>3, <1>5, <2>1
  <2> QED
    BY <2>2 DEF Before, Now
<1> QED
  BY <1>4, <1>5

DetectedRule(s) ==
  session[s].at \in Replacing /\ session'[s].at = "idle" /\ ~session[s].overlapped /\ left' = left =>
    /\ \/ {finding'[i].code : i \in {k \in DOMAIN finding' : finding'[k].status = "active"}} = session[s].found
       \/ target # session[s].target /\ OfTarget \subseteq session[s].found
    /\ session[s].found = FoundNow \/ Before(session[s].since, Now)

LEMMA DetectedStep ==
  ASSUME DriftInv, LeftTyped, Drifts, NEW s \in Sessions
  PROVE  DetectedRule(s)
<1> SUFFICES ASSUME session[s].at \in Replacing, session'[s].at = "idle", ~session[s].overlapped, left' = left
             PROVE  \/ {finding'[i].code : i \in {k \in DOMAIN finding' : finding'[k].status = "active"}} = session[s].found
                    \/ target # session[s].target /\ OfTarget \subseteq session[s].found
  BY FoundIsNow DEF DetectedRule
<1>0. /\ DriftTyped /\ SessionTyped /\ FindingTyped /\ Aimed(s) /\ Listed(s) /\ session[s] \in Requests
      /\ session[s].at # "idle" /\ Len(finding) \in Nat /\ DOMAIN finding = 1..Len(finding)
  BY RowsOfTyped DEF DriftInv, DriftTyped, FindingInv, SessionTyped, Replacing
<1> DEFINE shown == {finding'[i].code : i \in {k \in DOMAIN finding' : finding'[k].status = "active"}}
<1>1. \A y \in Sessions : RequestSteps(y) => y = s
  <2> SUFFICES ASSUME NEW y \in Sessions, RequestSteps(y), y # s PROVE FALSE
    OBVIOUS
  <2>1. Beside(s)
    BY <1>0, DetectionIs, RepairingIs, SnapshotsIs, UpdatesIs, EndsIs DEF RequestSteps, RequestCutShort, Alone, Beside
  <2> QED
    BY <1>0, <2>1, BesideIs
<1>2. ~EnvironmentChanges /\ ~Merged /\ ~TokenIssued /\ ~(UNCHANGED driftVars)
  BY <1>0 DEF EnvironmentChanges, Merged, MergeUpdate, TokenIssued, driftVars
<1>3. RequestSteps(s)
  BY <1>1, <1>2 DEF Drifts, DriftStep, RequestSteps
<1>4. ResolveOthers(s) \/ InsertFinding(s) \/ InsertRefused(s)
  <2>1. ~ResolveFails(s) /\ ~RequestCutShort(s)
    BY Spending DEF ResolveFails, RequestCutShort, Things
  <2>2. ~FindActive(s)
    BY DEF FindActive, At, Replacing
  <2> QED
    BY <1>3, <2>1, <2>2 DEF RequestSteps, Detection, Repairing, Snapshots, Updates, At, Replacing,
         RunDetection, ListEnvMetadata, FindTokenStatus, MarkIgnored, RotateToken, MarkResolved, RepairRefused, Repair,
         SyncProjectSnapshot, CreateSnapshot, CreateWorkflowUpdate, CreateBranch, PutFiles, CreatePullRequest, CreateRequest
<1>5. CASE ResolveOthers(s)
  <2>1. At(s, "resolve") /\ Marked(session[s].rows, "resolved") /\ Goal(s, session[s].todo)
    BY <1>5 DEF ResolveOthers
  <2>2. session[s].todo = {}
    BY <1>0, <2>1, GoalIs DEF Requests
  <2>3. /\ OldFindings /\ DOMAIN finding' = DOMAIN finding
        /\ \A i \in DOMAIN finding :
             finding'[i].status = IF i \in session[s].rows THEN "resolved" ELSE finding[i].status
    BY <1>0, <2>1, MarkedIs DEF NoNewFinding
  <2>4. \A i \in DOMAIN finding : finding'[i].status = "active" <=> Staying(s, i)
    BY <2>1, <2>3 DEF Staying, Active
  <2>5. \A i \in DOMAIN finding : finding'[i].code = finding[i].code
    BY <2>3 DEF OldFindings
  <2>6. /\ \A i \in DOMAIN finding : Staying(s, i) => finding[i].code \in session[s].found
        /\ \A code \in session[s].found : \E i \in DOMAIN finding : Staying(s, i) /\ finding[i].code = code
    BY <1>0, <2>2 DEF Listed
  <2>7. shown = session[s].found
    BY <2>3, <2>4, <2>5, <2>6
  <2> QED
    BY <2>7
<1>6. CASE InsertFinding(s)
  <2>1. At(s, "place") /\ session[s].todo # {} /\ session[s].todo \subseteq Codes /\ session[s].todo \subseteq session[s].found
    BY <1>0, <1>6 DEF InsertFinding, Aimed, Requests, At, Replacing
  <2>k. PICK k \in Nat : k = Len(finding) + 1
    BY <1>0
  <2>c. PICK code \in Codes : code = NextCode(s)
    BY <2>1, NextCodeIs
  <2>2. /\ DOMAIN finding' = DOMAIN finding \cup {k}
        /\ \A i \in DOMAIN finding : finding'[i] = finding[i]
        /\ code \in session[s].todo /\ finding'[k].code = code /\ finding'[k].status = "active"
        /\ Goal(s, session[s].todo \ {code})
    BY <1>0, <1>6, <2>1, <2>k, <2>c, InsertIs
  <2>3. session[s].todo \ {code} = {}
    <3>1. session[s].todo \ {code} \in SUBSET Codes
      BY <2>1
    <3> QED
      BY <1>0, <2>2, <3>1, GoalIs
  <2>4. session[s].todo = {code}
    BY <2>2, <2>3
  <2>5. \A i \in DOMAIN finding : Staying(s, i) <=> finding'[i].status = "active"
    BY <2>1, <2>2 DEF Staying, Active, At
  <2>6. /\ \A i \in DOMAIN finding : Staying(s, i) => finding[i].code \in session[s].found
        /\ \A c \in session[s].found \ {code} : \E i \in DOMAIN finding : Staying(s, i) /\ finding[i].code = c
    BY <1>0, <2>4 DEF Listed
  <2>7. shown \subseteq session[s].found
    BY <2>1, <2>2, <2>5, <2>6
  <2>8. ASSUME NEW c \in session[s].found PROVE c \in shown
    BY <2>2, <2>5, <2>6, <2>8
  <2> QED
    BY <2>7, <2>8
<1>7. CASE InsertRefused(s)
  <2>1. Refused(s) /\ At(s, "place")
    BY <1>7 DEF InsertRefused
  <2>2. NextCode(s) \in session[s].todo /\ session[s].todo \subseteq session[s].found
    BY <1>0, <2>1, NextCodeIs DEF Aimed, Requests, At, Replacing
  <2> QED
    BY <2>1, <2>2, CodesAre DEF Refused
<1> QED
  BY <1>4, <1>5, <1>6, <1>7

NewestRule == snapshot' # snapshot => ~Before(snapshot'.since, snapshot.since) \/ snapshot'.overlapped

LEMMA NewestStep ==
  ASSUME DriftInv, Drifts
  PROVE  NewestRule
<1> SUFFICES ASSUME snapshot' # snapshot PROVE ~Before(snapshot'.since, snapshot.since) \/ snapshot'.overlapped
  BY DEF NewestRule
<1>1. PICK s \in Sessions : CreateSnapshot(s)
  BY DEF Drifts, DriftStep, EnvironmentChanges, TokenIssued, Merged, MergeUpdate, driftVars, RequestCutShort,
         Detection, RunDetection, ListEnvMetadata, FindTokenStatus, FindActive, ResolveOthers,
         ResolveFails, InsertFinding, InsertRefused,
         Repairing, MarkIgnored, RotateToken, MarkResolved, RepairRefused, Repair, Snapshots, SyncProjectSnapshot,
         Updates, CreateWorkflowUpdate, CreateBranch, PutFiles, CreatePullRequest, CreateRequest
<1>2. Pictured(s) /\ At(s, "snapshot") /\ SnapshotTyped /\ session[s] \in Requests
  BY <1>1 DEF DriftInv, DriftTyped, SnapshotInv, CreateSnapshot, SessionTyped
<1>3. snapshot'.since = session[s].since /\ snapshot'.overlapped = session[s].overlapped
  BY <1>1 DEF CreateSnapshot
<1>4. session[s].overlapped \/ Age(snapshot.since) <= Age(session[s].since)
  BY <1>2 DEF Pictured
<1>5. Age(snapshot.since) \in Nat /\ Age(session[s].since) \in Nat
  BY <1>2 DEF SnapshotTyped, Snapshot, Requests, Time, Age
<1>6. Age(snapshot.since) <= Age(session[s].since) => ~(Age(session[s].since) < Age(snapshot.since))
  BY <1>5
<1> QED
  BY <1>3, <1>4, <1>6 DEF Before, Age

-----------------------------------------------------------------------------
(* Drift: the theorem, and the token that is the repository's secret.      *)

SetupTyped ==
  /\ secret \in 0..issued
  /\ setup \in [next : {"token", "secret", "files", "done"}, token : 0..issued]
  /\ setup.next = "token" => secret = 0

RunAlone == (\E i \in DOMAIN run : RunJobs(i) \/ Completed(i) \/ Rerun(i) \/ Cancel(i)) 
            \/ (\E c \in Commits : Push(c)) \/ \E stage \in Stages, b \in Deployed : WorkflowDispatch(stage, b)

\* The pipeline leaves what is told of the project alone, and the setup but for a token.
LEMMA StepsAre ==
  ASSUME [Next]_vars
  PROVE  \/ RunAlone /\ UNCHANGED <<file, secret, platform>>
         \/ Setup /\ UNCHANGED github
         \/ (\E u \in DOMAIN update : WorkflowUpdated(u)) /\ UNCHANGED <<github, secret, setup>>
         \/ DriftStepped
         \/ UNCHANGED vars
<1>1. CASE Github
  BY <1>1 DEF Github, RunAlone, RunJobs, Completed, platform
<1>2. ASSUME NEW c \in Commits, Push(c) PROVE RunAlone /\ UNCHANGED <<file, secret, platform>>
  BY <1>2 DEF RunAlone, Push, platform
<1>3. ASSUME NEW stage \in Stages, NEW b \in Deployed, WorkflowDispatch(stage, b)
      PROVE  RunAlone /\ UNCHANGED <<file, secret, platform>>
  BY <1>3 DEF RunAlone, WorkflowDispatch, platform
<1>4. ASSUME NEW i \in DOMAIN run, Rerun(i) \/ Cancel(i) PROVE RunAlone /\ UNCHANGED <<file, secret, platform>>
  BY <1>4 DEF RunAlone, Rerun, Cancel, platform
<1>5. ASSUME NEW u \in DOMAIN update, WorkflowUpdated(u) PROVE UNCHANGED <<github, secret, setup>>
  BY <1>5 DEF WorkflowUpdated
<1>6. Setup => UNCHANGED github
  BY DEF Setup, SetupIssuesToken, SetupSetsSecret, SetupPushesFiles
<1> QED
  BY <1>1, <1>2, <1>3, <1>4, <1>5, <1>6 DEF Next, People

LEMMA StepsDrift == [Next]_vars => Drifts
<1> SUFFICES ASSUME [Next]_vars PROVE Drifts
  OBVIOUS
<1>1. CASE UNCHANGED platform
  BY <1>1 DEF Drifts, platform
<1>2. CASE Setup
  <2>1. SetupIssuesToken => TokenIssued
    BY DEF SetupIssuesToken, TokenIssued
  <2>2. SetupSetsSecret \/ SetupPushesFiles => UNCHANGED driftVars
    BY DEF SetupSetsSecret, SetupPushesFiles
  <2> QED
    BY <1>2, <2>1, <2>2 DEF Setup, Drifts
<1>3. CASE \E u \in DOMAIN update : WorkflowUpdated(u)
  BY <1>3 DEF WorkflowUpdated, Drifts, Merged
<1>4. CASE DriftStepped
  BY <1>4 DEF DriftStepped, Drifts
<1>5. CASE UNCHANGED vars
  BY <1>5 DEF vars, Drifts
<1> QED
  BY <1>1, <1>2, <1>3, <1>4, <1>5, StepsAre

LEMMA LeftTypedStep ==
  ASSUME LeftTyped, [Next]_vars
  PROVE  LeftTyped'
<1>1. UNCHANGED left => LeftTyped'
  BY DEF LeftTyped
<1>2. \A thing \in Things : Spend(thing) => LeftTyped'
  BY Spending
<1>3. ASSUME NEW i \in DOMAIN run, RunJobs(i) PROVE Spend("fault") \/ UNCHANGED left
  BY <1>3 DEF RunJobs
<1>4. RunAlone => Spend("fault") \/ UNCHANGED left
  BY <1>3 DEF RunAlone, Completed, Rerun, Cancel, Push, WorkflowDispatch
<1>5. Setup \/ (\E u \in DOMAIN update : WorkflowUpdated(u)) => UNCHANGED left
  BY DEF Setup, SetupIssuesToken, SetupSetsSecret, SetupPushesFiles, WorkflowUpdated, MergeUpdate
<1>6. DriftStep => (\E thing \in Things : Spend(thing)) \/ UNCHANGED left
  <2>1. ASSUME NEW s \in Sessions, RequestSteps(s)
        PROVE  (\E thing \in {"detect", "cut", "repair", "snapshot", "update"} : Spend(thing)) \/ UNCHANGED left
    <3>1. Detection(s) => Spend("detect") \/ Spend("cut") \/ UNCHANGED left
      BY DEF Detection, RunDetection, ListEnvMetadata, FindTokenStatus, FindActive, ResolveOthers, ResolveFails,
             InsertFinding, InsertRefused
    <3>2. Repairing(s) => Spend("repair") \/ UNCHANGED left
      BY DEF Repairing, MarkIgnored, RotateToken, MarkResolved, RepairRefused, Repair
    <3>3. Snapshots(s) => Spend("snapshot") \/ UNCHANGED left
      BY DEF Snapshots, SyncProjectSnapshot, CreateSnapshot
    <3>4. Updates(s) => Spend("update") \/ UNCHANGED left
      BY DEF Updates, CreateWorkflowUpdate, CreateBranch, PutFiles, CreatePullRequest, CreateRequest
    <3>5. RequestCutShort(s) => Spend("cut")
      BY DEF RequestCutShort
    <3> QED
      BY <2>1, <3>1, <3>2, <3>3, <3>4, <3>5 DEF RequestSteps
  <2>2. EnvironmentChanges => Spend("change")
    BY DEF EnvironmentChanges
  <2> QED
    BY <2>1, <2>2 DEF DriftStep, RequestSteps, Things
<1> QED
  BY <1>1, <1>2, <1>4, <1>5, <1>6, StepsAre DEF DriftStepped, vars, Things

LEMMA SetupTypedStep ==
  ASSUME SetupTyped, FactsTyped, [Next]_vars
  PROVE  SetupTyped'
<1>0. issued \in Nat /\ issued' \in Nat /\ issued <= issued'
  BY FactsGo, StepsDrift, DriftAssumption DEF FactsTyped, Onward, DriftAssumption
<1>1. CASE UNCHANGED <<secret, setup>>
  BY <1>0, <1>1 DEF SetupTyped
<1>2. CASE SetupIssuesToken
  BY <1>0, <1>2 DEF SetupTyped, SetupIssuesToken, IssueToken
<1>3. CASE SetupSetsSecret
  BY <1>0, <1>3 DEF SetupTyped, SetupSetsSecret
<1>4. CASE SetupPushesFiles
  BY <1>0, <1>4 DEF SetupTyped, SetupPushesFiles
<1> QED
  BY <1>1, <1>2, <1>3, <1>4, StepsAre DEF platform, Setup, DriftStepped, vars

RotatedRule ==
  token' # token /\ token # 0 /\ secret = token =>
    \E s \in Sessions : At(s, "repair") /\ finding[session[s].row].since.tokens < token

LEMMA RotatedStep ==
  ASSUME DriftInv, SetupTyped, [Next]_vars
  PROVE  RotatedRule
<1> SUFFICES ASSUME token' # token, token # 0, secret = token
             PROVE  \E s \in Sessions : At(s, "repair") /\ finding[session[s].row].since.tokens < token
  BY DEF RotatedRule
<1>1. ~SetupIssuesToken
  BY DEF SetupTyped, SetupIssuesToken
<1>2. DriftStep
  BY <1>1, StepsAre DEF platform, Setup, SetupSetsSecret, SetupPushesFiles, WorkflowUpdated, MergeUpdate,
                        DriftStepped, vars, driftVars, facts
<1>3. PICK s \in Sessions : RotateToken(s)
  BY <1>2 DEF DriftStep, EnvironmentChanges, facts, RequestCutShort,
         Detection, RunDetection, ListEnvMetadata, FindTokenStatus, FindActive, ResolveOthers,
         ResolveFails, InsertFinding, InsertRefused,
         Repairing, MarkIgnored, MarkResolved, RepairRefused, Repair, Snapshots, SyncProjectSnapshot, CreateSnapshot,
         Updates, CreateWorkflowUpdate, CreateBranch, PutFiles, CreatePullRequest, CreateRequest
<1>4. At(s, "repair") /\ finding[session[s].row].code = "ci_token_missing"
  BY <1>3 DEF RotateToken
<1>5. session[s].row \in DOMAIN finding
  BY <1>4 DEF DriftInv, FindingInv, Aimed
<1>6. finding[session[s].row].since.tokens = 0
  BY <1>4, <1>5 DEF DriftInv, FindingInv, Truthful
<1>7. token \in Nat
  BY DriftAssumption DEF DriftInv, DriftTyped, FactsTyped, DriftAssumption
<1> QED
  BY <1>4, <1>6, <1>7

PlatformInv == DriftInv /\ LeftTyped /\ SetupTyped

LEMMA PlatformInvInit == Init => PlatformInv
<1> SUFFICES ASSUME Init PROVE PlatformInv
  OBVIOUS
<1>1. DriftInv
  BY DriftInvInit DEF Init
<1>2. LeftTyped
  BY DriftAssumption DEF Init, DriftInit, DriftAssumption, LeftTyped
<1>3. secret = 0 /\ issued = 0 /\ setup = [next |-> IF tracked THEN "token" ELSE "done", token |-> 0]
  BY DEF Init, DriftInit
<1>4. SetupTyped
  BY <1>3 DEF SetupTyped
<1> QED
  BY <1>1, <1>2, <1>4 DEF PlatformInv

LEMMA PlatformInvStep == PlatformInv /\ [Next]_vars => PlatformInv'
  BY DriftInvStep, StepsDrift, LeftTypedStep, SetupTypedStep DEF PlatformInv, DriftInv, DriftTyped

LEMMA PlatformInvHolds == Spec => []PlatformInv
  BY PlatformInvInit, PlatformInvStep, PTL DEF Spec

LEMMA FindingsHold == Spec => [](TwinsOnlyByOverlap /\ FilesStayMissing /\ StatusFitsFindings)
<1>1. PlatformInv => TwinsOnlyByOverlap /\ FilesStayMissing /\ StatusFitsFindings
  BY FindingsSay DEF PlatformInv
<1> QED
  BY <1>1, PlatformInvHolds, PTL

LEMMA UpdatesHold == Spec => []UpdatesAreCounted
<1>1. PlatformInv => UpdatesAreCounted
  BY DEF PlatformInv, DriftInv, AllCounted
<1> QED
  BY <1>1, PlatformInvHolds, PTL

LEMMA DetectedHolds == Spec => DetectedIsActive
<1> DEFINE Rule == \A s \in Sessions : DetectedRule(s)
<1>1. ASSUME PlatformInv, [Next]_vars PROVE [Rule]_driftVars
  BY <1>1, DetectedStep, StepsDrift DEF PlatformInv
<1>2. Rule <=> (\A s \in Sessions :
       session[s].at \in Replacing /\ session'[s].at = "idle" /\ ~session[s].overlapped /\ left' = left =>
         /\ \/ {finding'[i].code : i \in {k \in DOMAIN finding' : finding'[k].status = "active"}} = session[s].found
            \/ target # session[s].target /\ OfTarget \subseteq session[s].found
         /\ session[s].found = FoundNow \/ Before(session[s].since, Now))
  BY DEF DetectedRule
<1> HIDE DEF Rule
<1> QED
  BY <1>1, <1>2, PlatformInvHolds, PTL DEF Spec, DetectedIsActive

LEMMA NewestHolds == Spec => NewestSnapshotStays
<1>1. ASSUME PlatformInv, [Next]_vars PROVE [NewestRule]_driftVars
  BY <1>1, NewestStep, StepsDrift DEF PlatformInv
<1> QED
  BY <1>1, PlatformInvHolds, PTL DEF Spec, NewestSnapshotStays, NewestRule

LEMMA RotatedHolds == Spec => RotatedWhenStale
<1>1. ASSUME PlatformInv, [Next]_vars PROVE [RotatedRule]_vars
  BY <1>1, RotatedStep DEF PlatformInv
<1> QED
  BY <1>1, PlatformInvHolds, PTL DEF Spec, RotatedWhenStale, RotatedRule

\* What the console tells of the project is true, whatever requests, repairs and
\* changes of its environment come between one read of the tables and the next:
\* twins, old snapshots and requests above the limit only come of overlaps, and a
\* token that works is replaced only for a finding older than it.
\* (ProjectDriftService, ProjectDriftRepairService, createWorkflowUpdatePullRequest.)
THEOREM WhatIsToldIsTrue == Spec => DriftIsTrue
  BY FindingsHold, UpdatesHold, DetectedHolds, NewestHolds, RotatedHolds DEF DriftIsTrue, FindingsAreTrue

-----------------------------------------------------------------------------
(* The pipeline: types.                                                    *)

Events == {"push", "pull_request", "dispatch", "after"}
TargetSets == {Targets, PreviewedTargets}
AnyJobs == UNION {[JobsOf(stage, targets) -> Results] : stage \in Stages, targets \in TargetSets}
Runs == [stage : Stages, commit : Commits, branch : Branches, event : Events, verdict : Statuses,
         checked : BOOLEAN, passedOver : BOOLEAN, told : BOOLEAN, job : AnyJobs]
OfStage(r) == \E targets \in TargetSets : r.job \in [JobsOf(r.stage, targets) -> Results]

RunTyped == run \in Seq(Runs) /\ \A i \in DOMAIN run : OfStage(run[i])
CommitsTyped ==
  /\ commit \in [Commits -> [there : BOOLEAN, flaw : Flaws]]
  /\ head \in [Deployed -> SUBSET Commits] /\ promoted \subseteq Commits
FileTyped == file \in [there : BOOLEAN, targets : TargetSets]
ReportTyped == DOMAIN report \subseteq DOMAIN run /\ \A i \in DOMAIN report : report[i] \in Statuses

PipelineTyped == RunTyped /\ CommitsTyped /\ FileTyped /\ ReportTyped

LEMMA TargetSetsAre == PreviewedTargets = {} /\ \A targets \in TargetSets : targets \subseteq Targets
  BY DEF PreviewedTargets, TargetSets

LEMMA RunsAre ==
  ASSUME RunTyped
  PROVE  /\ DOMAIN run = 1..Len(run) /\ Len(run) \in Nat
         /\ \A i \in DOMAIN run : run[i] \in Runs /\ OfStage(run[i])
<1>1. DOMAIN run = 1..Len(run) /\ Len(run) \in Nat /\ run \in [1..Len(run) -> Runs]
  BY DEF RunTyped
<1> QED
  BY <1>1 DEF RunTyped

LEMMA JobsOfStage ==
  ASSUME NEW stage \in Stages, NEW targets \in TargetSets, NEW f \in [JobsOf(stage, targets) -> Results]
  PROVE  f \in AnyJobs
<1> DEFINE its == [JobsOf(stage, targets) -> Results]
           all == {[JobsOf(st, ts) -> Results] : st \in Stages, ts \in TargetSets}
<1>1. its \in all /\ f \in its
  OBVIOUS
<1>2. AnyJobs = UNION all
  BY DEF AnyJobs
<1> HIDE DEF its, all
<1> QED
  BY <1>1, <1>2

\* What runs keep for good.
SameRun(r, q) ==
  /\ q.stage = r.stage /\ q.commit = r.commit /\ q.branch = r.branch /\ q.event = r.event
  /\ q.verdict = r.verdict /\ q.checked = r.checked /\ q.passedOver = r.passedOver
  /\ DOMAIN q.job = DOMAIN r.job
OldRuns == DOMAIN run \subseteq DOMAIN run' /\ \A i \in DOMAIN run : SameRun(run[i], run'[i])

\* With the run i told or not, and its jobs, changed.
With(i, t, f) == [run EXCEPT ![i] = [run[i] EXCEPT !.told = t, !.job = f]]
Changed(q, i, t, f) ==
  /\ q \in Seq(Runs) /\ DOMAIN q = DOMAIN run /\ \A k \in DOMAIN run \ {i} : q[k] = run[k]
  /\ \A k \in DOMAIN run : OfStage(q[k]) /\ SameRun(run[k], q[k])
  /\ q[i].told = t /\ q[i].job = f

LEMMA ChangeIs ==
  ASSUME RunTyped, NEW i \in DOMAIN run, NEW f \in [DOMAIN run[i].job -> Results], NEW t \in BOOLEAN
  PROVE  Changed(With(i, t, f), i, t, f)
<1>1. run[i] \in Runs /\ OfStage(run[i]) /\ run \in Seq(Runs)
  BY RunsAre DEF RunTyped
<1>2. PICK targets \in TargetSets : run[i].job \in [JobsOf(run[i].stage, targets) -> Results]
  BY <1>1 DEF OfStage
<1>3. run[i].stage \in Stages /\ f \in [JobsOf(run[i].stage, targets) -> Results]
  BY <1>1, <1>2 DEF Runs
<1>4. f \in AnyJobs
  BY <1>3, JobsOfStage
<1> DEFINE r == [run[i] EXCEPT !.told = t, !.job = f]
<1>5. /\ r \in Runs /\ r.told = t /\ r.job = f
      /\ r.stage = run[i].stage /\ r.commit = run[i].commit /\ r.branch = run[i].branch
      /\ r.event = run[i].event /\ r.verdict = run[i].verdict /\ r.checked = run[i].checked
      /\ r.passedOver = run[i].passedOver
  BY <1>1, <1>4 DEF Runs
<1>6. SameRun(run[i], r) /\ OfStage(r)
  <2>1. DOMAIN f = DOMAIN run[i].job
    OBVIOUS
  <2> HIDE DEF r
  <2> QED
    BY <1>3, <1>5, <2>1 DEF SameRun, OfStage
<1> DEFINE q == With(i, t, f)
<1>7. q = [run EXCEPT ![i] = r]
  BY DEF With
<1> HIDE DEF r, q
<1>8. q \in Seq(Runs) /\ DOMAIN q = DOMAIN run /\ q[i] = r /\ \A k \in DOMAIN run \ {i} : q[k] = run[k]
  BY <1>1, <1>5, <1>7, RunsAre
<1>9. \A k \in DOMAIN run \ {i} : OfStage(q[k]) /\ SameRun(run[k], q[k])
  BY <1>8, RunsAre DEF SameRun
<1>10. Changed(q, i, t, f)
  BY <1>5, <1>6, <1>8, <1>9 DEF Changed
<1> QED
  BY <1>10 DEF q

LEMMA AppendIs ==
  ASSUME NEW q \in Seq(Runs), NEW r \in Runs, NEW p, p = Append(q, r)
  PROVE  /\ Len(q) + 1 \in Nat /\ DOMAIN q = 1..Len(q)
         /\ p \in Seq(Runs) /\ DOMAIN p = DOMAIN q \cup {Len(q) + 1}
         /\ p[Len(q) + 1] = r /\ \A k \in DOMAIN q : p[k] = q[k]
  OBVIOUS

-----------------------------------------------------------------------------
(* The pipeline: jobs and what they need.                                  *)

UatJobs == {"vercel-uat", "docker-uat", "render-uat"}
MainJobs == {"vercel-main", "docker-main", "render-main"}
PackageJobs == {"validate", "build", "gate", "promote", "report"}

LEMMA PlanIs ==
  ASSUME NEW targets \in TargetSets
  PROVE  /\ DeploymentPlan(targets) \subseteq UatJobs \cup MainJobs
         /\ "docker-uat" \in DeploymentPlan(targets) <=> "render-uat" \in DeploymentPlan(targets)
         /\ "docker-main" \in DeploymentPlan(targets) <=> "render-main" \in DeploymentPlan(targets)
<1>1. targets \subseteq {"vercel", "render"}
  BY TargetSetsAre, DeliveryAssumption DEF DeliveryAssumption
<1>2. \A t \in targets, b \in Deployed :
        /\ DeployJob(t, b) \in {"vercel-uat", "render-uat", "vercel-main", "render-main"}
        /\ DeployJob(t, b) \in {"render-uat", "render-main"} => t = "render"
  BY <1>1 DEF DeployJob, Deployed
<1>3. DeployJob("render", "uat") = "render-uat" /\ DeployJob("render", "main") = "render-main"
  BY DEF DeployJob
<1>4. DockerJob("uat") = "docker-uat" /\ DockerJob("main") = "docker-main" /\ Deployed = {"uat", "main"}
  BY DEF DockerJob, Deployed
<1> DEFINE deploys == {DeployJob(t, b) : t \in targets, b \in Deployed}
           dockers == {DockerJob(b) : b \in IF "render" \in targets THEN Deployed ELSE {}}
<1>5. /\ deploys \subseteq {"vercel-uat", "render-uat", "vercel-main", "render-main"}
      /\ "render-uat" \in deploys <=> "render" \in targets
      /\ "render-main" \in deploys <=> "render" \in targets
  BY <1>2, <1>3, <1>4
<1>6. dockers = IF "render" \in targets THEN {"docker-uat", "docker-main"} ELSE {}
  BY <1>4
<1>7. DeploymentPlan(targets) = deploys \cup dockers
  BY DEF DeploymentPlan
<1> HIDE DEF deploys, dockers
<1> QED
  BY <1>5, <1>6, <1>7 DEF UatJobs, MainJobs

LEMMA JobsAre ==
  ASSUME RunTyped, NEW i \in DOMAIN run
  PROVE  LET jobs == DOMAIN run[i].job IN
         /\ run[i].stage \in Stages /\ \A j \in jobs : run[i].job[j] \in Results
         /\ run[i].stage = "access" => jobs = {"validate", "report"}
         /\ run[i].stage = "quality" => jobs = {"validate", "policy", "report"} \cup Checks
         /\ run[i].stage = "package" =>
              /\ PackageJobs \subseteq jobs /\ jobs \subseteq PackageJobs \cup UatJobs \cup MainJobs
              /\ "docker-uat" \in jobs <=> "render-uat" \in jobs
              /\ "docker-main" \in jobs <=> "render-main" \in jobs
<1>1. run[i] \in Runs /\ OfStage(run[i])
  BY RunsAre
<1>2. PICK targets \in TargetSets : run[i].job \in [JobsOf(run[i].stage, targets) -> Results]
  BY <1>1 DEF OfStage
<1>3. run[i].stage \in Stages
  BY <1>1 DEF Runs
<1>4. DOMAIN run[i].job = JobsOf(run[i].stage, targets) /\ \A j \in DOMAIN run[i].job : run[i].job[j] \in Results
  BY <1>2
<1>5. run[i].stage = "access" => DOMAIN run[i].job = {"validate", "report"}
  BY <1>4 DEF JobsOf
<1>6. run[i].stage = "quality" => DOMAIN run[i].job = {"validate", "policy", "report"} \cup Checks
  BY <1>4 DEF JobsOf
<1>7. run[i].stage = "package" => DOMAIN run[i].job = PackageJobs \cup DeploymentPlan(targets)
  BY <1>4 DEF JobsOf, PackageJobs
<1>8. \A j \in {"docker-uat", "render-uat", "docker-main", "render-main"} : j \notin PackageJobs
  BY DEF PackageJobs
<1> QED
  BY <1>3, <1>4, <1>5, <1>6, <1>7, <1>8, PlanIs

LEMMA NeedsAre ==
  ASSUME NEW i
  PROVE  /\ Needs(i, "validate") = {}
         /\ Needs(i, "policy") = {"validate"} /\ Needs(i, "security") = {"validate"}
         /\ Needs(i, "build") = {"validate"} /\ Needs(i, "gate") = {"build"}
         /\ Needs(i, "tests") = {"policy"} /\ Needs(i, "lint") = {"policy"} /\ Needs(i, "typecheck") = {"policy"}
         /\ Needs(i, "sonar") = {"policy", "tests"}
         /\ Needs(i, "vercel-uat") = {"build"} /\ Needs(i, "docker-uat") = {"build"}
         /\ Needs(i, "vercel-main") = {"build", "gate"} /\ Needs(i, "docker-main") = {"build", "gate"}
         /\ Needs(i, "render-uat") = {"docker-uat"} /\ Needs(i, "render-main") = {"docker-main"}
         /\ Needs(i, "promote") = {"build"} \cup (DOMAIN run[i].job \cap UatJobs)
         /\ Needs(i, "report") = DOMAIN run[i].job \ {"gate", "promote", "report"}
<1>1. OfUat = UatJobs /\ OfMain = MainJobs
  BY DEF OfUat, UatJobs, OfMain, MainJobs
<1>2. /\ Needs(i, "validate") = {}
      /\ Needs(i, "policy") = {"validate"} /\ Needs(i, "security") = {"validate"}
      /\ Needs(i, "build") = {"validate"} /\ Needs(i, "gate") = {"build"}
  BY DEF Needs
<1>3. /\ Needs(i, "tests") = {"policy"} /\ Needs(i, "lint") = {"policy"} /\ Needs(i, "typecheck") = {"policy"}
      /\ Needs(i, "sonar") = {"policy", "tests"}
  BY DEF Needs
<1>4. /\ Needs(i, "vercel-uat") = {"build"} /\ Needs(i, "docker-uat") = {"build"}
      /\ Needs(i, "vercel-main") = {"build", "gate"} /\ Needs(i, "docker-main") = {"build", "gate"}
  BY DEF Needs, DeploymentNeeds
<1>5. Needs(i, "render-uat") = {"docker-uat"} /\ Needs(i, "render-main") = {"docker-main"}
  BY DEF Needs
<1>6. Needs(i, "promote") = {"build"} \cup (DOMAIN run[i].job \cap UatJobs)
  BY <1>1 DEF Needs, PromotionNeeds
<1>7. Needs(i, "report") = DOMAIN run[i].job \ {"gate", "promote", "report"}
  BY DEF Needs, ReportNeeds
<1> QED
  BY <1>2, <1>3, <1>4, <1>5, <1>6, <1>7

LEMMA NeedsThere ==
  ASSUME RunTyped, NEW i \in DOMAIN run, NEW j \in DOMAIN run[i].job
  PROVE  Needs(i, j) \subseteq DOMAIN run[i].job
<1>1. run[i].stage \in Stages
  BY JobsAre
<1>2. CASE run[i].stage = "access"
  BY <1>2, JobsAre, NeedsAre
<1>3. CASE run[i].stage = "quality"
  <2>1. DOMAIN run[i].job = {"validate", "policy", "report", "tests", "lint", "typecheck", "security", "sonar"}
    BY <1>3, JobsAre DEF Checks
  <2> QED
    BY <2>1, NeedsAre
<1>4. CASE run[i].stage = "package"
  <2>1. CASE j \in PackageJobs
    BY <1>4, <2>1, JobsAre, NeedsAre DEF PackageJobs
  <2>2. CASE j \in UatJobs
    BY <1>4, <2>2, JobsAre, NeedsAre DEF PackageJobs, UatJobs
  <2>3. CASE j \in MainJobs
    BY <1>4, <2>3, JobsAre, NeedsAre DEF PackageJobs, MainJobs
  <2> QED
    BY <1>4, <2>1, <2>2, <2>3, JobsAre
<1> QED
  BY <1>1, <1>2, <1>3, <1>4 DEF Stages

-----------------------------------------------------------------------------
(* The pipeline: what a step does to the runs.                             *)

\* The jobs of a run go on: what has ended stays, and what ends was ready and did as its `if` says.
Settles(i, j) ==
  /\ ~Waits(i, j) => run'[i].job[j] = run[i].job[j]
  /\ Waits(i, j) /\ run'[i].job[j] \in {"success", "skipped", "failure"} => j \in Ready(i)
  /\ Waits(i, j) /\ run'[i].job[j] = "success" => RunsIf(i, j)
  /\ Waits(i, j) /\ run'[i].job[j] = "skipped" => ~RunsIf(i, j)
Continues(i) ==
  /\ \A j \in DOMAIN run[i].job : Settles(i, j)
  /\ run[i].told => run'[i].told
  /\ run'[i].told => run[i].told \/ Ended(i)

\* All its jobs are to run again.
Fresh(i) == ~run[i].told /\ \A j \in DOMAIN run[i].job : Waits(i, j)
Restarts(i) == run[i].told /\ Ended(i) /\ Conclusion(i) # "success" /\ ~run'[i].told /\ \A j \in DOMAIN run[i].job : run'[i].job[j] = "waiting"

\* A new run k comes from people, or follows a stage that has completed.
Asked(k) == run'[k].event # "after" /\ run'[k].verdict = "success" /\ (run'[k].event # "dispatch" => run'[k].stage = "access")
Following(i, k) ==
  /\ i \in DOMAIN run /\ Ended(i) /\ run'[i].told /\ run[i].stage # "package"
  /\ run'[k].stage = (IF run[i].stage = "access" THEN "quality" ELSE "package")
  /\ run'[k].event = "after" /\ run'[k].verdict = Conclusion(i)
  /\ run'[k].commit = run[i].commit /\ run'[k].branch = run[i].branch
  /\ run'[k].checked = (run[i].stage = "quality" /\ CheckedAll(i))
  /\ run'[k].passedOver = (run[i].stage = "quality" /\ ~ValidateIf(i))
Begins(k) ==
  /\ ~run'[k].told /\ \A j \in DOMAIN run'[k].job : run'[k].job[j] = "waiting"
  /\ Asked(k) \/ \E i \in DOMAIN run : Following(i, k)

RunsGo ==
  /\ RunTyped' /\ OldRuns
  /\ \A i \in DOMAIN run : Continues(i) \/ Restarts(i)
  /\ \A k \in DOMAIN run' \ DOMAIN run : Begins(k)
  /\ \A i \in DOMAIN run : run[i].stage # "package" /\ run'[i].told /\ ~run[i].told => \E k \in DOMAIN run' : Following(i, k)

LEMMA SameContinues ==
  ASSUME RunTyped, NEW i \in DOMAIN run, run'[i] = run[i]
  PROVE  Continues(i) /\ SameRun(run[i], run'[i])
  BY DEF Continues, Settles, SameRun, Waits

LEMMA RunsRest == RunTyped /\ run' = run => RunsGo
<1> SUFFICES ASSUME RunTyped, run' = run PROVE RunsGo
  OBVIOUS
<1>1. RunTyped'
  BY DEF RunTyped, OfStage
<1> QED
  BY <1>1, SameContinues DEF RunsGo, OldRuns

\* A run changes: its jobs, or whether its end was told.
LEMMA OneRunGoes ==
  ASSUME RunTyped, NEW i \in DOMAIN run, NEW f \in [DOMAIN run[i].job -> Results], NEW t \in BOOLEAN,
         run' = With(i, t, f),
         t => run[i].told \/ run[i].stage = "package",
         Continues(i) \/ Restarts(i)
  PROVE  RunsGo
<1>1. Changed(run', i, t, f)
  BY ChangeIs
<1>2. RunTyped' /\ OldRuns
  BY <1>1 DEF RunTyped, OldRuns, Changed
<1>3. \A k \in DOMAIN run : Continues(k) \/ Restarts(k)
  BY <1>1, SameContinues DEF Changed
<1> QED
  BY <1>1, <1>2, <1>3 DEF RunsGo, Changed

-----------------------------------------------------------------------------
(* The pipeline: the results of a run's jobs agree with their `if`s.       *)

After(i, j) == \A n \in Needs(i, j) : Got(i, n, {"success"})
Promotable(i) ==
  /\ run[i].branch = "uat" /\ Got(i, "build", {"success"})
  /\ \A j \in PromotionNeeds(i) : Got(i, j, {"success", "skipped"})
Allowed(i, j) == IF j = "promote" THEN Promotable(i) ELSE RunsIf(i, j)

Agrees(i, j) ==
  /\ run[i].job[j] \in {"success", "skipped", "failure"} => \A n \in Needs(i, j) : ~Waits(i, n)
  /\ run[i].job[j] = "success" => Allowed(i, j)
  /\ run[i].job[j] = "skipped" => ~RunsIf(i, j)
RunAgrees(i) == \A j \in DOMAIN run[i].job : Agrees(i, j)

LEMMA RunsIfIs ==
  ASSUME NEW i, NEW j
  PROVE  RunsIf(i, j) <=>
           IF j = "validate" THEN ValidateIf(i)
           ELSE IF j = "promote" THEN PromotionIf(i)
           ELSE IF j = "report" THEN TRUE
           ELSE /\ After(i, j)
                /\ j = "build" => run[i].branch \in Deployed
                /\ j = "gate" => run[i].branch = "main"
                /\ j \in OfUat => run[i].branch = "uat"
                /\ j \in OfMain => run[i].branch = "main"
                /\ j = "sonar" => Sonar
<1>1. \A k \in OfUat \cup OfMain : k \notin {"validate", "promote", "report", "build", "gate", "sonar"}
  BY DEF OfUat, OfMain
<1>2. OfUat \cap OfMain = {}
  BY DEF OfUat, OfMain
<1>3. CASE j \in OfUat
  BY <1>1, <1>2, <1>3 DEF RunsIf, After
<1>4. CASE j \in OfMain
  BY <1>1, <1>2, <1>4 DEF RunsIf, After
<1>5. CASE j \in {"validate", "promote", "report", "build", "gate", "sonar"}
  BY <1>1, <1>5 DEF RunsIf, After
<1>6. CASE j \notin OfUat \cup OfMain \cup {"validate", "promote", "report", "build", "gate", "sonar"}
  BY <1>6 DEF RunsIf, After
<1> QED
  BY <1>3, <1>4, <1>5, <1>6

\* The needs of a job whose needs have all ended are as they were.
LEMMA NeedsStay ==
  ASSUME RunTyped, NEW i \in DOMAIN run, SameRun(run[i], run'[i]), NEW j \in DOMAIN run[i].job,
         \A k \in DOMAIN run[i].job : ~Waits(i, k) => run'[i].job[k] = run[i].job[k],
         \A n \in Needs(i, j) : ~Waits(i, n)
  PROVE  /\ Needs(i, j)' = Needs(i, j)
         /\ \A n \in Needs(i, j) : ~Waits(i, n)'
         /\ After(i, j)' <=> After(i, j)
         /\ ValidateIf(i)' <=> ValidateIf(i)
         /\ j = "promote" => (Promotable(i)' <=> Promotable(i))
<1>1. Needs(i, j)' = Needs(i, j)
  BY DEF SameRun, Needs, PromotionNeeds, ReportNeeds
<1>2. \A n \in Needs(i, j) : n \in DOMAIN run[i].job /\ run'[i].job[n] = run[i].job[n]
  BY NeedsThere
<1>3. \A n \in Needs(i, j) : ~Waits(i, n)'
  BY <1>2 DEF Waits
<1>4. After(i, j)' <=> After(i, j)
  BY <1>1, <1>2 DEF After, Got, SameRun
<1>5. ValidateIf(i)' <=> ValidateIf(i)
  BY DEF ValidateIf, SameRun
<1>6. ASSUME j = "promote" PROVE Promotable(i)' <=> Promotable(i)
  <2>1. PromotionNeeds(i)' = PromotionNeeds(i)
    BY DEF PromotionNeeds, SameRun
  <2>2. Needs(i, j) = {"build"} \cup PromotionNeeds(i)
    BY <1>6 DEF Needs
  <2> QED
    BY <1>2, <2>1, <2>2 DEF Promotable, Got, SameRun
<1> QED
  BY <1>1, <1>3, <1>4, <1>5, <1>6

LEMMA RunsIfStays ==
  ASSUME NEW i, NEW j, run'[i].branch = run[i].branch, j # "promote",
         After(i, j)' <=> After(i, j), ValidateIf(i)' <=> ValidateIf(i)
  PROVE  RunsIf(i, j)' <=> RunsIf(i, j)
<1>1. \A k \in OfUat \cup OfMain : k \notin {"validate", "promote", "report", "build", "gate", "sonar"}
  BY DEF OfUat, OfMain
<1>2. OfUat \cap OfMain = {}
  BY DEF OfUat, OfMain
<1>3. CASE j \in OfUat
  BY <1>1, <1>2, <1>3 DEF RunsIf, After
<1>4. CASE j \in OfMain
  BY <1>1, <1>2, <1>4 DEF RunsIf, After
<1>5. CASE j \in {"validate", "report", "build", "gate", "sonar"}
  BY <1>1, <1>5 DEF RunsIf, After
<1>6. CASE j \notin OfUat \cup OfMain \cup {"validate", "promote", "report", "build", "gate", "sonar"}
  BY <1>6 DEF RunsIf, After
<1> QED
  BY <1>3, <1>4, <1>5, <1>6

LEMMA AllowedStays ==
  ASSUME RunTyped, NEW i \in DOMAIN run, SameRun(run[i], run'[i]), NEW j \in DOMAIN run[i].job,
         \A k \in DOMAIN run[i].job : ~Waits(i, k) => run'[i].job[k] = run[i].job[k],
         \A n \in Needs(i, j) : ~Waits(i, n)
  PROVE  /\ Needs(i, j)' = Needs(i, j)
         /\ \A n \in Needs(i, j) : ~Waits(i, n)'
         /\ RunsIf(i, j) => Allowed(i, j)'
         /\ Allowed(i, j) => Allowed(i, j)'
         /\ ~RunsIf(i, j) => ~RunsIf(i, j)'
<1>1. CASE j # "promote"
  <2>1. RunsIf(i, j)' <=> RunsIf(i, j)
    BY <1>1, NeedsStay, RunsIfStays DEF SameRun
  <2> QED
    BY <1>1, <2>1, NeedsStay DEF Allowed
<1>2. CASE j = "promote"
  <2>1. Promotable(i)' <=> Promotable(i)
    BY <1>2, NeedsStay
  <2>2. Cancelled(i) => Cancelled(i)'
    BY DEF Cancelled, Waits, SameRun
  <2>3. RunsIf(i, j) <=> ~Cancelled(i) /\ Promotable(i)
    BY <1>2, RunsIfIs DEF PromotionIf, Promotable
  <2>4. RunsIf(i, j)' <=> ~Cancelled(i)' /\ Promotable(i)'
    BY <1>2 DEF RunsIf, PromotionIf, Promotable
  <2> QED
    BY <1>2, <2>1, <2>2, <2>3, <2>4, NeedsStay DEF Allowed
<1> QED
  BY <1>1, <1>2

LEMMA AgreesStep ==
  ASSUME RunTyped, NEW i \in DOMAIN run, SameRun(run[i], run'[i]), RunAgrees(i), Continues(i) \/ Restarts(i)
  PROVE  RunAgrees(i)'
<1> SUFFICES ASSUME NEW j \in DOMAIN run[i].job PROVE Agrees(i, j)'
  BY DEF RunAgrees, SameRun
<1>1. CASE Restarts(i)
  BY <1>1 DEF Restarts, Agrees
<1>2. CASE Continues(i)
  <2>1. \A k \in DOMAIN run[i].job : ~Waits(i, k) => run'[i].job[k] = run[i].job[k]
    BY <1>2 DEF Continues, Settles
  <2>2. Agrees(i, j) /\ Settles(i, j)
    BY <1>2 DEF RunAgrees, Continues
  <2>3. CASE run'[i].job[j] \in {"success", "skipped", "failure"}
    <3>1. \A n \in Needs(i, j) : ~Waits(i, n)
      BY <2>1, <2>2, <2>3 DEF Agrees, Settles, Ready
    <3> HIDE <2>3
    <3>2. /\ Needs(i, j)' = Needs(i, j) /\ \A n \in Needs(i, j) : ~Waits(i, n)'
      BY <2>1, <3>1, AllowedStays
    <3>3. run'[i].job[j] = "success" => Allowed(i, j)'
      BY <2>1, <2>2, <3>1, AllowedStays DEF Agrees, Settles
    <3>4. run'[i].job[j] = "skipped" => ~RunsIf(i, j)'
      BY <2>1, <2>2, <3>1, AllowedStays DEF Agrees, Settles
    <3> QED
      BY <3>2, <3>3, <3>4 DEF Agrees
  <2> QED
    BY <2>3 DEF Agrees
<1> QED
  BY <1>1, <1>2

-----------------------------------------------------------------------------
(* The pipeline: what it has done.                                         *)

NextStage(stage) == IF stage = "access" THEN "quality" ELSE "package"

ToldHaveEnded == \A i \in DOMAIN run : run[i].told => Ended(i)
VerdictsAreOfChecks ==
  \A i \in DOMAIN run :
    run[i].stage = "package" /\ run[i].event # "dispatch" /\ run[i].verdict = "success" =>
      run[i].checked \/ run[i].passedOver
PromotionsAreKept ==
  \A i \in DOMAIN run : run[i].stage = "package" /\ run[i].job["promote"] = "success" => run[i].commit \in promoted
SuccessesAreOfRuns ==
  \A i \in DOMAIN report : run[i].stage = "quality" /\ report[i] = "success" => Ended(i) /\ Conclusion(i) = "success"
Follows(i, k) ==
  /\ run[k].stage = NextStage(run[i].stage) /\ run[k].verdict = "success"
  /\ run[k].commit = run[i].commit /\ run[k].branch = run[i].branch
SuccessesAreFollowed ==
  \A i \in DOMAIN run : run[i].told /\ run[i].stage # "package" /\ Conclusion(i) = "success" =>
    \E k \in DOMAIN run : Follows(i, k)
HeadsAreRun ==
  \A b \in Deployed : \A c \in head[b] :
    \E i \in DOMAIN run : run[i].stage = "access" /\ run[i].commit = c /\ run[i].branch = b

History ==
  /\ \A i \in DOMAIN run : RunAgrees(i)
  /\ ToldHaveEnded /\ VerdictsAreOfChecks /\ PromotionsAreKept
  /\ SuccessesAreOfRuns /\ SuccessesAreFollowed /\ HeadsAreRun

PipelineInv == PipelineTyped /\ History

\* A run that has ended well has no job that failed, was cancelled or waits.
LEMMA SuccessIs ==
  ASSUME RunTyped, NEW i \in DOMAIN run, Ended(i), Conclusion(i) = "success"
  PROVE  \A j \in DOMAIN run[i].job : run[i].job[j] \in {"success", "skipped"}
<1>1. \A j \in DOMAIN run[i].job : run[i].job[j] \in Results
  BY JobsAre
<1>2. \A j \in DOMAIN run[i].job : run[i].job[j] # "failure" /\ run[i].job[j] # "cancelled"
  BY DEF Conclusion, Worst
<1> QED
  BY <1>1, <1>2 DEF Ended, Waits, Results

\* A job that did not fail ran if it could.
LEMMA RanIfItCould ==
  ASSUME NEW i, NEW j \in DOMAIN run[i].job, RunAgrees(i), run[i].job[j] \in {"success", "skipped"}, RunsIf(i, j)
  PROVE  run[i].job[j] = "success"
  BY DEF RunAgrees, Agrees

LEMMA ChecksHavePassed ==
  ASSUME RunTyped, NEW i \in DOMAIN run, RunAgrees(i), run[i].stage = "quality", Ended(i), Conclusion(i) = "success"
  PROVE  CheckedAll(i) \/ ~ValidateIf(i)
<1> SUFFICES ASSUME ValidateIf(i) PROVE CheckedAll(i)
  OBVIOUS
<1>1. /\ DOMAIN run[i].job = {"validate", "policy", "report", "tests", "lint", "typecheck", "security", "sonar"}
      /\ \A j \in DOMAIN run[i].job : run[i].job[j] \in {"success", "skipped"}
  BY JobsAre, SuccessIs DEF Checks
<1>2. \A j : j \notin OfUat \cup OfMain \/ j \in {"vercel-uat", "render-uat", "docker-uat", "vercel-main", "render-main", "docker-main"}
  BY DEF OfUat, OfMain
<1>3. run[i].job["validate"] = "success"
  BY <1>1, RunsIfIs, RanIfItCould
<1>4. \A j \in {"policy", "security"} : After(i, j) /\ RunsIf(i, j)
  BY <1>2, <1>3, NeedsAre, RunsIfIs DEF After, Got
<1>5. run[i].job["policy"] = "success" /\ run[i].job["security"] = "success"
  BY <1>1, <1>4, RanIfItCould
<1>6. \A j \in {"tests", "lint", "typecheck"} : After(i, j) /\ RunsIf(i, j)
  BY <1>2, <1>5, NeedsAre, RunsIfIs DEF After, Got
<1>7. \A j \in {"tests", "lint", "typecheck"} : run[i].job[j] = "success"
  BY <1>1, <1>6, RanIfItCould
<1>8. Sonar => RunsIf(i, "sonar")
  <2>1. After(i, "sonar")
    BY <1>5, <1>7, NeedsAre DEF After, Got
  <2> QED
    BY <1>2, <2>1, RunsIfIs
<1>9. run[i].job["sonar"] \in (IF Sonar THEN {"success"} ELSE {"success", "skipped"})
  BY <1>1, <1>8, RanIfItCould
<1> QED
  BY <1>5, <1>7, <1>9 DEF CheckedAll, Checks, Got

\* A job of uat that a build has let run deploys, unless it fails or is cancelled.
LEMMA UatJobsRun ==
  ASSUME RunTyped, NEW i \in DOMAIN run, RunAgrees(i), run[i].stage = "package", run[i].branch = "uat",
         run[i].job["build"] = "success",
         \A j \in DOMAIN run[i].job \cap UatJobs : run[i].job[j] \in {"success", "skipped"}
  PROVE  \A j \in DOMAIN run[i].job \cap UatJobs : run[i].job[j] = "success"
<1>1. /\ UatJobs = OfUat /\ \A j \in UatJobs : j \notin {"validate", "promote", "report", "build", "gate", "sonar"} \cup OfMain
      /\ "build" \in DOMAIN run[i].job
  BY JobsAre DEF UatJobs, OfUat, OfMain, PackageJobs
<1>2. \A j \in {"vercel-uat", "docker-uat"} : After(i, j) /\ RunsIf(i, j)
  <2>1. \A j \in {"vercel-uat", "docker-uat"} : After(i, j)
    BY NeedsAre DEF After, Got
  <2> QED
    BY <1>1, <2>1, RunsIfIs DEF UatJobs
<1>3. \A j \in {"vercel-uat", "docker-uat"} : j \in DOMAIN run[i].job => run[i].job[j] = "success"
  BY <1>2, RanIfItCould DEF UatJobs
<1>4. RunsIf(i, "render-uat")
  <2>1. After(i, "render-uat")
    BY <1>3, NeedsAre DEF After, Got
  <2> QED
    BY <1>1, <2>1, RunsIfIs DEF UatJobs
<1>5. "render-uat" \in DOMAIN run[i].job => run[i].job["render-uat"] = "success"
  BY <1>4, RanIfItCould DEF UatJobs
<1> QED
  BY <1>3, <1>5 DEF UatJobs

LEMMA PromotionFollowsUat ==
  ASSUME RunTyped, NEW i \in DOMAIN run, RunAgrees(i), run[i].stage = "package", run[i].job["promote"] = "success"
  PROVE  \A j \in DOMAIN run[i].job : j \in Deploys \cap OfUat => run[i].job[j] = "success"
<1>1. "promote" \in DOMAIN run[i].job /\ "build" \in DOMAIN run[i].job
  BY JobsAre DEF PackageJobs
<1>2. Promotable(i)
  BY <1>1 DEF RunAgrees, Agrees, Allowed
<1>3. OfUat = UatJobs /\ run[i].branch = "uat" /\ run[i].job["build"] = "success"
  BY <1>1, <1>2 DEF Promotable, Got, OfUat, UatJobs
<1>4. \A j \in DOMAIN run[i].job \cap UatJobs : run[i].job[j] \in {"success", "skipped"}
  BY <1>2, <1>3 DEF Promotable, PromotionNeeds, Got
<1> QED
  BY <1>3, <1>4, UatJobsRun

LEMMA GoodPackageIsPromoted ==
  ASSUME RunTyped, NEW i \in DOMAIN run, RunAgrees(i), run[i].stage = "package", run[i].branch = "uat",
         ValidateIf(i), Ended(i), Conclusion(i) = "success"
  PROVE  run[i].job["promote"] = "success"
<1>1. /\ {"validate", "build", "promote"} \subseteq DOMAIN run[i].job
      /\ \A j \in DOMAIN run[i].job : run[i].job[j] \in {"success", "skipped"}
  BY JobsAre, SuccessIs DEF PackageJobs
<1>2. run[i].job["validate"] = "success"
  BY <1>1, RunsIfIs, RanIfItCould
<1>3. RunsIf(i, "build")
  <2>1. After(i, "build") /\ "build" \notin OfUat \cup OfMain
    BY <1>2, NeedsAre DEF After, Got, OfUat, OfMain
  <2> QED
    BY <2>1, RunsIfIs DEF Deployed
<1>4. run[i].job["build"] = "success"
  BY <1>1, <1>3, RanIfItCould
<1>5. ~Cancelled(i)
  BY <1>1 DEF Cancelled
<1>6. PromotionIf(i)
  BY <1>1, <1>4, <1>5 DEF PromotionIf, PromotionNeeds, Got
<1>7. RunsIf(i, "promote")
  BY <1>6, RunsIfIs
<1> QED
  BY <1>1, <1>7, RanIfItCould

-----------------------------------------------------------------------------
(* The pipeline: what it has done stays so.                                *)

PromotionsGo ==
  /\ promoted \subseteq promoted'
  /\ \A i \in DOMAIN run :
       run[i].stage = "package" /\ Waits(i, "promote") /\ run'[i].job["promote"] = "success" => run[i].commit \in promoted'
Reported(i) ==
  /\ i \in DOMAIN run /\ "report" \in Ready(i) /\ report'[i] = StageConclusion(i)
  /\ Continues(i) /\ run'[i].job["report"] = "success"
ReportsGo == \A i \in DOMAIN report' : (i \in DOMAIN report /\ report'[i] = report[i]) \/ Reported(i)
HeadsGo ==
  \A b \in Deployed : \A c \in head'[b] :
    c \in head[b] \/ \E k \in DOMAIN run' : run'[k].stage = "access" /\ run'[k].commit = c /\ run'[k].branch = b

LEMMA EndedStays ==
  ASSUME NEW i, SameRun(run[i], run'[i]), Continues(i), Ended(i)
  PROVE  Ended(i)' /\ Conclusion(i)' = Conclusion(i)
<1>1. DOMAIN run'[i].job = DOMAIN run[i].job /\ \A j \in DOMAIN run[i].job : run'[i].job[j] = run[i].job[j]
  BY DEF SameRun, Continues, Settles, Ended
<1>2. Ended(i)'
  BY <1>1 DEF Ended, Waits
<1>3. Conclusion(i)' = Conclusion(i)
  BY <1>1 DEF Conclusion, Worst
<1> QED
  BY <1>2, <1>3

LEMMA PackageHas ==
  ASSUME NEW r, OfStage(r), r.stage = "package"
  PROVE  PackageJobs \subseteq DOMAIN r.job
  BY DEF OfStage, JobsOf, PackageJobs

LEMMA ToldStep ==
  ASSUME ToldHaveEnded, RunsGo
  PROVE  ToldHaveEnded'
<1> SUFFICES ASSUME NEW i \in DOMAIN run', run'[i].told PROVE Ended(i)'
  BY DEF ToldHaveEnded
<1>1. i \in DOMAIN run
  BY DEF RunsGo, Begins
<1>2. Continues(i) /\ SameRun(run[i], run'[i])
  BY <1>1 DEF RunsGo, Restarts, OldRuns
<1>3. Ended(i)
  BY <1>1, <1>2 DEF Continues, ToldHaveEnded
<1> QED
  BY <1>2, <1>3, EndedStays

LEMMA VerdictsStep ==
  ASSUME RunTyped, \A i \in DOMAIN run : RunAgrees(i), VerdictsAreOfChecks, RunsGo
  PROVE  VerdictsAreOfChecks'
<1> SUFFICES ASSUME NEW k \in DOMAIN run', run'[k].stage = "package", run'[k].event # "dispatch", run'[k].verdict = "success"
             PROVE  run'[k].checked \/ run'[k].passedOver
  BY DEF VerdictsAreOfChecks
<1>1. CASE k \in DOMAIN run
  BY <1>1 DEF RunsGo, OldRuns, SameRun, VerdictsAreOfChecks
<1>2. CASE k \notin DOMAIN run
  <2>1. ~Asked(k)
    BY DEF Asked
  <2>2. PICK i \in DOMAIN run : Following(i, k)
    BY <1>2, <2>1 DEF RunsGo, Begins
  <2>3. run[i].stage \in Stages
    BY JobsAre
  <2>4. Ended(i) /\ run[i].stage = "quality" /\ Conclusion(i) = "success"
    BY <2>2, <2>3 DEF Following, Stages
  <2>5. CheckedAll(i) \/ ~ValidateIf(i)
    BY <2>4, ChecksHavePassed
  <2> QED
    BY <2>2, <2>4, <2>5 DEF Following
<1> QED
  BY <1>1, <1>2

LEMMA PromotionsStep ==
  ASSUME RunTyped, PromotionsAreKept, RunsGo, PromotionsGo
  PROVE  PromotionsAreKept'
<1> SUFFICES ASSUME NEW i \in DOMAIN run', run'[i].stage = "package", run'[i].job["promote"] = "success"
             PROVE  run'[i].commit \in promoted'
  BY DEF PromotionsAreKept
<1>1. "promote" \in DOMAIN run'[i].job
  BY PackageHas DEF RunsGo, RunTyped, PackageJobs
<1>2. i \in DOMAIN run
  BY <1>1 DEF RunsGo, Begins
<1>3. /\ run[i].stage = "package" /\ run[i].commit = run'[i].commit /\ "promote" \in DOMAIN run[i].job
      /\ Continues(i)
  BY <1>1, <1>2 DEF RunsGo, OldRuns, SameRun, Restarts
<1>4. CASE Waits(i, "promote")
  BY <1>2, <1>3, <1>4 DEF PromotionsGo
<1>5. CASE ~Waits(i, "promote")
  <2>1. run[i].job["promote"] = "success"
    BY <1>3, <1>5 DEF Continues, Settles
  <2> QED
    BY <1>2, <1>3, <2>1 DEF PromotionsAreKept, PromotionsGo
<1> QED
  BY <1>4, <1>5

LEMMA SuccessesStep ==
  ASSUME RunTyped, ReportTyped, SuccessesAreOfRuns, RunsGo, ReportsGo
  PROVE  SuccessesAreOfRuns'
<1> SUFFICES ASSUME NEW i \in DOMAIN report', run'[i].stage = "quality", report'[i] = "success"
             PROVE  Ended(i)' /\ Conclusion(i)' = "success"
  BY DEF SuccessesAreOfRuns
<1>1. i \in DOMAIN run /\ SameRun(run[i], run'[i]) /\ run[i].stage = "quality"
  BY DEF ReportsGo, Reported, ReportTyped, RunsGo, OldRuns, SameRun
<1>2. CASE i \in DOMAIN report /\ report'[i] = report[i]
  <2>1. Ended(i) /\ Conclusion(i) = "success"
    BY <1>1, <1>2 DEF SuccessesAreOfRuns
  <2>2. Continues(i)
    BY <1>1, <2>1 DEF RunsGo, Restarts
  <2> QED
    BY <1>1, <2>1, <2>2, EndedStays
<1>3. CASE Reported(i)
  <2>1. /\ DOMAIN run[i].job = {"validate", "policy", "report"} \cup Checks
        /\ "report" \in Ready(i) /\ StageConclusion(i) = "success" /\ Continues(i)
        /\ run'[i].job["report"] = "success"
    BY <1>1, <1>3, JobsAre DEF Reported
  <2>2. ReportNeeds(i) = DOMAIN run[i].job \ {"report"} /\ Needs(i, "report") = ReportNeeds(i)
    BY <2>1, NeedsAre DEF ReportNeeds, Checks
  <2>3. \A j \in DOMAIN run[i].job \ {"report"} : ~Waits(i, j) /\ run[i].job[j] # "failure" /\ run[i].job[j] # "cancelled"
    BY <2>1, <2>2 DEF Ready, StageConclusion, Worst
  <2>4. \A j \in DOMAIN run[i].job : run'[i].job[j] \notin {"waiting", "failure", "cancelled"}
    BY <2>1, <2>3 DEF Continues, Settles, Waits
  <2> QED
    BY <1>1, <2>4 DEF Ended, Waits, Conclusion, Worst, SameRun
<1> QED
  BY <1>2, <1>3 DEF ReportsGo

LEMMA FollowedStep ==
  ASSUME RunTyped, ToldHaveEnded, SuccessesAreFollowed, RunsGo
  PROVE  SuccessesAreFollowed'
<1> SUFFICES ASSUME NEW i \in DOMAIN run', run'[i].told, run'[i].stage # "package", Conclusion(i)' = "success"
             PROVE  \E k \in DOMAIN run' : Follows(i, k)'
  BY DEF SuccessesAreFollowed
<1>1. i \in DOMAIN run
  BY DEF RunsGo, Begins
<1>2. Continues(i) /\ SameRun(run[i], run'[i]) /\ run[i].stage # "package"
  BY <1>1 DEF RunsGo, Restarts, OldRuns, SameRun
<1>3. Ended(i)
  BY <1>1, <1>2 DEF Continues, ToldHaveEnded
<1>4. Conclusion(i) = "success"
  BY <1>2, <1>3, EndedStays
<1>5. CASE run[i].told
  <2>1. PICK k \in DOMAIN run : Follows(i, k)
    BY <1>1, <1>2, <1>4, <1>5 DEF SuccessesAreFollowed
  <2>2. k \in DOMAIN run' /\ SameRun(run[k], run'[k])
    BY DEF RunsGo, OldRuns
  <2>3. Follows(i, k)'
    BY <1>2, <2>1, <2>2 DEF Follows, SameRun
  <2> QED
    BY <2>2, <2>3
<1>6. CASE ~run[i].told
  <2>1. PICK k \in DOMAIN run' : Following(i, k)
    BY <1>1, <1>2, <1>6 DEF RunsGo
  <2>2. Follows(i, k)'
    BY <1>2, <1>4, <2>1 DEF Follows, Following, SameRun, NextStage
  <2> QED
    BY <2>2
<1> QED
  BY <1>5, <1>6

LEMMA HeadsStep ==
  ASSUME HeadsAreRun, RunsGo, HeadsGo
  PROVE  HeadsAreRun'
<1> SUFFICES ASSUME NEW b \in Deployed, NEW c \in head'[b]
             PROVE  \E k \in DOMAIN run' : run'[k].stage = "access" /\ run'[k].commit = c /\ run'[k].branch = b
  BY DEF HeadsAreRun
<1>1. CASE c \in head[b]
  <2>1. PICK k \in DOMAIN run : run[k].stage = "access" /\ run[k].commit = c /\ run[k].branch = b
    BY <1>1 DEF HeadsAreRun
  <2> QED
    BY <2>1 DEF RunsGo, OldRuns, SameRun
<1>2. CASE c \notin head[b]
  BY <1>2 DEF HeadsGo
<1> QED
  BY <1>1, <1>2

LEMMA RunsAgreeStep ==
  ASSUME RunTyped, \A i \in DOMAIN run : RunAgrees(i), RunsGo
  PROVE  \A i \in DOMAIN run' : RunAgrees(i)'
<1>1. ASSUME NEW i \in DOMAIN run PROVE RunAgrees(i)'
  BY <1>1, AgreesStep DEF RunsGo, OldRuns
<1>2. ASSUME NEW k \in DOMAIN run' \ DOMAIN run PROVE RunAgrees(k)'
  BY <1>2 DEF RunsGo, Begins, RunAgrees, Agrees
<1> QED
  BY <1>1, <1>2

LEMMA HistoryStep ==
  ASSUME RunTyped, ReportTyped, History, RunsGo, PromotionsGo, ReportsGo, HeadsGo
  PROVE  History'
<1>1. \A i \in DOMAIN run' : RunAgrees(i)'
  BY RunsAgreeStep DEF History
<1>2. ToldHaveEnded' /\ VerdictsAreOfChecks'
  BY ToldStep, VerdictsStep DEF History
<1>3. PromotionsAreKept' /\ SuccessesAreOfRuns'
  BY PromotionsStep, SuccessesStep DEF History
<1>4. SuccessesAreFollowed' /\ HeadsAreRun'
  BY FollowedStep, HeadsStep DEF History
<1> QED
  BY <1>1, <1>2, <1>3, <1>4 DEF History

-----------------------------------------------------------------------------
(* The pipeline: what each action does.                                    *)

\* All that a step leaves to be said of the runs and what comes of them.
PipelineGoes == RunsGo /\ PromotionsGo /\ ReportsGo /\ HeadsGo /\ CommitsTyped' /\ ReportTyped'

LEMMA JobsWith ==
  ASSUME RunTyped, NEW i \in DOMAIN run, NEW f \in [DOMAIN run[i].job -> Results]
  PROVE  [run EXCEPT ![i].job = f] = With(i, run[i].told, f)
<1>1. run[i] \in Runs
  BY RunsAre
<1>2. [run[i] EXCEPT !.job = f] = [run[i] EXCEPT !.told = run[i].told, !.job = f]
  BY <1>1 DEF Runs
<1> QED
  BY <1>2 DEF With

LEMMA ReportsRest ==
  ASSUME RunTyped, ReportTyped, RunsGo, UNCHANGED report
  PROVE  ReportsGo /\ ReportTyped'
  BY DEF ReportsGo, ReportTyped, RunsGo, OldRuns

LEMMA PromotionsRest ==
  ASSUME RunTyped, RunsGo, UNCHANGED promoted,
         \A i \in DOMAIN run : run[i].stage = "package" /\ Waits(i, "promote") => run'[i].job["promote"] # "success"
  PROVE  PromotionsGo
  BY DEF PromotionsGo

LEMMA ConclusionTyped == \A i : Conclusion(i) \in Statuses /\ StageConclusion(i) \in Statuses
  BY DEF Conclusion, StageConclusion, Worst, Statuses

\* The results of the jobs of i that were ready, when some turn out bad.
RunResults(i, bad) ==
  [j \in DOMAIN run[i].job |->
     IF j \notin Ready(i) THEN run[i].job[j] ELSE IF j \in bad THEN "failure"
     ELSE IF RunsIf(i, j) THEN "success" ELSE "skipped"]

LEMMA RunJobsIs ==
  ASSUME NEW i \in DOMAIN run, RunTyped, RunJobs(i)
  PROVE  /\ \E bad \in SUBSET (Ready(i) \ {"report"}) :
              /\ run' = [run EXCEPT ![i].job = RunResults(i, bad)]
              /\ promoted' = IF "promote" \in Ready(i) \ bad /\ RunsIf(i, "promote") THEN promoted \cup {run[i].commit} ELSE promoted
         /\ report' = report \/ ("report" \in Ready(i) /\ \E lost \in BOOLEAN : Reports(i, lost))
         /\ UNCHANGED <<commit, head>>
<1> DEFINE ready == Ready(i)
           tried == {j \in ready : RunsIf(i, j)}
           wrong == {j \in tried : Fails(i, j)}
           outage == IF "outage" \in Faults /\ left.fault > 0 THEN tried \ (wrong \cup {"report"}) ELSE {}
<1>1. PICK bad \in {wrong} \cup {wrong \cup {j} : j \in outage} :
        /\ run' = [run EXCEPT ![i].job = [j \in DOMAIN @ |->
             IF j \notin ready THEN @[j] ELSE IF j \in bad THEN "failure"
             ELSE IF j \in tried THEN "success" ELSE "skipped"]]
        /\ promoted' = IF "promote" \in tried \ bad THEN promoted \cup {run[i].commit} ELSE promoted
        /\ \E lost \in {FALSE} \cup IF "lost" \in Faults /\ left.fault > 0 /\ bad = wrong THEN {"report" \in ready} ELSE {} :
             IF "report" \in ready THEN Reports(i, lost) ELSE UNCHANGED report
  BY DEF RunJobs
<1>2. "report" \notin wrong
  BY DEF Fails
<1>3. bad \in SUBSET (Ready(i) \ {"report"})
  BY <1>1, <1>2
<1> DEFINE g == [j \in DOMAIN run[i].job |->
             IF j \notin ready THEN run[i].job[j] ELSE IF j \in bad THEN "failure"
             ELSE IF j \in tried THEN "success" ELSE "skipped"]
<1>4. run' = [run EXCEPT ![i].job = g]
  BY <1>1
<1>5. g = RunResults(i, bad)
  BY DEF RunResults
<1>6. promoted' = IF "promote" \in Ready(i) \ bad /\ RunsIf(i, "promote") THEN promoted \cup {run[i].commit} ELSE promoted
  BY <1>1
<1>7. report' = report \/ ("report" \in Ready(i) /\ \E lost \in BOOLEAN : Reports(i, lost))
  BY <1>1
<1>8. UNCHANGED <<commit, head>>
  BY DEF RunJobs
<1> HIDE DEF g, ready, tried, wrong, outage
<1> QED
  BY <1>3, <1>4, <1>5, <1>6, <1>7, <1>8

LEMMA RunJobsGoes ==
  ASSUME NEW i \in DOMAIN run, RunTyped, CommitsTyped, ReportTyped, RunJobs(i)
  PROVE  PipelineGoes
<1>1. PICK bad \in SUBSET (Ready(i) \ {"report"}) :
        /\ run' = [run EXCEPT ![i].job = RunResults(i, bad)]
        /\ promoted' = IF "promote" \in Ready(i) \ bad /\ RunsIf(i, "promote") THEN promoted \cup {run[i].commit} ELSE promoted
  BY RunJobsIs
<1>2. run[i] \in Runs /\ \A j \in DOMAIN run[i].job : run[i].job[j] \in Results
  BY RunsAre, JobsAre
<1>3. RunResults(i, bad) \in [DOMAIN run[i].job -> Results]
  BY <1>2 DEF RunResults, Results
<1>4. run' = With(i, run[i].told, RunResults(i, bad))
  BY <1>1, <1>3, JobsWith
<1>5. run[i].told \in BOOLEAN /\ run[i].commit \in Commits
  BY <1>2 DEF Runs
<1>6. Changed(run', i, run[i].told, RunResults(i, bad))
  BY <1>3, <1>4, <1>5, ChangeIs
<1>7. /\ run'[i].told = run[i].told /\ DOMAIN run' = DOMAIN run
      /\ \A j \in DOMAIN run[i].job :
           run'[i].job[j] = IF j \notin Ready(i) THEN run[i].job[j] ELSE IF j \in bad THEN "failure"
                            ELSE IF RunsIf(i, j) THEN "success" ELSE "skipped"
      /\ \A k \in DOMAIN run \ {i} : run'[k] = run[k]
  BY <1>6 DEF Changed, RunResults
<1>8. Ready(i) \subseteq DOMAIN run[i].job /\ \A j \in Ready(i) : Waits(i, j)
  BY DEF Ready
<1>9. Continues(i)
  <2>1. ASSUME NEW j \in DOMAIN run[i].job PROVE Settles(i, j)
    BY <1>7, <1>8 DEF Settles, Waits
  <2> QED
    BY <1>7, <2>1 DEF Continues
<1>10. RunsGo
  BY <1>3, <1>4, <1>5, <1>9, OneRunGoes
<1>11. PromotionsGo
  <2>1. ASSUME NEW k \in DOMAIN run, run[k].stage = "package", Waits(k, "promote"), run'[k].job["promote"] = "success"
        PROVE  run[k].commit \in promoted'
    <3>1. k = i /\ "promote" \in DOMAIN run[i].job
      BY <1>7, <2>1, JobsAre DEF Waits, PackageJobs
    <3> QED
      BY <1>1, <1>7, <2>1, <3>1 DEF Waits
  <2>2. promoted \subseteq promoted'
    BY <1>1
  <2> QED
    BY <2>1, <2>2 DEF PromotionsGo
<1>12. UNCHANGED <<commit, head>> /\ CommitsTyped'
  BY <1>1, <1>5, RunJobsIs DEF CommitsTyped
<1>13. HeadsGo
  BY <1>12 DEF HeadsGo
<1>14. CASE report' = report
  BY <1>10, <1>11, <1>12, <1>13, <1>14, ReportsRest DEF PipelineGoes
<1>15. CASE report' # report
  <2>1. "report" \in Ready(i) /\ \E lost \in BOOLEAN : Reports(i, lost)
    BY <1>15, RunJobsIs
  <2>2. report' = [k \in DOMAIN report \cup {i} |-> IF k = i THEN StageConclusion(i) ELSE report[k]]
    BY <1>15, <2>1 DEF Reports
  <2>3. "report" \in DOMAIN run[i].job /\ run'[i].job["report"] = "success"
    BY <1>1, <1>7, <1>8, <2>1, RunsIfIs
  <2>4. Reported(i)
    BY <1>9, <2>1, <2>2, <2>3 DEF Reported
  <2>5. ReportsGo
    BY <2>2, <2>4 DEF ReportsGo
  <2>6. ReportTyped'
    BY <1>7, <2>2, ConclusionTyped DEF ReportTyped
  <2> QED
    BY <1>10, <1>11, <1>12, <1>13, <2>5, <2>6 DEF PipelineGoes
<1> QED
  BY <1>14, <1>15

\* A run that is about to begin.
NewRun(stage, c, b, event, verdict, checked, over) ==
  [stage |-> stage, commit |-> c, branch |-> b, event |-> event, verdict |-> verdict,
   checked |-> checked, passedOver |-> over, told |-> FALSE,
   job |-> [j \in JobsOf(stage, file.targets) |-> "waiting"]]

Beginning(r, stage, c, b, event, verdict, checked, over) ==
  /\ r \in Runs /\ OfStage(r) /\ r.stage = stage /\ r.commit = c /\ r.branch = b /\ r.event = event
  /\ r.verdict = verdict /\ r.checked = checked /\ r.passedOver = over
  /\ ~r.told /\ \A j \in DOMAIN r.job : r.job[j] = "waiting"

LEMMA NewRunTyped ==
  ASSUME FileTyped, NEW stage \in Stages, NEW c \in Commits, NEW b \in Branches, NEW event \in Events,
         NEW verdict \in Statuses, NEW checked \in BOOLEAN, NEW over \in BOOLEAN
  PROVE  Beginning(NewRun(stage, c, b, event, verdict, checked, over), stage, c, b, event, verdict, checked, over)
<1> DEFINE f == [j \in JobsOf(stage, file.targets) |-> "waiting"]
           r == NewRun(stage, c, b, event, verdict, checked, over)
<1>1. file.targets \in TargetSets
  BY DEF FileTyped
<1>2. f \in [JobsOf(stage, file.targets) -> Results] /\ \A j \in DOMAIN f : f[j] = "waiting"
  BY DEF Results
<1>3. f \in AnyJobs
  BY <1>1, <1>2, JobsOfStage
<1>4. r = [stage |-> stage, commit |-> c, branch |-> b, event |-> event, verdict |-> verdict,
           checked |-> checked, passedOver |-> over, told |-> FALSE, job |-> f]
  BY DEF NewRun
<1> HIDE DEF f, r
<1>5. r \in Runs
  BY <1>3, <1>4 DEF Runs
<1>6. OfStage(r)
  BY <1>1, <1>2, <1>4 DEF OfStage
<1>7. Beginning(r, stage, c, b, event, verdict, checked, over)
  BY <1>2, <1>4, <1>5, <1>6 DEF Beginning
<1> QED
  BY <1>7 DEF r

LEMMA StartedGoes ==
  ASSUME RunTyped, NEW r \in Runs, OfStage(r), run' = Append(run, r),
         ~r.told, \A j \in DOMAIN r.job : r.job[j] = "waiting",
         r.event # "after" /\ r.verdict = "success" /\ (r.event # "dispatch" => r.stage = "access")
  PROVE  /\ RunsGo /\ Len(run) + 1 \in DOMAIN run' /\ run'[Len(run) + 1] = r
         /\ \A i \in DOMAIN run : run'[i] = run[i]
<1>1. run \in Seq(Runs)
  BY DEF RunTyped
<1>2. /\ Len(run) + 1 \in Nat /\ DOMAIN run = 1..Len(run) /\ Len(run) \in Nat
      /\ run' \in Seq(Runs) /\ DOMAIN run' = DOMAIN run \cup {Len(run) + 1}
      /\ run'[Len(run) + 1] = r /\ \A k \in DOMAIN run : run'[k] = run[k]
  BY <1>1, AppendIs, RunsAre
<1>3. RunTyped'
  BY <1>2 DEF RunTyped
<1>4. OldRuns /\ \A i \in DOMAIN run : Continues(i)
  BY <1>2, SameContinues DEF OldRuns
<1>5. Begins(Len(run) + 1)
  BY <1>2 DEF Begins, Asked
<1> QED
  BY <1>2, <1>3, <1>4, <1>5 DEF RunsGo

LEMMA RestOf ==
  ASSUME RunTyped, ReportTyped, RunsGo, HeadsGo, CommitsTyped', UNCHANGED <<promoted, report>>,
         \A i \in DOMAIN run : run[i].stage = "package" /\ Waits(i, "promote") => run'[i].job["promote"] # "success"
  PROVE  PipelineGoes
  BY ReportsRest, PromotionsRest DEF PipelineGoes

LEMMA PushGoes ==
  ASSUME RunTyped, CommitsTyped, FileTyped, ReportTyped, NEW c \in Commits, Push(c)
  PROVE  PipelineGoes
<1>1. PICK b \in Branches, flaw \in Flaws :
        /\ commit' = [commit EXCEPT ![c] = [there |-> TRUE, flaw |-> flaw]]
        /\ head' = IF b \in Deployed THEN [head EXCEPT ![b] = {c}] ELSE head
        /\ Started("access", c, b, IF b = "feature" THEN "pull_request" ELSE "push", "success", FALSE, FALSE)
  BY DEF Push
<1> DEFINE event == IF b = "feature" THEN "pull_request" ELSE "push"
<1>2. PICK r : r = NewRun("access", c, b, event, "success", FALSE, FALSE)
  OBVIOUS
<1>3. event \in Events /\ event # "after" /\ "access" \in Stages /\ "success" \in Statuses
  BY DEF Events, Stages, Statuses
<1>4. run' = Append(run, r)
  BY <1>1, <1>2 DEF Started, NewRun
<1> HIDE DEF event
<1>b. Beginning(r, "access", c, b, event, "success", FALSE, FALSE)
  <2>1. FALSE \in BOOLEAN
    OBVIOUS
  <2>2. Beginning(NewRun("access", c, b, event, "success", FALSE, FALSE), "access", c, b, event, "success", FALSE, FALSE)
    BY <1>3, <2>1, NewRunTyped
  <2> QED
    BY <1>2, <2>2
<1>5. /\ r \in Runs /\ OfStage(r) /\ r.stage = "access" /\ r.commit = c /\ r.branch = b /\ r.event = event
      /\ r.verdict = "success" /\ ~r.told /\ \A j \in DOMAIN r.job : r.job[j] = "waiting"
  BY <1>b DEF Beginning
<1>6. /\ RunsGo /\ Len(run) + 1 \in DOMAIN run' /\ run'[Len(run) + 1] = r
      /\ \A i \in DOMAIN run : run'[i] = run[i]
  BY <1>3, <1>4, <1>5, StartedGoes
<1>7. UNCHANGED <<promoted, report>>
  BY DEF Push
<1>8. CommitsTyped'
  <2>1. [there |-> TRUE, flaw |-> flaw] \in [there : BOOLEAN, flaw : Flaws]
    OBVIOUS
  <2> QED
    BY <1>1, <1>7, <2>1 DEF CommitsTyped
<1>9. HeadsGo
  BY <1>1, <1>5, <1>6 DEF HeadsGo, CommitsTyped
<1> QED
  BY <1>6, <1>7, <1>8, <1>9, RestOf DEF Waits

LEMMA DispatchGoes ==
  ASSUME RunTyped, CommitsTyped, FileTyped, ReportTyped, NEW stage \in Stages, NEW b \in Deployed, WorkflowDispatch(stage, b)
  PROVE  PipelineGoes
<1>1. PICK c \in head[b] : Started(stage, c, b, "dispatch", "success", FALSE, FALSE)
  BY DEF WorkflowDispatch
<1>2. PICK r : r = NewRun(stage, c, b, "dispatch", "success", FALSE, FALSE)
  OBVIOUS
<1>3. "dispatch" \in Events /\ b \in Branches /\ "success" \in Statuses /\ c \in Commits
  BY DEF Events, Branches, Deployed, Statuses, CommitsTyped
<1>4. run' = Append(run, r)
  BY <1>1, <1>2 DEF Started, NewRun
<1>b. Beginning(r, stage, c, b, "dispatch", "success", FALSE, FALSE)
  <2>1. FALSE \in BOOLEAN
    OBVIOUS
  <2>2. Beginning(NewRun(stage, c, b, "dispatch", "success", FALSE, FALSE), stage, c, b, "dispatch", "success", FALSE, FALSE)
    BY <1>3, <2>1, NewRunTyped
  <2> QED
    BY <1>2, <2>2
<1>5. /\ r \in Runs /\ OfStage(r) /\ r.event = "dispatch"
      /\ r.verdict = "success" /\ ~r.told /\ \A j \in DOMAIN r.job : r.job[j] = "waiting"
  BY <1>b DEF Beginning
<1>6. RunsGo /\ \A i \in DOMAIN run : run'[i] = run[i]
  BY <1>4, <1>5, StartedGoes
<1>7. UNCHANGED <<commit, head, promoted, report>>
  BY DEF WorkflowDispatch
<1>8. CommitsTyped' /\ HeadsGo
  BY <1>7 DEF CommitsTyped, HeadsGo
<1> QED
  BY <1>6, <1>7, <1>8, RestOf DEF Waits

LEMMA RerunGoes ==
  ASSUME RunTyped, CommitsTyped, ReportTyped, NEW i \in DOMAIN run, Rerun(i)
  PROVE  PipelineGoes
<1> DEFINE f == [j \in DOMAIN run[i].job |-> "waiting"]
<1>1. f \in [DOMAIN run[i].job -> Results] /\ FALSE \in BOOLEAN
  BY DEF Results
<1>2. run[i] \in Runs
  BY RunsAre
<1>3. run' = With(i, FALSE, f)
  <2>1. run' = [[run EXCEPT ![i].told = FALSE] EXCEPT ![i].job = [j \in DOMAIN @ |-> "waiting"]]
    BY DEF Rerun
  <2>2. [run EXCEPT ![i].told = FALSE][i].job = run[i].job
    BY <1>2 DEF Runs
  <2> QED
    BY <1>2, <2>1, <2>2 DEF With, Runs
<1>4. Changed(run', i, FALSE, f)
  BY <1>1, <1>3, ChangeIs
<1>5. /\ run'[i].told = FALSE /\ \A j \in DOMAIN run[i].job : run'[i].job[j] = "waiting"
      /\ \A k \in DOMAIN run \ {i} : run'[k] = run[k]
  BY <1>4 DEF Changed
<1> HIDE DEF f
<1>6. Restarts(i)
  BY <1>5 DEF Restarts, Rerun
<1>7. RunsGo
  BY <1>1, <1>3, <1>6, OneRunGoes
<1>8. UNCHANGED <<commit, head, promoted, report>>
  BY DEF Rerun
<1>9. CommitsTyped' /\ HeadsGo
  BY <1>8 DEF CommitsTyped, HeadsGo
<1>10. \A k \in DOMAIN run : run[k].stage = "package" /\ Waits(k, "promote") => run'[k].job["promote"] # "success"
  BY <1>5, JobsAre DEF Waits, PackageJobs
<1> QED
  BY <1>7, <1>8, <1>9, <1>10, RestOf

LEMMA CancelGoes ==
  ASSUME RunTyped, CommitsTyped, ReportTyped, NEW i \in DOMAIN run, Cancel(i)
  PROVE  PipelineGoes
<1> DEFINE f == [j \in DOMAIN run[i].job |->
                   IF run[i].job[j] = "waiting" /\ j # "report" THEN "cancelled" ELSE run[i].job[j]]
<1>1. run[i] \in Runs /\ \A j \in DOMAIN run[i].job : run[i].job[j] \in Results
  BY RunsAre, JobsAre
<1>2. f \in [DOMAIN run[i].job -> Results] /\ run[i].told \in BOOLEAN
  BY <1>1 DEF Results, Runs
<1>3. run' = [run EXCEPT ![i].job = f]
  BY DEF Cancel
<1>4. \A j \in DOMAIN run[i].job :
        f[j] = IF run[i].job[j] = "waiting" /\ j # "report" THEN "cancelled" ELSE run[i].job[j]
  OBVIOUS
<1> HIDE DEF f
<1>5. run' = With(i, run[i].told, f)
  BY <1>2, <1>3, JobsWith
<1>6. Changed(run', i, run[i].told, f)
  BY <1>2, <1>5, ChangeIs
<1>7. /\ run'[i].told = run[i].told /\ run'[i].job = f /\ \A k \in DOMAIN run \ {i} : run'[k] = run[k]
  BY <1>6 DEF Changed
<1>8. Continues(i)
  BY <1>4, <1>7 DEF Continues, Settles, Waits
<1>9. RunsGo
  BY <1>2, <1>5, <1>8, OneRunGoes
<1>10. UNCHANGED <<commit, head, promoted, report>>
  BY DEF Cancel
<1>11. CommitsTyped' /\ HeadsGo
  BY <1>10 DEF CommitsTyped, HeadsGo
<1>12. \A k \in DOMAIN run : run[k].stage = "package" /\ Waits(k, "promote") => run'[k].job["promote"] # "success"
  BY <1>4, <1>7, JobsAre DEF Waits, PackageJobs
<1> QED
  BY <1>9, <1>10, <1>11, <1>12, RestOf

LEMMA CompletedGoes ==
  ASSUME RunTyped, CommitsTyped, FileTyped, ReportTyped, NEW i \in DOMAIN run, Completed(i)
  PROVE  PipelineGoes
<1>1. /\ run[i] \in Runs /\ run[i].job \in [DOMAIN run[i].job -> Results] /\ TRUE \in BOOLEAN
      /\ Ended(i) /\ ~run[i].told
  BY RunsAre DEF Completed, OfStage
<1> DEFINE told == [run EXCEPT ![i].told = TRUE]
<1>2. told = With(i, TRUE, run[i].job)
  <2>1. [run[i] EXCEPT !.told = TRUE] = [run[i] EXCEPT !.told = TRUE, !.job = run[i].job]
    BY <1>1 DEF Runs
  <2> QED
    BY <2>1 DEF With
<1>3. Changed(told, i, TRUE, run[i].job)
  BY <1>1, <1>2, ChangeIs
<1>4. /\ told \in Seq(Runs) /\ DOMAIN told = DOMAIN run
      /\ told[i].told = TRUE /\ told[i].job = run[i].job /\ \A k \in DOMAIN run \ {i} : told[k] = run[k]
      /\ \A k \in DOMAIN run : OfStage(told[k]) /\ SameRun(run[k], told[k])
  BY <1>3 DEF Changed
<1>5. UNCHANGED <<commit, head, promoted, report>>
  BY DEF Completed
<1>6. CommitsTyped' /\ HeadsGo
  BY <1>5 DEF CommitsTyped, HeadsGo
<1>7. CASE run[i].stage = "package"
  <2>1. run' = told
    BY <1>7 DEF Completed
  <2> HIDE DEF told
  <2>2. Continues(i)
    BY <1>1, <1>4, <2>1 DEF Continues, Settles, Waits
  <2>3. RunsGo
    BY <1>1, <1>2, <1>7, <2>1, <2>2, OneRunGoes
  <2>4. \A k \in DOMAIN run : run[k].stage = "package" /\ Waits(k, "promote") => run'[k].job["promote"] # "success"
    BY <1>4, <2>1 DEF Waits
  <2> QED
    BY <1>5, <1>6, <2>3, <2>4, RestOf
<1>8. CASE run[i].stage # "package"
  <2> DEFINE next == IF run[i].stage = "access" THEN "quality" ELSE "package"
             checked == run[i].stage = "quality" /\ CheckedAll(i)
             over == run[i].stage = "quality" /\ ~ValidateIf(i)
  <2>1. PICK r : r = NewRun(next, run[i].commit, run[i].branch, "after", Conclusion(i), checked, over)
    OBVIOUS
  <2>2. run' = Append(told, r)
    <3>1. run' = Append(told, [stage |-> next, commit |-> run[i].commit, branch |-> run[i].branch,
                       event |-> "after", verdict |-> Conclusion(i), told |-> FALSE,
                       checked |-> checked, passedOver |-> over,
                       job |-> [j \in JobsOf(next, file.targets) |-> "waiting"]])
      BY <1>8 DEF Completed
    <3> HIDE DEF told, next, checked, over
    <3> QED
      BY <2>1, <3>1 DEF NewRun
  <2>3. checked \in BOOLEAN /\ over \in BOOLEAN /\ next \in Stages
    BY DEF CheckedAll, ValidateIf, Stages
  <2>4. run[i].commit \in Commits /\ run[i].branch \in Branches /\ "after" \in Events /\ Conclusion(i) \in Statuses
    BY <1>1, ConclusionTyped DEF Runs, Events
  <2>5. /\ next = (IF run[i].stage = "access" THEN "quality" ELSE "package")
        /\ checked = (run[i].stage = "quality" /\ CheckedAll(i))
        /\ over = (run[i].stage = "quality" /\ ~ValidateIf(i))
    OBVIOUS
  <2> HIDE DEF told, next, checked, over
  <2>6. Beginning(r, next, run[i].commit, run[i].branch, "after", Conclusion(i), checked, over)
    BY <2>1, <2>3, <2>4, NewRunTyped
  <2>7. /\ r \in Runs /\ OfStage(r) /\ r.stage = next /\ r.commit = run[i].commit /\ r.branch = run[i].branch
        /\ r.event = "after" /\ r.verdict = Conclusion(i) /\ r.checked = checked /\ r.passedOver = over
        /\ ~r.told /\ \A j \in DOMAIN r.job : r.job[j] = "waiting"
    BY <2>6 DEF Beginning
  <2>k. PICK k \in Nat : k = Len(told) + 1
    BY <1>4
  <2>8. /\ run' \in Seq(Runs) /\ DOMAIN run' = DOMAIN run \cup {k} /\ k \notin DOMAIN run
        /\ run'[k] = r /\ \A n \in DOMAIN run : run'[n] = told[n]
    <3>1. Len(told) + 1 \notin 1..Len(told)
      BY <1>4
    <3> QED
      BY <1>4, <2>2, <2>7, <2>k, <3>1, AppendIs
  <2>9. RunTyped' /\ OldRuns
    BY <1>4, <2>7, <2>8 DEF RunTyped, OldRuns
  <2>10. \A n \in DOMAIN run : Continues(n)
    <3>1. Continues(i)
      BY <1>1, <1>4, <2>8 DEF Continues, Settles, Waits
    <3> QED
      BY <1>4, <2>8, <3>1, SameContinues
  <2>11. Following(i, k)
    BY <1>1, <1>4, <1>8, <2>5, <2>7, <2>8 DEF Following
  <2>12. Begins(k)
    BY <2>7, <2>8, <2>11 DEF Begins
  <2>13. \A n \in DOMAIN run : run'[n].told /\ ~run[n].told => n = i
    BY <1>4, <2>8
  <2>14. RunsGo
    BY <2>8, <2>9, <2>10, <2>11, <2>12, <2>13 DEF RunsGo
  <2>15. \A n \in DOMAIN run : run[n].stage = "package" /\ Waits(n, "promote") => run'[n].job["promote"] # "success"
    BY <1>4, <2>8 DEF Waits
  <2> QED
    BY <1>5, <1>6, <2>14, <2>15, RestOf
<1> QED
  BY <1>7, <1>8

LEMMA PipelineInvStep ==
  ASSUME PipelineInv, [Next]_vars
  PROVE  PipelineInv'
<1>0. RunTyped /\ CommitsTyped /\ FileTyped /\ ReportTyped /\ History
  BY DEF PipelineInv, PipelineTyped
<1>1. PipelineGoes
  <2>1. CASE RunAlone
    BY <1>0, <2>1, RunJobsGoes, CompletedGoes, RerunGoes, CancelGoes, PushGoes, DispatchGoes DEF RunAlone
  <2>2. CASE UNCHANGED github
    <3>1. UNCHANGED <<commit, head, run, promoted, report>>
      BY <2>2 DEF github
    <3>2. RunsGo
      BY <1>0, <3>1, RunsRest
    <3>3. CommitsTyped' /\ HeadsGo
      BY <1>0, <3>1 DEF CommitsTyped, HeadsGo
    <3> QED
      BY <1>0, <3>1, <3>2, <3>3, RestOf DEF Waits
  <2> QED
    BY <2>1, <2>2, StepsAre DEF DriftStepped, vars, github
<1>2. FileTyped'
  <2>1. (UNCHANGED file) => FileTyped'
    BY <1>0 DEF FileTyped
  <2>2. SetupPushesFiles \/ (\E u \in DOMAIN update : WorkflowUpdated(u)) => FileTyped'
    <3>1. Targets \in TargetSets /\ PreviewedTargets \in TargetSets
      BY DEF TargetSets
    <3>2. SetupPushesFiles => file' = [there |-> TRUE, targets |-> Targets]
      BY DEF SetupPushesFiles
    <3>3. (\E u \in DOMAIN update : WorkflowUpdated(u)) => file' = [there |-> TRUE, targets |-> PreviewedTargets]
      BY DEF WorkflowUpdated
    <3>4. \A targets \in TargetSets : [there |-> TRUE, targets |-> targets] \in [there : BOOLEAN, targets : TargetSets]
      OBVIOUS
    <3> QED
      BY <3>1, <3>2, <3>3, <3>4 DEF FileTyped
  <2> QED
    BY <2>1, <2>2, StepsAre DEF Setup, SetupIssuesToken, SetupSetsSecret, DriftStepped, vars
<1>3. History'
  BY <1>0, <1>1, HistoryStep DEF PipelineGoes
<1> QED
  BY <1>1, <1>2, <1>3 DEF PipelineInv, PipelineTyped, PipelineGoes, RunsGo

LEMMA PipelineInvInit == Init => PipelineInv
<1> SUFFICES ASSUME Init PROVE PipelineInv
  OBVIOUS
<1>1. /\ commit = [c \in Commits |-> [there |-> FALSE, flaw |-> "none"]] /\ head = [b \in Deployed |-> {}]
      /\ file = [there |-> FALSE, targets |-> {}] /\ run = <<>> /\ promoted = {} /\ report = <<>>
  BY DEF Init
<1>2. DOMAIN run = {} /\ DOMAIN report = {} /\ run \in Seq(Runs)
  BY <1>1
<1>3. RunTyped /\ ReportTyped
  BY <1>2 DEF RunTyped, ReportTyped
<1>4. CommitsTyped
  BY <1>1 DEF CommitsTyped, Flaws
<1>5. FileTyped
  BY <1>1 DEF FileTyped, TargetSets, PreviewedTargets
<1>6. History
  BY <1>1, <1>2 DEF History, ToldHaveEnded, VerdictsAreOfChecks, PromotionsAreKept, SuccessesAreOfRuns,
                    SuccessesAreFollowed, HeadsAreRun
<1> QED
  BY <1>3, <1>4, <1>5, <1>6 DEF PipelineInv, PipelineTyped

LEMMA PipelineInvHolds == Spec => []PipelineInv
<1>1. PipelineInv /\ [Next]_vars => PipelineInv'
  BY PipelineInvStep
<1> QED
  BY <1>1, PipelineInvInit, PTL DEF Spec

-----------------------------------------------------------------------------
(* The pipeline: the report that comes first.                              *)

LEMMA MaxExists ==
  ASSUME NEW n \in Nat, NEW S \in SUBSET (1..n), S # {}
  PROVE  \E m \in S : \A k \in S : k <= m
<1> DEFINE Above(i) == {k \in S : i <= k}
           all == {Above(i) : i \in S}
<1>1. IsFiniteSet(1..n)
  BY FS_Interval
<1>2. FiniteSubsetsOf(1..n) = SUBSET (1..n)
  BY <1>1, FS_FiniteSubsetsOfFinite
<1>3. all \subseteq FiniteSubsetsOf(1..n) /\ all # {}
  <2>1. \A i \in S : Above(i) \in SUBSET (1..n)
    OBVIOUS
  <2>2. PICK i \in S : TRUE
    OBVIOUS
  <2> HIDE DEF Above
  <2>3. all \subseteq SUBSET (1..n) /\ Above(i) \in all
    BY <2>1
  <2> QED
    BY <1>2, <2>3
<1>4. IsWellFoundedOn(StrictSubsetOrdering(1..n), FiniteSubsetsOf(1..n))
  BY FS_StrictSubsetOrderingWellFounded
<1>5. PICK least \in all : \A other \in all : ~ (<<other, least>> \in StrictSubsetOrdering(1..n))
  <2> HIDE DEF all
  <2> QED
    BY <1>3, <1>4, WFMin
<1>6. PICK m \in S : least = Above(m)
  OBVIOUS
<1>7. ASSUME NEW k \in S, ~(k <= m) PROVE FALSE
  <2>1. k \in Nat /\ m \in Nat /\ \A i \in S : i \in Nat
    OBVIOUS
  <2>2. Above(k) \subseteq Above(m) /\ m \in Above(m) /\ m \notin Above(k)
    <3>1. \A i \in S : k <= i => m <= i
      BY <1>7, <2>1
    <3>2. m <= m
      BY <2>1
    <3> QED
      BY <1>7, <2>1, <3>1, <3>2
  <2>3. Above(k) \subseteq 1..n /\ Above(m) \subseteq 1..n /\ Above(k) \in all
    OBVIOUS
  <2> HIDE DEF Above, all
  <2>4. <<Above(k), least>> \in StrictSubsetOrdering(1..n)
    BY <1>6, <2>2, <2>3 DEF StrictSubsetOrdering
  <2> QED
    BY <1>5, <2>3, <2>4
<1> QED
  BY <1>7

LEMMA FirstExists ==
  ASSUME NEW n \in Nat, NEW S \in SUBSET (1..n), S # {}
  PROVE  \E m \in S : \A k \in S : First(m, k)
<1> DEFINE older == {i \in S : i < Rollover}
<1>0. Rollover \in Nat /\ \A i \in S : i \in Nat
  BY DeliveryAssumption DEF DeliveryAssumption
<1>1. CASE older # {}
  <2>1. PICK m \in older : \A k \in older : k <= m
    BY <1>1, MaxExists
  <2>2. ASSUME NEW k \in S PROVE First(m, k)
    BY <1>0, <2>1 DEF First
  <2> QED
    BY <2>1, <2>2
<1>2. CASE older = {}
  <2>1. PICK m \in S : \A k \in S : k <= m
    BY MaxExists
  <2>2. ASSUME NEW k \in S PROVE First(m, k)
    BY <1>0, <1>2, <2>1 DEF First
  <2> QED
    BY <2>2
<1> QED
  BY <1>1, <1>2

LEMMA StageRunIs ==
  ASSUME RunTyped, ReportTyped, NEW c, NEW stage, Shown(c, stage) # {}
  PROVE  StageRun(c, stage) \in Shown(c, stage) /\ \A k \in Shown(c, stage) : First(StageRun(c, stage), k)
<1>1. Shown(c, stage) \in SUBSET (1..Len(run)) /\ Len(run) \in Nat
  BY RunsAre DEF Shown, ReportTyped
<1>2. \E m \in Shown(c, stage) : \A k \in Shown(c, stage) : First(m, k)
  BY <1>1, FirstExists
<1> QED
  BY <1>2 DEF StageRun

LEMMA NewestIsShown ==
  ASSUME RunTyped, ReportTyped
  PROVE  ShownIsNewest
<1> SUFFICES ASSUME NEW c \in Commits, NEW stage \in Stages, Shown(c, stage) # {}, NEW i \in Shown(c, stage)
             PROVE  i <= StageRun(c, stage) \/ (StageRun(c, stage) < Rollover /\ Rollover <= i)
  BY DEF ShownIsNewest
<1>1. StageRun(c, stage) \in Shown(c, stage) /\ First(StageRun(c, stage), i)
  BY StageRunIs
<1>2. Shown(c, stage) \subseteq Nat /\ Rollover \in Nat
  BY RunsAre, DeliveryAssumption DEF Shown, ReportTyped, DeliveryAssumption
<1> QED
  BY <1>1, <1>2 DEF First

LEMMA SuccessesAreEarned ==
  ASSUME PipelineInv
  PROVE  SuccessIsEarned
<1>0. RunTyped /\ ReportTyped /\ SuccessesAreOfRuns /\ \A i \in DOMAIN run : RunAgrees(i)
  BY DEF PipelineInv, PipelineTyped, History
<1> SUFFICES ASSUME NEW c \in Commits, OverallStatus(c) = "success"
             PROVE  \E i \in DOMAIN run : run[i].commit = c /\ run[i].stage = "quality" /\ (CheckedAll(i) \/ ~ValidateIf(i))
  BY DEF SuccessIsEarned
<1>1. \A stage \in Stages : Shown(c, stage) # {}
  BY DEF OverallStatus
<1> DEFINE shown == {report[StageRun(c, stage)] : stage \in Stages}
<1>2. shown = {"success"}
  BY <1>1 DEF OverallStatus
<1>3. "quality" \in Stages /\ report[StageRun(c, "quality")] = "success"
  BY <1>2 DEF Stages
<1>4. PICK i \in Shown(c, "quality") : report[i] = "success"
  BY <1>0, <1>1, <1>3, StageRunIs
<1>5. i \in DOMAIN run /\ i \in DOMAIN report /\ run[i].commit = c /\ run[i].stage = "quality"
  BY <1>0 DEF Shown, ReportTyped
<1>6. Ended(i) /\ Conclusion(i) = "success"
  BY <1>0, <1>4, <1>5 DEF SuccessesAreOfRuns
<1>7. CheckedAll(i) \/ ~ValidateIf(i)
  BY <1>0, <1>5, <1>6, ChecksHavePassed
<1> QED
  BY <1>5, <1>7

LEMMA TypesHold ==
  ASSUME PipelineTyped, PlatformInv
  PROVE  TypeOK
<1>1. DriftTypeOK /\ secret \in 0..issued
      /\ setup \in [next : {"token", "secret", "files", "done"}, token : 0..issued]
  BY DriftTypesHold DEF PlatformInv, DriftInv, SetupTyped
<1>2. file \in [there : BOOLEAN, targets : SUBSET Targets]
  BY TargetSetsAre DEF PipelineTyped, FileTyped
<1>3. ASSUME NEW i \in DOMAIN run
      PROVE  /\ run[i].stage \in Stages /\ run[i].commit \in Commits /\ run[i].branch \in Branches
             /\ \E targets \in {Targets, PreviewedTargets} : run[i].job \in [JobsOf(run[i].stage, targets) -> Results]
  BY RunsAre DEF PipelineTyped, Runs, OfStage, TargetSets
<1> QED
  BY <1>1, <1>2, <1>3 DEF PipelineTyped, CommitsTyped, ReportTyped, TypeOK

LEMMA CleanCommitsArePromoted ==
  ASSUME PipelineInv
  PROVE  CleanIsPromoted
<1>0. RunTyped /\ ToldHaveEnded /\ PromotionsAreKept /\ SuccessesAreFollowed /\ HeadsAreRun
      /\ \A i \in DOMAIN run : RunAgrees(i)
  BY DEF PipelineInv, PipelineTyped, History
<1> SUFFICES ASSUME NEW c \in Commits, head["uat"] = {c}, Unfinished = {},
                    \A i \in DOMAIN run : run[i].commit = c => Conclusion(i) = "success"
             PROVE  c \in promoted
  BY DEF CleanIsPromoted
<1>1. \A i \in DOMAIN run : run[i].told /\ Ended(i)
  BY <1>0 DEF Unfinished, ToldHaveEnded
<1>2. PICK i \in DOMAIN run : run[i].stage = "access" /\ run[i].commit = c /\ run[i].branch = "uat"
  BY <1>0 DEF HeadsAreRun, Deployed
<1>3. PICK k \in DOMAIN run : Follows(i, k)
  BY <1>0, <1>1, <1>2 DEF SuccessesAreFollowed
<1>4. run[k].stage = "quality" /\ run[k].commit = c /\ run[k].branch = "uat"
  BY <1>2, <1>3 DEF Follows, NextStage
<1>5. PICK m \in DOMAIN run : Follows(k, m)
  BY <1>0, <1>1, <1>4 DEF SuccessesAreFollowed
<1>6. run[m].stage = "package" /\ run[m].commit = c /\ run[m].branch = "uat" /\ run[m].verdict = "success"
  BY <1>4, <1>5 DEF Follows, NextStage
<1>7. ValidateIf(m) /\ Ended(m) /\ Conclusion(m) = "success"
  BY <1>1, <1>6 DEF ValidateIf
<1>8. run[m].job["promote"] = "success"
  BY <1>0, <1>6, <1>7, GoodPackageIsPromoted
<1> QED
  BY <1>0, <1>6, <1>8 DEF PromotionsAreKept

-----------------------------------------------------------------------------
(* The pipeline: what is deployed, and the theorems.                       *)

LEMMA RanWhenAllowed ==
  ASSUME NEW i, NEW j \in DOMAIN run[i].job, RunAgrees(i), run[i].job[j] = "success", j # "promote"
  PROVE  RunsIf(i, j)
  BY DEF RunAgrees, Agrees, Allowed

\* A deployment that may run follows the build of its run, and its gate when it is of production.
LEMMA DeploymentFollows ==
  ASSUME RunTyped, NEW i \in DOMAIN run, RunAgrees(i), run[i].stage = "package",
         NEW j \in DOMAIN run[i].job, j \in UatJobs \cup MainJobs, RunsIf(i, j)
  PROVE  run[i].job["build"] = "success" /\ (j \in MainJobs => run[i].job["gate"] = "success")
<1>1. PackageJobs \subseteq DOMAIN run[i].job
  BY JobsAre
<1>2. ("docker-uat" \in DOMAIN run[i].job <=> "render-uat" \in DOMAIN run[i].job)
      /\ ("docker-main" \in DOMAIN run[i].job <=> "render-main" \in DOMAIN run[i].job)
  BY JobsAre
<1>3. ASSUME NEW k \in UatJobs \cup MainJobs, RunsIf(i, k) PROVE After(i, k)
  <2>1. k \notin {"validate", "promote", "report"}
    BY DEF UatJobs, MainJobs
  <2> QED
    BY <1>3, <2>1, RunsIfIs
<1>4. ASSUME NEW k \in {"vercel-uat", "docker-uat"}, RunsIf(i, k) PROVE run[i].job["build"] = "success"
  <2>1. After(i, k) /\ Needs(i, k) = {"build"}
    BY <1>3, <1>4, NeedsAre DEF UatJobs
  <2> QED
    BY <1>1, <2>1 DEF After, Got, PackageJobs
<1>5. ASSUME NEW k \in {"vercel-main", "docker-main"}, RunsIf(i, k)
      PROVE  run[i].job["build"] = "success" /\ run[i].job["gate"] = "success"
  <2>1. After(i, k) /\ Needs(i, k) = {"build", "gate"}
    BY <1>3, <1>5, NeedsAre DEF MainJobs
  <2> QED
    BY <1>1, <2>1 DEF After, Got, PackageJobs
<1>6. CASE j = "render-uat"
  <2>1. After(i, j) /\ Needs(i, j) = {"docker-uat"}
    BY <1>3, <1>6, NeedsAre DEF UatJobs
  <2>2. run[i].job["docker-uat"] = "success"
    BY <1>2, <1>6, <2>1 DEF After, Got
  <2>3. RunsIf(i, "docker-uat")
    BY <1>2, <1>6, <2>2, RanWhenAllowed
  <2> QED
    BY <1>4, <1>6, <2>3 DEF MainJobs
<1>7. CASE j = "render-main"
  <2>1. After(i, j) /\ Needs(i, j) = {"docker-main"}
    BY <1>3, <1>7, NeedsAre DEF MainJobs
  <2>2. run[i].job["docker-main"] = "success"
    BY <1>2, <1>7, <2>1 DEF After, Got
  <2>3. RunsIf(i, "docker-main")
    BY <1>2, <1>7, <2>2, RanWhenAllowed
  <2> QED
    BY <1>5, <2>3
<1>8. CASE j \in {"vercel-uat", "docker-uat"}
  BY <1>4, <1>8 DEF MainJobs
<1>9. CASE j \in {"vercel-main", "docker-main"}
  BY <1>5, <1>9
<1> QED
  BY <1>6, <1>7, <1>8, <1>9 DEF UatJobs, MainJobs

TestedRule(i, t, b) ==
  (run'[i] # run[i] /\ DeployJob(t, b) \in Ready(i) /\ run'[i].job[DeployJob(t, b)] = "success") =>
    /\ run[i].checked \/ run[i].event = "dispatch" \/ run[i].passedOver
    /\ b = "main" => Got(i, "gate", {"success"})

LEMMA TestedStep ==
  ASSUME PipelineInv, RunsGo, NEW i \in DOMAIN run, NEW t \in Targets, NEW b \in Deployed
  PROVE  TestedRule(i, t, b)
<1> DEFINE j == DeployJob(t, b)
<1> SUFFICES ASSUME j \in Ready(i), run'[i].job[j] = "success"
             PROVE  /\ run[i].checked \/ run[i].event = "dispatch" \/ run[i].passedOver
                    /\ b = "main" => Got(i, "gate", {"success"})
  BY DEF TestedRule
<1>0. RunTyped /\ VerdictsAreOfChecks /\ RunAgrees(i)
  BY DEF PipelineInv, PipelineTyped, History
<1>1. j \in UatJobs \cup MainJobs /\ (b = "main" => j \in MainJobs)
  BY DeliveryAssumption DEF DeliveryAssumption, DeployJob, Deployed, UatJobs, MainJobs
<1> HIDE DEF j
<1>2. j \in DOMAIN run[i].job /\ Waits(i, j)
  BY DEF Ready
<1>3. RunsIf(i, j)
  BY <1>2 DEF RunsGo, Restarts, Continues, Settles
<1>4. run[i].stage = "package"
  <2>1. j \notin {"validate", "policy", "report"} \cup Checks
    BY <1>1 DEF Checks, UatJobs, MainJobs
  <2> QED
    BY <1>0, <1>2, <2>1, JobsAre DEF Stages
<1>5. run[i].job["build"] = "success" /\ (b = "main" => run[i].job["gate"] = "success")
  BY <1>0, <1>1, <1>2, <1>3, <1>4, DeploymentFollows
<1>6. {"validate", "build"} \subseteq DOMAIN run[i].job
  BY <1>0, <1>4, JobsAre DEF PackageJobs
<1>7. RunsIf(i, "build")
  BY <1>0, <1>5, <1>6, RanWhenAllowed
<1>8. After(i, "build") /\ Needs(i, "build") = {"validate"}
  BY <1>7, RunsIfIs, NeedsAre
<1>9. run[i].job["validate"] = "success"
  BY <1>6, <1>8 DEF After, Got
<1>10. RunsIf(i, "validate")
  BY <1>0, <1>6, <1>9, RanWhenAllowed
<1>11. ValidateIf(i)
  BY <1>10, RunsIfIs
<1>12. run[i].checked \/ run[i].event = "dispatch" \/ run[i].passedOver
  BY <1>0, <1>4, <1>11 DEF ValidateIf, VerdictsAreOfChecks
<1> QED
  BY <1>5, <1>12 DEF Got

LEMMA RunsGoAlways ==
  ASSUME PipelineInv, [Next]_vars
  PROVE  RunsGo
<1>1. RunTyped /\ CommitsTyped /\ FileTyped /\ ReportTyped
  BY DEF PipelineInv, PipelineTyped
<1>2. CASE RunAlone
  BY <1>1, <1>2, RunJobsGoes, CompletedGoes, RerunGoes, CancelGoes, PushGoes, DispatchGoes DEF RunAlone, PipelineGoes
<1>3. CASE UNCHANGED run
  BY <1>1, <1>3, RunsRest
<1> QED
  BY <1>2, <1>3, StepsAre DEF DriftStepped, vars, github

\* A commit is deployed only by a run behind a quality stage that passed every check
\* on it, and to production only past the gate of that run; but for a package stage
\* that somebody dispatched, and one behind a quality stage that was skipped.
\* (The `if`s and `needs` of the generated workflow files.)
THEOREM OnlyTestedIsDeployed == Spec => DeployedWasTested
<1> DEFINE Rule == \A i \in DOMAIN run, t \in Targets, b \in Deployed : TestedRule(i, t, b)
<1>1. ASSUME PipelineInv, [Next]_vars PROVE [Rule]_vars
  BY <1>1, TestedStep, RunsGoAlways
<1>2. Rule <=> (\A i \in DOMAIN run, t \in Targets, b \in Deployed :
       (run'[i] # run[i] /\ DeployJob(t, b) \in Ready(i) /\ run'[i].job[DeployJob(t, b)] = "success") =>
         /\ run[i].checked \/ run[i].event = "dispatch" \/ run[i].passedOver
         /\ b = "main" => Got(i, "gate", {"success"}))
  BY DEF TestedRule
<1> HIDE DEF Rule
<1> QED
  BY <1>1, <1>2, PipelineInvHolds, PTL DEF Spec, DeployedWasTested

\* A promotion is opened only once every target of uat has the commit from that run;
\* and a commit that uat's branch points to is promoted once nothing runs any more,
\* unless a run of it did not end well: nothing is lost between the three stages,
\* however runs were cancelled, failed and were run again.  (The promote job.)
THEOREM PromotionsAreSound == Spec => []PromotedAsDeployed
<1>1. ASSUME PipelineInv PROVE PromotedWasDeployed
  BY <1>1, PromotionFollowsUat DEF PipelineInv, PipelineTyped, History, PromotedWasDeployed
<1>2. PipelineInv => PromotedAsDeployed
  BY <1>1, CleanCommitsArePromoted DEF PromotedAsDeployed
<1> QED
  BY <1>2, PipelineInvHolds, PTL

\* The state is of its type; a commit that the console shows as successful has passed
\* the checks of a quality stage, or of one that was skipped; and the report it shows
\* of a stage is the newest, as long as run ids have equally many digits, however
\* reports were lost and runs run again.  (CiReportsService.)
THEOREM ConsoleIsRight == Spec => []ConsoleIsTrue
<1>1. PipelineInv /\ PlatformInv => ConsoleIsTrue
  BY TypesHold, SuccessesAreEarned, NewestIsShown DEF ConsoleIsTrue, PipelineInv, PipelineTyped
<1> QED
  BY <1>1, PipelineInvHolds, PlatformInvHolds, PTL

====
