---- MODULE ConnectionsProofs ----
(***************************************************************************)
(* What the pool of Connections keeps, for any number of calls,            *)
(* connections and faults; and, in the second half, the deployment targets *)
(* of Hosting, for any number of rows, resources, requests and faults.     *)
(***************************************************************************)
EXTENDS Connections, Hosting, FiniteSetTheorems, SequenceTheorems, TLAPS

-----------------------------------------------------------------------------
(* Type correctness, in parts.                                             *)

ConnTyped == conn \in [Conns -> Connection]
QueueTyped == queue \in Seq(Calls)
AtTyped == at \in [Calls -> Stages]
AnswerTyped == answer \in [Calls -> {"none", "done", "failed"}]
AppliedTyped == applied \in [Calls -> 0 .. 2]
PastTyped ==
  /\ retried \subseteq Calls /\ lost \subseteq Calls
  /\ unrolled \subseteq Calls /\ inside \subseteq Calls /\ faults \in 0 .. MaxFaults

LEMMA TypedParts ==
  /\ TypeOK <=> ConnTyped /\ QueueTyped /\ AtTyped /\ AnswerTyped /\ AppliedTyped /\ PastTyped
  /\ TypeOK' <=> ConnTyped' /\ QueueTyped' /\ AtTyped' /\ AnswerTyped' /\ AppliedTyped' /\ PastTyped'
  BY DEF TypeOK, ConnTyped, QueueTyped, AtTyped, AnswerTyped, AppliedTyped, PastTyped

-----------------------------------------------------------------------------
(* The inductive invariant.                                                *)

\* Who is in the queue waits, and is in it once.
Queued ==
  /\ \A i \in DOMAIN queue : at[queue[i]] = "waiting"
  /\ \A i, j \in DOMAIN queue : queue[i] = queue[j] => i = j

\* A call has one connection at most.
OneEach == \A c, d \in Conns : conn[c].by = conn[d].by /\ conn[c].by # NoOne => c = d

\* Who has a connection works with it. It is in that one's own transaction, or in one that
\* a call left open whose ROLLBACK was not sent, and which has left no other.
Works(u) == at[u] \in {"checking", "working"}
FreeIsLeft ==
  \A c \in Conns :
    /\ conn[c].open # "none" /\ conn[c].left = NoOne =>
         conn[c].by # NoOne /\ Kind[conn[c].by] # "query"
    /\ conn[c].by # NoOne => Works(conn[c].by) /\ conn[c].state # "none"
LeftTold == \A c \in Conns : conn[c].left # NoOne => conn[c].left \in unrolled
LeftOnce == \A c, d \in Conns : conn[c].left = conn[d].left /\ conn[c].left # NoOne => c = d

\* What was answered is part of one open transaction at most.
HeldBy(u) == \E c \in Conns : u \in conn[c].held
HeldOnce == \A c, d \in Conns : conn[c].held \cap conn[d].held # {} => c = d

PoolSound == ConnTyped /\ OneEach /\ FreeIsLeft /\ LeftTold /\ LeftOnce /\ HeldOnce

\* What was answered to one call, and what it has done before it is answered.
Honest(u) ==
  /\ at[u] = "answered" <=> answer[u] # "none"
  /\ answer[u] = "done" /\ applied[u] = 0 => Kind[u] = "query" /\ u \in inside
  /\ answer[u] = "failed" /\ applied[u] > 0 => u \in lost \cup unrolled
  /\ applied[u] > 1 => Kind[u] = "query" /\ u \in lost
  /\ at[u] # "answered" /\ applied[u] > 0 =>
       applied[u] = 1 /\ Kind[u] = "query" /\ u \in lost /\ u \in retried
  /\ u \in unrolled => answer[u] = "failed"

\* What waits in a transaction for the COMMIT of another call.
Held(u) ==
  /\ at[u] = "answered" /\ (answer[u] = "failed" => u \in unrolled)
  /\ applied[u] = 0 \/ (applied[u] = 1 /\ Kind[u] = "query" /\ u \in lost)

AllHonest == \A u \in Calls : Honest(u)
AllHeld == \A u \in Calls : HeldBy(u) => Held(u)

IInv == TypeOK /\ Queued /\ PoolSound /\ AllHonest /\ AllHeld

\* A step takes the call u on, and no other.
OthersWait(u) ==
  \A v \in Calls \ {u} : at'[v] = at[v] /\ answer'[v] = answer[v]
OthersStand(u) ==
  \A v \in Calls \ {u} :
    /\ applied'[v] = applied[v]
    /\ v \in lost <=> v \in lost'
    /\ v \in retried <=> v \in retried'
    /\ v \in unrolled <=> v \in unrolled'
    /\ v \in inside <=> v \in inside'

\* No call comes into a transaction that it was not in, but for those of S.
HeldStay(S) == \A v \in Calls : HeldBy(v)' => HeldBy(v) \/ v \in S

-----------------------------------------------------------------------------
(* The queue.                                                              *)

LEMMA QueueRests ==
  ASSUME QueueTyped, Queued, UNCHANGED queue, NEW u, at[u] # "waiting",
         \A v \in Calls \ {u} : at'[v] = at[v]
  PROVE  QueueTyped' /\ Queued'
<1>1. \A i \in DOMAIN queue : queue[i] \in Calls \ {u}
  BY ElementOfSeq, LenProperties DEF QueueTyped, Queued
<1> QED
  BY <1>1 DEF QueueTyped, Queued

LEMMA QueueGrows ==
  ASSUME QueueTyped, Queued, NEW u \in Calls, queue' = Append(queue, u), at[u] # "waiting",
         at'[u] = "waiting", \A v \in Calls \ {u} : at'[v] = at[v]
  PROVE  QueueTyped' /\ Queued'
<1> DEFINE n == Len(queue)
<1>1. /\ queue' \in Seq(Calls) /\ n \in Nat /\ DOMAIN queue = 1 .. n
      /\ Len(queue') = n + 1 /\ DOMAIN queue' = 1 .. (n + 1)
      /\ \A i \in 1 .. n : queue'[i] = queue[i] /\ queue[i] \in Calls
      /\ queue'[n + 1] = u
  BY AppendProperties, LenProperties, ElementOfSeq DEF QueueTyped
<1>2. \A i \in 1 .. n : queue[i] \in Calls \ {u} /\ at'[queue'[i]] = "waiting"
  BY <1>1 DEF Queued
<1>3. \A i, j \in 1 .. n : queue'[i] = queue'[j] => i = j
  BY <1>1 DEF Queued
<1>4. \A i \in 1 .. (n + 1) : i = n + 1 \/ i \in 1 .. n
  BY <1>1
<1> HIDE DEF n
<1>5. \A i \in DOMAIN queue' : at'[queue'[i]] = "waiting"
  BY <1>1, <1>2, <1>4
<1>6. \A i, j \in DOMAIN queue' : queue'[i] = queue'[j] => i = j
  BY <1>1, <1>2, <1>3, <1>4
<1> QED
  BY <1>1, <1>5, <1>6 DEF QueueTyped, Queued

\* The first of the queue waits, and leaves it.
LEMMA FirstLeaves ==
  ASSUME QueueTyped, Queued, queue # <<>>
  PROVE  /\ Head(queue) \in Calls /\ at[Head(queue)] = "waiting"
         /\ Tail(queue) \in Seq(Calls) /\ Len(Tail(queue)) \in Nat
         /\ DOMAIN Tail(queue) = 1 .. Len(Tail(queue))
         /\ \A i \in DOMAIN Tail(queue) : /\ Tail(queue)[i] \in Calls \ {Head(queue)}
                                          /\ at[Tail(queue)[i]] = "waiting"
         /\ \A i, j \in DOMAIN Tail(queue) : Tail(queue)[i] = Tail(queue)[j] => i = j
<1> DEFINE n == Len(queue)
           tail == Tail(queue)
<1>1. /\ n \in Nat \ {0} /\ DOMAIN queue = 1 .. n /\ Head(queue) = queue[1]
      /\ Head(queue) \in Calls /\ tail \in Seq(Calls) /\ Len(tail) = n - 1
      /\ DOMAIN tail = 1 .. (n - 1) /\ \A i \in 1 .. (n - 1) : tail[i] = queue[i + 1]
  BY EmptySeq, HeadTailProperties, LenProperties DEF QueueTyped
<1>2. \A i \in 1 .. n : queue[i] \in Calls
  BY ElementOfSeq DEF QueueTyped
<1> HIDE DEF n, tail
<1>3. /\ 1 \in 1 .. n /\ n - 1 \in Nat
      /\ \A i \in 1 .. (n - 1) : i + 1 \in 1 .. n /\ i + 1 # 1
      /\ \A i, j \in 1 .. (n - 1) : i + 1 = j + 1 => i = j
  BY <1>1
<1>4. at[queue[1]] = "waiting" /\ \A i \in 1 .. (n - 1) : at[queue[i + 1]] = "waiting"
  BY <1>1, <1>3 DEF Queued
<1>5. \A i \in 1 .. (n - 1) : queue[i + 1] # queue[1]
  BY <1>1, <1>3 DEF Queued
<1>6. \A i, j \in 1 .. (n - 1) : queue[i + 1] = queue[j + 1] => i = j
  <2>1. TAKE i, j \in 1 .. (n - 1)
  <2>2. HAVE queue[i + 1] = queue[j + 1]
  <2>3. i + 1 = j + 1
    BY <1>1, <1>3, <2>2 DEF Queued
  <2> QED
    BY <1>3, <2>3
<1>7. \A i \in 1 .. (n - 1) : tail[i] \in Calls \ {Head(queue)} /\ at[tail[i]] = "waiting"
  BY <1>1, <1>2, <1>3, <1>4, <1>5
<1> QED
  BY <1>1, <1>3, <1>4, <1>6, <1>7 DEF tail

LEMMA QueueShrinks ==
  ASSUME QueueTyped, Queued, NEW u, queue # <<>>, u = Head(queue), queue' = Tail(queue),
         \A v \in Calls \ {u} : at'[v] = at[v]
  PROVE  QueueTyped' /\ Queued'
  BY FirstLeaves DEF QueueTyped, Queued

\* The first of the queue goes to its end.
LEMMA QueueTurns ==
  ASSUME QueueTyped, Queued, queue # <<>>, queue' = Append(Tail(queue), Head(queue)), UNCHANGED at
  PROVE  QueueTyped' /\ Queued'
<1> DEFINE n == Len(Tail(queue))
           u == Head(queue)
<1>1. /\ u \in Calls /\ at[u] = "waiting" /\ Tail(queue) \in Seq(Calls) /\ n \in Nat
      /\ DOMAIN Tail(queue) = 1 .. n
      /\ \A i \in 1 .. n : Tail(queue)[i] \in Calls \ {u} /\ at[Tail(queue)[i]] = "waiting"
      /\ \A i, j \in 1 .. n : Tail(queue)[i] = Tail(queue)[j] => i = j
  BY FirstLeaves
<1>2. /\ queue' \in Seq(Calls) /\ Len(queue') = n + 1
      /\ \A i \in 1 .. n : queue'[i] = Tail(queue)[i]
      /\ queue'[n + 1] = u
  BY <1>1, AppendProperties
<1>3. DOMAIN queue' = 1 .. (n + 1)
  BY <1>2, LenProperties
<1>4. \A i \in 1 .. (n + 1) : i = n + 1 \/ i \in 1 .. n
  BY <1>1
<1> HIDE DEF n, u
<1>5. \A i \in DOMAIN queue' : at'[queue'[i]] = "waiting"
  BY <1>1, <1>2, <1>3, <1>4
<1>6. \A i, j \in DOMAIN queue' : queue'[i] = queue'[j] => i = j
  <2>1. \A i \in 1 .. n : queue'[i] # u
    BY <1>1, <1>2
  <2>2. \A i, j \in 1 .. n : queue'[i] = queue'[j] => i = j
    BY <1>1, <1>2
  <2> QED
    BY <1>2, <1>3, <1>4, <2>1, <2>2
<1> QED
  BY <1>2, <1>5, <1>6 DEF QueueTyped, Queued

\* One that no longer waits leaves the queue from where it stands.
LEMMA QueueLosesOne ==
  ASSUME QueueTyped, Queued, NEW k \in DOMAIN queue, queue' = RemoveAt(queue, k),
         \A v \in Calls \ {queue[k]} : at'[v] = at[v]
  PROVE  /\ QueueTyped' /\ Queued'
         /\ queue[k] \in Calls /\ at[queue[k]] = "waiting"
<1> DEFINE n == Len(queue)
           before == SubSeq(queue, 1, k - 1)
           after == SubSeq(queue, k + 1, n)
<1>1. n \in Nat /\ DOMAIN queue = 1 .. n /\ \A i \in 1 .. n : queue[i] \in Calls
  BY LenProperties, ElementOfSeq DEF QueueTyped
<1>2. k \in 1 .. n /\ k - 1 \in Int /\ k + 1 \in Int /\ k \in Nat
  BY <1>1
<1>3. /\ before \in Seq(Calls) /\ Len(before) = k - 1
      /\ \A i \in 1 .. (k - 1) : before[i] = queue[i]
  <2>1. \A i \in 1 .. (k - 1) : queue[i] \in Calls
    BY <1>1, <1>2
  <2>2. /\ before \in Seq(Calls)
        /\ Len(before) = IF 1 <= k - 1 THEN (k - 1) - 1 + 1 ELSE 0
        /\ \A i \in 1 .. ((k - 1) - 1 + 1) : before[i] = queue[1 + i - 1]
    BY <1>2, <2>1, SubSeqProperties
  <2> HIDE DEF before
  <2> QED
    BY <1>2, <2>2
<1>4. /\ after \in Seq(Calls) /\ Len(after) = n - k
      /\ \A i \in 1 .. (n - k) : after[i] = queue[k + i]
  <2>1. \A i \in (k + 1) .. n : queue[i] \in Calls
    BY <1>1, <1>2
  <2>2. /\ after \in Seq(Calls)
        /\ Len(after) = IF k + 1 <= n THEN n - (k + 1) + 1 ELSE 0
        /\ \A i \in 1 .. (n - (k + 1) + 1) : after[i] = queue[(k + 1) + i - 1]
    BY <1>1, <1>2, <2>1, SubSeqProperties
  <2> HIDE DEF after
  <2>3. /\ (IF k + 1 <= n THEN n - (k + 1) + 1 ELSE 0) = n - k
        /\ n - (k + 1) + 1 = n - k /\ \A i \in 1 .. (n - k) : (k + 1) + i - 1 = k + i
    BY <1>1, <1>2
  <2> QED
    BY <2>2, <2>3
<1> HIDE DEF before, after
<1>5. /\ queue' \in Seq(Calls) /\ Len(queue') = Len(before) + Len(after)
      /\ \A i \in 1 .. Len(before) + Len(after) : queue'[i] =
           IF i <= Len(before) THEN before[i] ELSE after[i - Len(before)]
  <2>1. queue' = before \o after
    BY DEF RemoveAt, before, after
  <2> QED
    BY <1>3, <1>4, <2>1, ConcatProperties
<1>6. DOMAIN queue' = 1 .. (n - 1)
  BY <1>1, <1>2, <1>3, <1>4, <1>5, LenProperties
<1> HIDE DEF n
<1>7. \A i \in 1 .. (n - 1) : queue'[i] = queue[IF i < k THEN i ELSE i + 1]
  <2>1. \A i \in 1 .. (n - 1) : i < k => queue'[i] = queue[i]
    BY <1>1, <1>2, <1>3, <1>4, <1>5
  <2>2. \A i \in 1 .. (n - 1) : ~(i < k) => queue'[i] = queue[i + 1]
    <3>1. TAKE i \in 1 .. (n - 1)
    <3>2. HAVE ~(i < k)
    <3>3. /\ i \in 1 .. Len(before) + Len(after) /\ ~(i <= Len(before))
          /\ i - Len(before) = i - k + 1 /\ i - k + 1 \in 1 .. (n - k) /\ k + (i - k + 1) = i + 1
      BY <1>1, <1>2, <1>3, <1>4, <3>2
    <3> QED
      BY <1>4, <1>5, <3>3
  <2> QED
    BY <2>1, <2>2
<1>8. /\ \A i \in 1 .. (n - 1) : (IF i < k THEN i ELSE i + 1) \in (1 .. n) \ {k}
      /\ \A i, j \in 1 .. (n - 1) :
           (IF i < k THEN i ELSE i + 1) = (IF j < k THEN j ELSE j + 1) => i = j
  BY <1>1, <1>2
<1> DEFINE was(i) == IF i < k THEN i ELSE i + 1
<1>9. /\ \A i \in 1 .. (n - 1) : queue'[i] = queue[was(i)] /\ was(i) \in (1 .. n) \ {k}
      /\ \A i, j \in 1 .. (n - 1) : was(i) = was(j) => i = j
  BY <1>7, <1>8
<1> HIDE DEF was
<1>10. \A i \in 1 .. (n - 1) : queue'[i] \in Calls \ {queue[k]} /\ at[queue'[i]] = "waiting"
  BY <1>1, <1>2, <1>9 DEF Queued
<1>11. \A i, j \in 1 .. (n - 1) : queue'[i] = queue'[j] => i = j
  BY <1>1, <1>9 DEF Queued
<1>12. Queued'
  BY <1>6, <1>10, <1>11 DEF Queued
<1> QED
  BY <1>1, <1>2, <1>5, <1>12 DEF QueueTyped, Queued

-----------------------------------------------------------------------------
(* The connections.                                                        *)

LEMMA ConnectionIs ==
  \A r : r \in Connection =>
    /\ r.state \in {"none", "live", "cut"} /\ r.by \in Calls \cup {NoOne}
    /\ r.open \in {"none", "begun", "aborted"} /\ r.held \subseteq Calls
    /\ r.left \in Calls \cup {NoOne}
  BY DEF Connection

\* The connections that nobody has and that are in no transaction.
LEMMA CleanIs ==
  ASSUME NEW r, r = Clean \/ r = Unopened
  PROVE  r \in Connection /\ r.by = NoOne /\ r.open = "none" /\ r.held = {} /\ r.left = NoOne
  BY DEF Clean, Unopened, Connection

\* Who has a connection works with it.
LEMMA LentIs ==
  ASSUME PoolSound, NEW u \in Calls, NEW c \in Conns, NEW state, Lent(u, c, state),
         FaultsAssumption
  PROVE  conn[c].by = u /\ conn[c].state = state /\ at[u] \in {"checking", "working"} /\ u # NoOne
  BY DEF Lent, PoolSound, FreeIsLeft, Works, FaultsAssumption

\* The connections rest while a call without one goes on.
LEMMA PoolRests ==
  ASSUME PoolSound, UNCHANGED conn, unrolled' = unrolled, NEW u, ~Works(u),
         \A v \in Calls \ {u} : at'[v] = at[v]
  PROVE  PoolSound' /\ HeldStay({})
<1>1. \A c \in Conns : conn[c].by # NoOne => conn[c].by \in Calls \ {u}
  BY ConnectionIs DEF PoolSound, ConnTyped, FreeIsLeft
<1> QED
  BY <1>1 DEF PoolSound, ConnTyped, OneEach, FreeIsLeft, LeftTold, LeftOnce, HeldOnce, HeldStay,
              HeldBy, Works

\* One connection changes.
LEMMA PoolChanges ==
  ASSUME PoolSound, NEW c \in Conns, NEW r \in Connection, conn' = [conn EXCEPT ![c] = r],
         unrolled \subseteq unrolled',
         \A d \in Conns \ {c} : conn[d].by # NoOne => at'[conn[d].by] = at[conn[d].by],
         r.by # NoOne => /\ at'[r.by] \in {"checking", "working"} /\ r.state # "none"
                         /\ \A d \in Conns \ {c} : conn[d].by # r.by,
         r.open # "none" /\ r.left = NoOne => r.by # NoOne /\ Kind[r.by] # "query",
         r.left # NoOne => r.left \in unrolled' /\ (r.left = conn[c].left \/ r.left \notin unrolled),
         \A v \in r.held : v \in conn[c].held \/ ~HeldBy(v)
  PROVE  PoolSound' /\ HeldStay(r.held) /\ conn'[c] = r
<1>1. /\ conn'[c] = r /\ conn' \in [Conns -> Connection]
      /\ \A d \in Conns : d # c => conn'[d] = conn[d]
  BY DEF PoolSound, ConnTyped
<1>2. OneEach'
  BY <1>1 DEF PoolSound, OneEach
<1>3. FreeIsLeft'
  BY <1>1 DEF PoolSound, FreeIsLeft, Works
<1>4. LeftTold'
  BY <1>1 DEF PoolSound, LeftTold
<1>5. LeftOnce'
  <2>1. ASSUME NEW d \in Conns, d # c, conn[d].left = r.left, r.left # NoOne PROVE FALSE
    BY <2>1 DEF PoolSound, LeftTold, LeftOnce
  <2> QED
    BY <1>1, <2>1 DEF PoolSound, LeftOnce
<1>6. HeldOnce'
  <2>1. ASSUME NEW d \in Conns, d # c, NEW v \in conn[d].held, v \in r.held PROVE FALSE
    BY <2>1 DEF PoolSound, HeldOnce, HeldBy
  <2> QED
    BY <1>1, <2>1 DEF PoolSound, HeldOnce
<1>7. HeldStay(r.held)
  BY <1>1 DEF HeldStay, HeldBy
<1> QED
  BY <1>1, <1>2, <1>3, <1>4, <1>5, <1>6, <1>7 DEF PoolSound, ConnTyped

\* The others have other connections.
LEMMA OthersHave ==
  ASSUME PoolSound, FaultsAssumption, NEW u \in Calls, NEW c \in Conns, conn[c].by = u,
         \A v \in Calls \ {u} : at'[v] = at[v]
  PROVE  \A d \in Conns \ {c} : conn[d].by # u /\ (conn[d].by # NoOne => at'[conn[d].by] = at[conn[d].by])
<1>1. u # NoOne
  BY DEF FaultsAssumption
<1> QED
  BY <1>1, ConnectionIs DEF PoolSound, ConnTyped, OneEach

\* The call u gives its connection back, or sees it closed, and then may do anything.
LEMMA PoolTakesBack ==
  ASSUME PoolSound, FaultsAssumption, unrolled' = unrolled,
         NEW u \in Calls, NEW c \in Conns, conn[c].by = u, Release(c) \/ Destroy(c),
         \A v \in Calls \ {u} : at'[v] = at[v]
  PROVE  PoolSound' /\ HeldStay({}) /\ conn'[c].held = {} /\ \A d \in Conns \ {c} : conn'[d] = conn[d]
<1>1. PICK r \in Connection :
        /\ conn' = [conn EXCEPT ![c] = r]
        /\ r.by = NoOne /\ r.open = "none" /\ r.held = {} /\ r.left = NoOne
  <2>1. CASE Release(c)
    <3> DEFINE st == conn[c].state
               r == [Clean EXCEPT !.state = st]
    <3>1. st \in {"none", "live", "cut"} /\ conn' = [conn EXCEPT ![c] = r]
      BY <2>1, ConnectionIs DEF Release, PoolSound, ConnTyped
    <3> HIDE DEF st
    <3>2. r \in Connection /\ r.by = NoOne /\ r.open = "none" /\ r.held = {} /\ r.left = NoOne
      BY <3>1 DEF Clean, Connection
    <3> QED
      BY <3>1, <3>2
  <2>2. CASE Destroy(c)
    BY <2>2, CleanIs DEF Destroy
  <2> QED
    BY <2>1, <2>2
<1>2. \A d \in Conns \ {c} : conn[d].by # NoOne => at'[conn[d].by] = at[conn[d].by]
  BY OthersHave
<1>3. PoolSound' /\ HeldStay(r.held) /\ conn'[c] = r
  BY <1>1, <1>2, PoolChanges
<1> QED
  BY <1>1, <1>3 DEF PoolSound, ConnTyped

\* A call that waited is lent a connection.
LEMMA PoolLends ==
  ASSUME PoolSound, FaultsAssumption, unrolled' = unrolled,
         NEW u \in Calls, NEW c \in Idle \cup Vacant, at[u] = "waiting",
         conn' = [conn EXCEPT ![c].by = u, ![c].state = IF @ = "none" THEN "live" ELSE @],
         at'[u] \in {"checking", "working"}, \A v \in Calls \ {u} : at'[v] = at[v]
  PROVE  PoolSound' /\ HeldStay({})
<1> DEFINE st == IF conn[c].state = "none" THEN "live" ELSE conn[c].state
           r == [conn[c] EXCEPT !.by = u, !.state = st]
<1>1. c \in Conns /\ conn[c] \in Connection /\ conn' = [conn EXCEPT ![c] = r]
  BY DEF PoolSound, ConnTyped, Idle, Vacant
<1>2. st \in {"live", "cut"}
  BY <1>1, ConnectionIs
<1> HIDE DEF st
<1>3. /\ r \in Connection /\ r.by = u /\ r.state # "none" /\ r.open = conn[c].open
      /\ r.left = conn[c].left /\ r.held = conn[c].held
  BY <1>1, <1>2 DEF Connection
<1> HIDE DEF r
<1>4. u # NoOne /\ \A d \in Conns : conn[d].by # NoOne => conn[d].by \in Calls \ {u}
  BY ConnectionIs DEF PoolSound, ConnTyped, FreeIsLeft, Works, FaultsAssumption
<1>5. PoolSound' /\ HeldStay(r.held)
  <2>1. r.left # NoOne \/ r.open = "none"
    BY <1>1, <1>3 DEF PoolSound, FreeIsLeft, Idle, Vacant, ConnTyped
  <2>2. r.left # NoOne => r.left \in unrolled'
    BY <1>1, <1>3 DEF PoolSound, LeftTold
  <2>3. at'[r.by] \in {"checking", "working"} /\ r.by # NoOne
    BY <1>3, <1>4
  <2>4. \A d \in Conns \ {c} : conn[d].by # r.by /\ (conn[d].by # NoOne => at'[conn[d].by] = at[conn[d].by])
    BY <1>3, <1>4
  <2> QED
    BY <1>1, <1>3, <2>1, <2>2, <2>3, <2>4, PoolChanges
<1>6. \A v \in r.held : HeldBy(v)
  BY <1>1, <1>3 DEF HeldBy
<1> QED
  BY <1>5, <1>6 DEF HeldStay

-----------------------------------------------------------------------------
(* What the calls have done and were told.                                 *)

Aside(u) == OthersWait(u) /\ OthersStand(u)

LEMMA OthersStayHonest ==
  ASSUME AllHonest, NEW u, Aside(u), u \in Calls => Honest(u)'
  PROVE  AllHonest'
<1>1. ASSUME NEW v \in Calls \ {u} PROVE Honest(v)'
  <2>1. /\ at'[v] = at[v] /\ answer'[v] = answer[v] /\ applied'[v] = applied[v]
        /\ v \in lost <=> v \in lost'
        /\ v \in retried <=> v \in retried'
        /\ v \in unrolled <=> v \in unrolled'
        /\ v \in inside <=> v \in inside'
    BY <1>1 DEF Aside, OthersWait, OthersStand
  <2>2. Honest(v)
    BY <1>1 DEF AllHonest
  <2> QED
    BY <2>1, <2>2 DEF Honest
<1> QED
  BY <1>1 DEF AllHonest

LEMMA OthersStayHeld ==
  ASSUME AllHeld, NEW u, Aside(u), HeldStay({u}), u \in Calls /\ HeldBy(u)' => Held(u)'
  PROVE  AllHeld'
<1>1. ASSUME NEW v \in Calls \ {u}, HeldBy(v)' PROVE Held(v)'
  <2>1. /\ at'[v] = at[v] /\ answer'[v] = answer[v] /\ applied'[v] = applied[v]
        /\ v \in lost <=> v \in lost'
        /\ v \in unrolled <=> v \in unrolled'
    BY <1>1 DEF Aside, OthersWait, OthersStand
  <2>2. Held(v)
    BY <1>1 DEF AllHeld, HeldStay
  <2> QED
    BY <2>1, <2>2 DEF Held
<1> QED
  BY <1>1 DEF AllHeld

\* Who has not been answered is in no transaction that was left.
LEMMA NotHeld ==
  ASSUME AllHeld, NEW u \in Calls, at[u] # "answered"
  PROVE  ~HeldBy(u) /\ \A c \in Conns : u \notin conn[c].held
  BY DEF AllHeld, Held, HeldBy

LEMMA AnswerIs ==
  ASSUME AtTyped, AnswerTyped, NEW u \in Calls, NEW what \in {"done", "failed"}, Answer(u, what)
  PROVE  /\ AtTyped' /\ AnswerTyped' /\ OthersWait(u)
         /\ at'[u] = "answered" /\ answer'[u] = what
  BY DEF AtTyped, AnswerTyped, OthersWait, Answer, Stages

LEMMA WaitIs ==
  ASSUME AtTyped, AnswerTyped, NEW u \in Calls, Wait(u), UNCHANGED answer
  PROVE  /\ AtTyped' /\ AnswerTyped' /\ OthersWait(u)
         /\ at'[u] = "waiting" /\ answer'[u] = answer[u] /\ queue' = Append(queue, u)
  BY DEF AtTyped, AnswerTyped, OthersWait, Wait, Stages

\* The effect is committed once more, and the answer comes or is lost.
LEMMA AppliedIs ==
  ASSUME AppliedTyped, NEW u \in Calls, applied' = [applied EXCEPT ![u] = @ + 1], applied[u] \in {0, 1}
  PROVE  /\ AppliedTyped' /\ applied'[u] = applied[u] + 1 /\ applied'[u] > 0
         /\ \A v \in Calls \ {u} : applied'[v] = applied[v]
<1>1. applied[u] + 1 \in 0 .. 2 /\ applied[u] + 1 > 0
  OBVIOUS
<1> QED
  BY <1>1 DEF AppliedTyped

LEMMA Unanswered ==
  ASSUME AppliedTyped, NEW u \in Calls, Honest(u), at[u] # "answered"
  PROVE  /\ applied[u] \in {0, 1} /\ answer[u] = "none" /\ u \notin unrolled
         /\ applied[u] = 1 => Kind[u] = "query" /\ u \in lost /\ u \in retried
<1>1. applied[u] \in 0 .. 2
  BY DEF AppliedTyped
<1> QED
  BY <1>1 DEF Honest

-----------------------------------------------------------------------------
(* The steps.                                                              *)

\* What a step that takes a call on changes keeps the invariant part by part.
LEMMA Parts ==
  ASSUME IInv
  PROVE  /\ ConnTyped /\ QueueTyped /\ AtTyped /\ AnswerTyped /\ AppliedTyped /\ PastTyped
         /\ Queued /\ PoolSound /\ AllHonest /\ AllHeld
         /\ FaultsAssumption /\ KindAssumption
  BY TypedParts, FaultsAssumption, KindAssumption DEF IInv

LEMMA PoolWhole ==
  ASSUME QueueTyped', AtTyped', AnswerTyped', AppliedTyped', PastTyped',
         Queued', PoolSound', AllHonest', AllHeld'
  PROVE  IInv'
  BY TypedParts DEF IInv, PoolSound

LEMMA FaultIs ==
  ASSUME PastTyped, Fault \/ UNCHANGED faults
  PROVE  faults' \in 0 .. MaxFaults
  BY FaultsAssumption DEF PastTyped, Fault, FaultsAssumption

\* A call that has a connection gives it back, or sees it closed, and is answered.
LEMMA AnsweredWith ==
  ASSUME IInv, NEW u \in Calls, NEW c \in Conns, conn[c].by = u, at[u] \in {"checking", "working"},
         Release(c) \/ Destroy(c), NEW what \in {"done", "failed"}, Answer(u, what),
         UNCHANGED <<queue, retried, unrolled, inside>>, Fault \/ UNCHANGED faults,
         \/ UNCHANGED <<applied, lost>> /\ what = "failed"
         \/ /\ applied' = [applied EXCEPT ![u] = @ + 1]
            /\ \/ UNCHANGED lost /\ what = "done"
               \/ lost' = lost \cup {u} /\ what = "failed"
  PROVE  IInv'
<1>1. /\ ConnTyped /\ QueueTyped /\ AtTyped /\ AnswerTyped /\ AppliedTyped /\ PastTyped
      /\ Queued /\ PoolSound /\ AllHonest /\ AllHeld /\ FaultsAssumption
  BY Parts
<1>2. AtTyped' /\ AnswerTyped' /\ OthersWait(u) /\ at'[u] = "answered" /\ answer'[u] = what
  BY <1>1, AnswerIs
<1>3. \A v \in Calls \ {u} : at'[v] = at[v]
  BY <1>2 DEF OthersWait
<1>4. PoolSound' /\ HeldStay({})
  BY <1>1, <1>3, PoolTakesBack
<1>5. QueueTyped' /\ Queued'
  BY <1>1, <1>3, QueueRests
<1>6. Honest(u) /\ ~HeldBy(u)
  BY <1>1, NotHeld DEF AllHonest
<1>7. /\ applied[u] \in {0, 1} /\ (applied[u] = 1 => Kind[u] = "query" /\ u \in lost /\ u \in retried)
      /\ u \notin unrolled
  BY <1>1, <1>6, Unanswered
<1>8. /\ AppliedTyped' /\ PastTyped' /\ OthersStand(u) /\ Honest(u)'
  <2>1. CASE UNCHANGED <<applied, lost>> /\ what = "failed"
    <3>1. AppliedTyped' /\ PastTyped'
      BY <1>1, <2>1, FaultIs DEF AppliedTyped, PastTyped
    <3>2. OthersStand(u)
      BY <2>1 DEF OthersStand
    <3>3. Honest(u)'
      BY <1>2, <1>7, <2>1 DEF Honest
    <3> QED
      BY <3>1, <3>2, <3>3
  <2>2. CASE /\ applied' = [applied EXCEPT ![u] = @ + 1]
             /\ \/ UNCHANGED lost /\ what = "done"
                \/ lost' = lost \cup {u} /\ what = "failed"
    <3>1. /\ AppliedTyped' /\ applied'[u] = applied[u] + 1 /\ applied'[u] > 0
          /\ \A v \in Calls \ {u} : applied'[v] = applied[v]
      BY <1>1, <1>7, <2>2, AppliedIs
    <3>2. PastTyped'
      BY <1>1, <2>2, FaultIs DEF PastTyped
    <3>3. OthersStand(u)
      BY <2>2, <3>1 DEF OthersStand
    <3>4. (applied'[u] > 1 => applied[u] = 1) /\ applied'[u] # 0
      BY <1>7, <3>1
    <3>5. applied'[u] > 1 => Kind[u] = "query" /\ u \in lost'
      BY <1>7, <2>2, <3>4
    <3>6. Honest(u)'
      BY <1>2, <1>7, <2>2, <3>1, <3>4, <3>5 DEF Honest
    <3> QED
      BY <3>1, <3>2, <3>3, <3>6
  <2> QED
    BY <2>1, <2>2
<1>9. AllHonest' /\ AllHeld'
  BY <1>1, <1>2, <1>4, <1>6, <1>8, OthersStayHonest, OthersStayHeld DEF Aside, HeldStay
<1> QED
  BY <1>2, <1>4, <1>5, <1>8, <1>9, PoolWhole

\* A transaction is committed, and with it what others have in it.
LEMMA CommittedWith ==
  ASSUME IInv, NEW u \in Calls, NEW c \in Conns, conn[c].by = u, at[u] \in {"checking", "working"},
         Kind[u] # "query", Release(c) \/ Destroy(c), NEW what \in {"done", "failed"},
         Answer(u, what), Committed(u, c),
         UNCHANGED <<queue, retried, unrolled, inside>>, Fault \/ UNCHANGED faults,
         \/ UNCHANGED lost /\ what = "done"
         \/ lost' = lost \cup {u} /\ what = "failed"
  PROVE  IInv'
<1>1. /\ ConnTyped /\ QueueTyped /\ AtTyped /\ AnswerTyped /\ AppliedTyped /\ PastTyped
      /\ Queued /\ PoolSound /\ AllHonest /\ AllHeld /\ FaultsAssumption
  BY Parts
<1>2. AtTyped' /\ AnswerTyped' /\ OthersWait(u) /\ at'[u] = "answered" /\ answer'[u] = what
  BY <1>1, AnswerIs
<1>3. \A v \in Calls \ {u} : at'[v] = at[v]
  BY <1>2 DEF OthersWait
<1>4. /\ PoolSound' /\ HeldStay({}) /\ conn'[c].held = {}
      /\ \A d \in Conns \ {c} : conn'[d] = conn[d]
  BY <1>1, <1>3, PoolTakesBack
<1>5. QueueTyped' /\ Queued'
  BY <1>1, <1>3, QueueRests
<1>6. Honest(u) /\ u \notin conn[c].held /\ ~HeldBy(u)
  BY <1>1, NotHeld DEF AllHonest
<1>7. applied[u] = 0 /\ u \notin unrolled
  BY <1>1, <1>6, Unanswered
<1>8. \A v \in conn[c].held : v \in Calls /\ Held(v) /\ applied[v] \in {0, 1} /\ v # u
  BY <1>1, <1>6, ConnectionIs DEF ConnTyped, AllHeld, HeldBy, Held
<1>9. /\ applied'[u] = 1
      /\ \A v \in conn[c].held : applied'[v] = applied[v] + 1
      /\ \A v \in Calls : v # u /\ v \notin conn[c].held => applied'[v] = applied[v]
  BY <1>7, <1>8 DEF Committed
<1>10. AppliedTyped'
  <2>1. \A v \in Calls : applied'[v] \in 0 .. 2
    <3>1. TAKE v \in Calls
    <3>2. CASE v = u
      BY <1>9, <3>2
    <3>3. CASE v \in conn[c].held
      BY <1>8, <1>9, <3>3
    <3>4. CASE v # u /\ v \notin conn[c].held
      BY <1>1, <1>9, <3>4 DEF AppliedTyped
    <3> QED
      BY <3>2, <3>3, <3>4
  <2> QED
    BY <2>1 DEF AppliedTyped, Committed
<1>11. PastTyped'
  BY <1>1, FaultIs DEF PastTyped
<1>12. ASSUME NEW v \in Calls PROVE Honest(v)'
  <2>1. CASE v = u
    BY <1>2, <1>7, <1>9, <2>1 DEF Honest
  <2>2. CASE v \in conn[c].held
    <3>1. Held(v) /\ Honest(v) /\ v # u /\ applied[v] \in {0, 1} /\ applied'[v] = applied[v] + 1
      BY <1>1, <1>8, <1>9, <2>2 DEF AllHonest
    <3>2. at'[v] = at[v] /\ answer'[v] = answer[v]
      BY <1>2, <3>1 DEF OthersWait
    <3>3. applied'[v] # 0 /\ (applied'[v] > 1 => applied[v] = 1)
      BY <3>1
    <3>4. applied'[v] > 1 => Kind[v] = "query" /\ v \in lost'
      BY <3>1, <3>3 DEF Held
    <3> QED
      BY <3>1, <3>2, <3>3, <3>4 DEF Held, Honest
  <2>3. CASE v # u /\ v \notin conn[c].held
    <3>1. at'[v] = at[v] /\ answer'[v] = answer[v] /\ applied'[v] = applied[v] /\ Honest(v)
      BY <1>1, <1>2, <1>9, <2>3 DEF OthersWait, AllHonest
    <3>2. v \in lost <=> v \in lost'
      BY <2>3
    <3> QED
      BY <3>1, <3>2 DEF Honest
  <2> QED
    BY <2>1, <2>2, <2>3
<1>13. ASSUME NEW v \in Calls, HeldBy(v)' PROVE Held(v)'
  <2>1. PICK d \in Conns : v \in conn'[d].held
    BY <1>13 DEF HeldBy
  <2>2. d # c /\ v \in conn[d].held
    BY <1>4, <2>1
  <2>3. v \notin conn[c].held /\ HeldBy(v)
    BY <1>1, <2>2 DEF PoolSound, HeldOnce, HeldBy
  <2>4. v # u /\ Held(v)
    BY <1>1, <1>6, <2>3 DEF AllHeld
  <2>5. at'[v] = at[v] /\ answer'[v] = answer[v] /\ applied'[v] = applied[v]
    BY <1>2, <1>9, <2>3, <2>4 DEF OthersWait
  <2> QED
    BY <2>4, <2>5 DEF Held
<1> QED
  BY <1>2, <1>4, <1>5, <1>10, <1>11, <1>12, <1>13, PoolWhole DEF AllHonest, AllHeld

\* A connection fails under its call, which waits for another or is told so.
LEMMA TriedAgain ==
  ASSUME IInv, NEW u \in Calls, NEW c \in Conns, conn[c].by = u, at[u] \in {"checking", "working"},
         Destroy(c), RetryOnce(u), Fault \/ UNCHANGED faults, UNCHANGED <<unrolled, inside>>,
         \/ UNCHANGED <<applied, lost>>
         \/ /\ Kind[u] = "query"
            /\ applied' = [applied EXCEPT ![u] = @ + 1] /\ lost' = lost \cup {u}
  PROVE  IInv'
<1>1. CASE u \in retried
  <2>1. Answer(u, "failed") /\ UNCHANGED <<queue, retried>>
    BY <1>1 DEF RetryOnce
  <2> QED
    BY <2>1, AnsweredWith
<1>2. CASE u \notin retried
  <2>1. /\ ConnTyped /\ QueueTyped /\ AtTyped /\ AnswerTyped /\ AppliedTyped /\ PastTyped
        /\ Queued /\ PoolSound /\ AllHonest /\ AllHeld /\ FaultsAssumption
    BY Parts
  <2>2. Wait(u) /\ retried' = retried \cup {u} /\ UNCHANGED answer
    BY <1>2 DEF RetryOnce
  <2>3. /\ AtTyped' /\ AnswerTyped' /\ OthersWait(u)
        /\ at'[u] = "waiting" /\ answer'[u] = answer[u] /\ queue' = Append(queue, u)
    BY <2>1, <2>2, WaitIs
  <2>4. \A v \in Calls \ {u} : at'[v] = at[v]
    BY <2>3 DEF OthersWait
  <2>5. PoolSound' /\ HeldStay({})
    BY <2>1, <2>4, PoolTakesBack
  <2>6. QueueTyped' /\ Queued'
    BY <2>1, <2>3, <2>4, QueueGrows
  <2>7. Honest(u) /\ ~HeldBy(u)
    BY <2>1, NotHeld DEF AllHonest
  <2>8. applied[u] = 0 /\ answer[u] = "none" /\ u \notin unrolled
    BY <1>2, <2>1, <2>7, Unanswered
  <2>9. AppliedTyped' /\ PastTyped' /\ OthersStand(u) /\ Honest(u)'
    <3>1. CASE UNCHANGED <<applied, lost>>
      <4>1. AppliedTyped' /\ PastTyped' /\ OthersStand(u)
        BY <2>1, <2>2, <3>1, FaultIs DEF AppliedTyped, PastTyped, OthersStand
      <4>2. Honest(u)'
        BY <2>3, <2>8, <3>1 DEF Honest
      <4> QED
        BY <4>1, <4>2
    <3>2. CASE /\ Kind[u] = "query"
               /\ applied' = [applied EXCEPT ![u] = @ + 1] /\ lost' = lost \cup {u}
      <4>1. /\ AppliedTyped' /\ applied'[u] = 1
            /\ \A v \in Calls \ {u} : applied'[v] = applied[v]
        <5>1. applied[u] \in {0, 1} /\ 0 + 1 = 1
          BY <2>8
        <5>2. /\ AppliedTyped' /\ applied'[u] = applied[u] + 1
              /\ \A v \in Calls \ {u} : applied'[v] = applied[v]
          BY <2>1, <3>2, <5>1, AppliedIs
        <5> QED
          BY <2>8, <5>1, <5>2
      <4>2. PastTyped' /\ OthersStand(u)
        BY <2>1, <2>2, <3>2, <4>1, FaultIs DEF PastTyped, OthersStand
      <4>3. Honest(u)'
        BY <2>2, <2>3, <2>8, <3>2, <4>1 DEF Honest
      <4> QED
        BY <4>1, <4>2, <4>3
    <3> QED
      BY <3>1, <3>2
  <2>10. AllHonest' /\ AllHeld'
    BY <2>1, <2>3, <2>5, <2>7, <2>9, OthersStayHonest, OthersStayHeld DEF Aside, HeldStay
  <2> QED
    BY <2>3, <2>5, <2>6, <2>9, <2>10, PoolWhole
<1> QED
  BY <1>1, <1>2

\* A call that waits leaves the queue, told that there is no connection for it.
LEMMA TurnedAway ==
  ASSUME IInv, NEW u \in Calls, at[u] = "waiting", Answer(u, "failed"), QueueTyped', Queued',
         UNCHANGED <<conn, retried, applied, lost, unrolled, inside>>, Fault \/ UNCHANGED faults
  PROVE  IInv'
<1>1. /\ AtTyped /\ AnswerTyped /\ AppliedTyped /\ PastTyped
      /\ PoolSound /\ AllHonest /\ AllHeld
  BY Parts
<1>2. AtTyped' /\ AnswerTyped' /\ OthersWait(u) /\ at'[u] = "answered" /\ answer'[u] = "failed"
  BY <1>1, AnswerIs
<1>3. PoolSound' /\ HeldStay({})
  BY <1>1, <1>2, PoolRests DEF OthersWait, Works
<1>4. Honest(u) /\ ~HeldBy(u)
  BY <1>1, NotHeld DEF AllHonest
<1>5. /\ applied[u] \in {0, 1} /\ (applied[u] = 1 => Kind[u] = "query" /\ u \in lost /\ u \in retried)
      /\ u \notin unrolled
  BY <1>1, <1>4, Unanswered
<1>6. Honest(u)' /\ OthersStand(u)
  BY <1>2, <1>5 DEF Honest, OthersStand
<1>7. AllHonest' /\ AllHeld'
  BY <1>1, <1>2, <1>3, <1>4, <1>6, OthersStayHonest, OthersStayHeld DEF Aside, HeldStay
<1>8. AppliedTyped' /\ PastTyped'
  BY <1>1, FaultIs DEF AppliedTyped, PastTyped
<1> QED
  BY <1>2, <1>3, <1>7, <1>8, PoolWhole

\* A call goes from one stage to the next, and no effect is committed.
LEMMA GoesOn ==
  ASSUME IInv, NEW u \in Calls, at[u] # "answered", NEW stage \in Stages \ {"answered"},
         at' = [at EXCEPT ![u] = stage], HeldStay({}),
         UNCHANGED <<applied, lost, answer, unrolled, inside, faults, retried>>
  PROVE  /\ AtTyped' /\ AnswerTyped' /\ AppliedTyped' /\ PastTyped' /\ AllHonest' /\ AllHeld'
<1>1. AtTyped /\ AnswerTyped /\ AppliedTyped /\ PastTyped /\ AllHonest /\ AllHeld
  BY Parts
<1>2. /\ AtTyped' /\ at'[u] = stage /\ (\A v \in Calls \ {u} : at'[v] = at[v])
  BY <1>1 DEF AtTyped, Stages
<1>3. OthersWait(u) /\ OthersStand(u)
  BY <1>2 DEF OthersWait, OthersStand
<1>4. Honest(u)' /\ ~HeldBy(u)
  BY <1>1, <1>2, NotHeld DEF AllHonest, Honest
<1>5. AllHonest' /\ AllHeld'
  BY <1>1, <1>3, <1>4, OthersStayHonest, OthersStayHeld DEF Aside, HeldStay
<1> QED
  BY <1>1, <1>2, <1>5 DEF AnswerTyped, AppliedTyped, PastTyped

LEMMA StageIs ==
  ASSUME AtTyped, NEW u \in Calls, NEW stage, at' = [at EXCEPT ![u] = stage]
  PROVE  at'[u] = stage /\ \A v \in Calls \ {u} : at'[v] = at[v]
  BY DEF AtTyped

LEMMA AskKeeps ==
  ASSUME IInv, NEW u \in Calls, Ask(u)
  PROVE  IInv'
<1>1. /\ at[u] = "away" /\ at' = [at EXCEPT ![u] = "waiting"] /\ queue' = Append(queue, u)
      /\ UNCHANGED <<conn, retried, applied, lost, answer, unrolled, inside, faults>>
  BY DEF Ask, Wait
<1>2. at'[u] = "waiting" /\ \A v \in Calls \ {u} : at'[v] = at[v]
  BY <1>1, Parts, StageIs
<1>3. PoolSound' /\ HeldStay({})
  BY <1>1, <1>2, Parts, PoolRests DEF Works
<1>4. AtTyped' /\ AnswerTyped' /\ AppliedTyped' /\ PastTyped' /\ AllHonest' /\ AllHeld'
  BY <1>1, <1>3, GoesOn DEF Stages
<1>5. QueueTyped' /\ Queued'
  BY <1>1, <1>2, Parts, QueueGrows
<1> QED
  BY <1>3, <1>4, <1>5, PoolWhole

LEMMA TakeKeeps ==
  ASSUME IInv, NEW u \in Calls, Take(u)
  PROVE  IInv'
<1>1. /\ queue # <<>> /\ u = Head(queue) /\ queue' = Tail(queue) /\ Idle \cup Vacant # {}
      /\ UNCHANGED <<retried, applied, lost, answer, unrolled, inside, faults>>
  BY DEF Take
<1>2. at[u] = "waiting"
  BY <1>1, Parts, FirstLeaves
<1>3. PICK stage \in {"working", "checking"} : at' = [at EXCEPT ![u] = stage]
  BY DEF Take
<1>4. at'[u] = stage /\ \A v \in Calls \ {u} : at'[v] = at[v]
  BY <1>3, Parts, StageIs
<1>5. \E c \in Idle \cup Vacant :
        conn' = [conn EXCEPT ![c].by = u, ![c].state = IF @ = "none" THEN "live" ELSE @]
  <2>1. CASE Idle # {}
    BY <2>1 DEF Take
  <2>2. CASE Idle = {}
    <3>1. FirstVacant \in Vacant
      BY <1>1, <2>2 DEF FirstVacant
    <3> QED
      BY <2>2, <3>1 DEF Take
  <2> QED
    BY <2>1, <2>2
<1>6. PoolSound' /\ HeldStay({})
  BY <1>1, <1>2, <1>3, <1>4, <1>5, Parts, PoolLends
<1>7. AtTyped' /\ AnswerTyped' /\ AppliedTyped' /\ PastTyped' /\ AllHonest' /\ AllHeld'
  BY <1>1, <1>2, <1>3, <1>6, GoesOn DEF Stages
<1>8. QueueTyped' /\ Queued'
  BY <1>1, <1>4, Parts, QueueShrinks
<1> QED
  BY <1>6, <1>7, <1>8, PoolWhole

LEMMA ConnectRefusedKeeps ==
  ASSUME IInv, NEW u \in Calls, ConnectRefused(u)
  PROVE  IInv'
<1>1. /\ queue # <<>> /\ u = Head(queue) /\ Fault
      /\ UNCHANGED <<conn, applied, lost, unrolled, inside>>
  BY DEF ConnectRefused
<1>2. at[u] = "waiting"
  BY <1>1, Parts, FirstLeaves
<1>3. CASE Kind[u] = "query" /\ u \notin retried
  <2>1. /\ retried' = retried \cup {u} /\ queue' = Append(Tail(queue), u) /\ UNCHANGED <<at, answer>>
    BY <1>3 DEF ConnectRefused
  <2>2. QueueTyped' /\ Queued'
    BY <1>1, <2>1, Parts, QueueTurns
  <2>3. PoolSound' /\ HeldStay({})
    BY <1>1, <1>2, <2>1, Parts, PoolRests DEF Works
  <2>4. AllHonest' /\ AllHeld'
    BY <1>1, <2>1, <2>3, Parts DEF AllHonest, Honest, AllHeld, Held, HeldStay
  <2>5. AtTyped' /\ AnswerTyped' /\ AppliedTyped' /\ PastTyped'
    BY <1>1, <2>1, Parts, FaultIs DEF AtTyped, AnswerTyped, AppliedTyped, PastTyped
  <2> QED
    BY <2>2, <2>3, <2>4, <2>5, PoolWhole
<1>4. CASE ~(Kind[u] = "query" /\ u \notin retried)
  <2>1. Answer(u, "failed") /\ queue' = Tail(queue) /\ UNCHANGED retried
    BY <1>4 DEF ConnectRefused
  <2>2. \A v \in Calls \ {u} : at'[v] = at[v]
    BY <2>1, Parts, AnswerIs DEF OthersWait
  <2>3. QueueTyped' /\ Queued'
    BY <1>1, <2>1, <2>2, Parts, QueueShrinks
  <2> QED
    BY <1>1, <1>2, <2>1, <2>3, TurnedAway
<1> QED
  BY <1>3, <1>4

LEMMA WaitTimesOutKeeps ==
  ASSUME IInv, NEW u \in Calls, WaitTimesOut(u)
  PROVE  IInv'
<1>1. PICK i \in DOMAIN queue : queue[i] = u /\ queue' = RemoveAt(queue, i)
  BY DEF WaitTimesOut
<1>2. Answer(u, "failed") /\ UNCHANGED <<conn, retried, applied, lost, unrolled, inside, faults>>
  BY DEF WaitTimesOut
<1>3. \A v \in Calls \ {u} : at'[v] = at[v]
  BY <1>2, Parts, AnswerIs DEF OthersWait
<1>4. QueueTyped' /\ Queued' /\ at[u] = "waiting"
  BY <1>1, <1>3, Parts, QueueLosesOne
<1> QED
  BY <1>2, <1>4, TurnedAway

LEMMA CutKeeps ==
  ASSUME IInv, NEW c \in Conns, Cut(c) \/ IdleError(c)
  PROVE  IInv'
<1>1. /\ UNCHANGED <<queue, at, retried, applied, lost, answer, unrolled, inside>>
      /\ Fault \/ UNCHANGED faults
  BY DEF Cut, IdleError
<1>2. PoolSound /\ FaultsAssumption
  BY Parts
<1>3. PICK r \in Connection :
        /\ conn' = [conn EXCEPT ![c] = r]
        /\ r.by = conn[c].by /\ (r.by # NoOne => r.state # "none")
        /\ r.open = "none" /\ r.held = {} /\ r.left = NoOne
  <2>1. CASE Cut(c)
    <3> DEFINE by == conn[c].by
               r == [Clean EXCEPT !.state = "cut", !.by = by]
    <3>1. by \in Calls \cup {NoOne} /\ conn' = [conn EXCEPT ![c] = r]
      BY <1>2, <2>1, ConnectionIs DEF Cut, PoolSound, ConnTyped
    <3> HIDE DEF by
    <3>2. /\ r \in Connection /\ r.by = by /\ r.state = "cut"
          /\ r.open = "none" /\ r.held = {} /\ r.left = NoOne
      BY <3>1 DEF Clean, Connection
    <3> QED
      BY <3>1, <3>2 DEF by
  <2>2. CASE IdleError(c)
    BY <2>2, CleanIs DEF IdleError, Idle, Destroy
  <2> QED
    BY <2>1, <2>2
<1>4. /\ \A d \in Conns \ {c} : conn[d].by # NoOne => at'[conn[d].by] = at[conn[d].by]
      /\ r.by # NoOne => /\ at'[r.by] \in {"checking", "working"}
                         /\ \A d \in Conns \ {c} : conn[d].by # r.by
  BY <1>1, <1>2, <1>3 DEF PoolSound, FreeIsLeft, OneEach, Works
<1>5. PoolSound' /\ HeldStay(r.held)
  BY <1>1, <1>2, <1>3, <1>4, PoolChanges
<1>6. QueueTyped' /\ AtTyped' /\ AnswerTyped' /\ AppliedTyped' /\ PastTyped'
  BY <1>1, Parts, FaultIs DEF QueueTyped, AtTyped, AnswerTyped, AppliedTyped, PastTyped
<1>7. Queued' /\ AllHonest' /\ AllHeld'
  BY <1>1, <1>3, <1>5, Parts DEF Queued, AllHonest, Honest, AllHeld, Held, HeldStay
<1> QED
  BY <1>5, <1>6, <1>7, PoolWhole

LEMMA ProbeKeeps ==
  ASSUME IInv, NEW u \in Calls, NEW c \in Conns, Probe(u, c)
  PROVE  IInv'
<1>1. /\ at[u] = "checking" /\ Lent(u, c, "live") /\ at' = [at EXCEPT ![u] = "working"]
      /\ UNCHANGED <<queue, retried, applied, lost, answer, unrolled, inside, faults>>
  BY DEF Probe
<1>2. at'[u] = "working" /\ \A v \in Calls \ {u} : at'[v] = at[v]
  BY <1>1, Parts, StageIs
<1>3. conn[c] \in Connection /\ conn[c].by = u /\ conn[c].state = "live" /\ u # NoOne
  BY <1>1, Parts, LentIs DEF ConnTyped
<1> DEFINE r == [conn[c] EXCEPT !.open = "begun"]
<1>4. conn' = [conn EXCEPT ![c] = r]
  BY <1>3, Parts DEF Probe, ConnTyped
<1>5. /\ r \in Connection /\ r.by = u /\ r.state = "live" /\ r.open = "begun"
      /\ r.left = conn[c].left /\ r.held = conn[c].held
  BY <1>3 DEF Connection
<1> HIDE DEF r
<1>6. \A d \in Conns \ {c} : conn[d].by # u /\ (conn[d].by # NoOne => at'[conn[d].by] = at[conn[d].by])
  BY <1>2, <1>3, Parts, OthersHave
<1>7. at'[r.by] \in {"checking", "working"} /\ r.state # "none"
  BY <1>2, <1>5
<1>8. PoolSound' /\ HeldStay(r.held)
  <2>1. PoolSound /\ (r.left # NoOne => r.left \in unrolled')
    BY <1>1, <1>5, Parts DEF PoolSound, LeftTold
  <2>2. Kind[r.by] # "query"
    BY <1>5 DEF Probe
  <2>3. \A d \in Conns \ {c} : conn[d].by # r.by
    BY <1>5, <1>6
  <2>4. unrolled \subseteq unrolled' /\ \A v \in r.held : v \in conn[c].held
    BY <1>1, <1>5
  <2> QED
    BY <1>3, <1>4, <1>5, <1>6, <1>7, <2>1, <2>2, <2>3, <2>4, PoolChanges
<1>9. HeldStay({})
  BY <1>5, <1>8 DEF HeldStay, HeldBy
<1>10. AtTyped' /\ AnswerTyped' /\ AppliedTyped' /\ PastTyped' /\ AllHonest' /\ AllHeld'
  BY <1>1, <1>9, GoesOn DEF Stages
<1>11. QueueTyped' /\ Queued'
  BY <1>1, <1>2, Parts, QueueRests
<1> QED
  BY <1>8, <1>10, <1>11, PoolWhole

\* A call is answered, and its connection goes back in the transaction it was in, with the
\* call as a part of it or not.
LEMMA GivenBackOpen ==
  ASSUME IInv, NEW u \in Calls, NEW c \in Conns, conn[c].by = u, at[u] \in {"checking", "working"},
         NEW r \in Connection, conn' = [conn EXCEPT ![c] = r], r.by = NoOne, r.left # NoOne,
         r.held \subseteq conn[c].held \cup {u},
         NEW what \in {"done", "failed"}, Answer(u, what),
         UNCHANGED <<queue, retried, applied, lost>>, Fault \/ UNCHANGED faults,
         \/ /\ what = "done" /\ Kind[u] = "query" /\ inside' = inside \cup {u}
            /\ r.left = conn[c].left /\ UNCHANGED unrolled
         \/ what = "failed" /\ unrolled' = unrolled \cup {u} /\ r.left = u /\ UNCHANGED inside
  PROVE  IInv'
<1>1. /\ QueueTyped /\ AtTyped /\ AnswerTyped /\ AppliedTyped /\ PastTyped
      /\ Queued /\ PoolSound /\ AllHonest /\ AllHeld /\ FaultsAssumption
  BY Parts
<1>2. AtTyped' /\ AnswerTyped' /\ OthersWait(u) /\ at'[u] = "answered" /\ answer'[u] = what
  BY <1>1, AnswerIs
<1>3. \A v \in Calls \ {u} : at'[v] = at[v]
  BY <1>2 DEF OthersWait
<1>4. Honest(u) /\ ~HeldBy(u)
  BY <1>1, NotHeld DEF AllHonest
<1>5. /\ applied[u] \in {0, 1} /\ (applied[u] = 1 => Kind[u] = "query" /\ u \in lost /\ u \in retried)
      /\ u \notin unrolled
  BY <1>1, <1>4, Unanswered
<1>6. PoolSound' /\ HeldStay(r.held)
  <2>1. unrolled \subseteq unrolled'
    OBVIOUS
  <2>2. \A d \in Conns \ {c} : conn[d].by # NoOne => at'[conn[d].by] = at[conn[d].by]
    BY <1>1, <1>3, OthersHave
  <2>3. r.left \in unrolled' /\ (r.left = conn[c].left \/ r.left \notin unrolled)
    BY <1>1, <1>5 DEF PoolSound, LeftTold
  <2>4. \A v \in r.held : v \in conn[c].held \/ ~HeldBy(v)
    BY <1>4
  <2> QED
    BY <1>1, <2>1, <2>2, <2>3, <2>4, PoolChanges
<1>7. HeldStay({u})
  BY <1>6 DEF HeldStay, HeldBy
<1>8. QueueTyped' /\ Queued'
  BY <1>1, <1>3, QueueRests
<1>9. AppliedTyped' /\ PastTyped' /\ OthersStand(u)
  BY <1>1, FaultIs DEF AppliedTyped, PastTyped, OthersStand
<1>10. Honest(u)' /\ Held(u)'
  BY <1>2, <1>5 DEF Honest, Held
<1>11. AllHonest' /\ AllHeld'
  BY <1>1, <1>2, <1>7, <1>9, <1>10, OthersStayHonest, OthersStayHeld DEF Aside
<1> QED
  BY <1>2, <1>6, <1>8, <1>9, <1>11, PoolWhole

LEMMA InsideKeeps ==
  ASSUME IInv, NEW u \in Calls, NEW c \in Conns, conn[c].by = u, at[u] \in {"checking", "working"},
         StatementInside(u, c), conn[c].left # NoOne
  PROVE  IInv'
<1> DEFINE r == [conn[c] EXCEPT !.by = NoOne, !.held = @ \cup {u}]
<1>1. conn[c] \in Connection /\ conn' = [conn EXCEPT ![c] = r]
  BY Parts DEF StatementInside, ConnTyped
<1>2. /\ r \in Connection /\ r.by = NoOne /\ r.left = conn[c].left
      /\ r.held = conn[c].held \cup {u}
  BY <1>1 DEF Connection
<1> HIDE DEF r
<1> QED
  BY <1>1, <1>2, GivenBackOpen DEF StatementInside

LEMMA LeftOpenKeeps ==
  ASSUME IInv, NEW u \in Calls, NEW c \in Conns, conn[c].by = u, at[u] \in {"checking", "working"},
         TransactionLeftOpen(u, c)
  PROVE  IInv'
<1>1. PICK how \in {"begun", "aborted"} :
        conn' = [conn EXCEPT ![c].by = NoOne, ![c].open = how, ![c].left = u,
                             ![c].held = IF how = "begun" THEN @ \cup {u} ELSE {}]
  BY DEF TransactionLeftOpen
<1> DEFINE held == IF how = "begun" THEN conn[c].held \cup {u} ELSE {}
           r == [conn[c] EXCEPT !.by = NoOne, !.open = how, !.left = u, !.held = held]
<1>2. conn[c] \in Connection /\ conn' = [conn EXCEPT ![c] = r]
  BY <1>1, Parts DEF ConnTyped
<1>3. held \subseteq conn[c].held \cup {u} /\ held \subseteq Calls
  BY <1>2, ConnectionIs
<1> HIDE DEF held
<1>4. r \in Connection /\ r.by = NoOne /\ r.left = u /\ r.held = held
  BY <1>2, <1>3 DEF Connection
<1> HIDE DEF r
<1>5. u # NoOne
  BY FaultsAssumption DEF FaultsAssumption
<1> QED
  BY <1>2, <1>3, <1>4, <1>5, GivenBackOpen DEF TransactionLeftOpen

LEMMA GoneBeforeKeeps ==
  ASSUME IInv, NEW u \in Calls, NEW c \in Conns, conn[c].by = u, at[u] \in {"checking", "working"},
         GoneBefore(u, c)
  PROVE  IInv'
<1>1. Destroy(c) /\ UNCHANGED <<applied, lost, unrolled, inside, faults>>
  BY DEF GoneBefore
<1>2. CASE RetryOnce(u)
  BY <1>1, <1>2, TriedAgain
<1>3. CASE Answer(u, "failed") /\ UNCHANGED <<queue, retried>>
  BY <1>1, <1>3, AnsweredWith
<1> QED
  BY <1>2, <1>3 DEF GoneBefore

\* The steps of a call that has a connection, other than the probe that is answered.
LEMMA WorkKeeps ==
  ASSUME IInv, NEW u \in Calls, NEW c \in Conns,
         \/ Statement(u, c) \/ StatementInside(u, c) \/ Refused(u, c)
         \/ StatementFails(u, c) \/ StatementUnsent(u, c) \/ StatementUnanswered(u, c)
         \/ ProbeUnsent(u, c) \/ ProbeFails(u, c)
         \/ Commit(u, c) \/ TransactionFails(u, c) \/ TransactionLeftOpen(u, c)
         \/ TransactionCut(u, c) \/ CommitUnanswered(u, c)
  PROVE  IInv'
<1>1. conn[c].by = u /\ at[u] \in {"checking", "working"}
  <2>1. \E state : Lent(u, c, state)
    BY DEF Statement, StatementInside, Refused, StatementFails, StatementUnsent, StatementUnanswered,
           GoneBefore, ProbeUnsent, ProbeFails, Commit, TransactionFails, TransactionLeftOpen,
           TransactionCut, CommitUnanswered
  <2> QED
    BY <2>1, Parts, LentIs
<1>2. CASE Statement(u, c)
  BY <1>1, <1>2, AnsweredWith DEF Statement
<1>3. CASE StatementFails(u, c)
  BY <1>1, <1>3, AnsweredWith DEF StatementFails
<1>4. CASE StatementUnsent(u, c) \/ ProbeUnsent(u, c)
  BY <1>1, <1>4, GoneBeforeKeeps DEF StatementUnsent, ProbeUnsent
<1>5. CASE StatementUnanswered(u, c)
  BY <1>1, <1>5, TriedAgain DEF StatementUnanswered
<1>6. CASE StatementInside(u, c)
  <2>1. conn[c].left # NoOne
    BY <1>1, <1>6, Parts DEF StatementInside, PoolSound, FreeIsLeft
  <2> QED
    BY <1>1, <1>6, <2>1, InsideKeeps
<1>7. CASE ProbeFails(u, c)
  BY <1>1, <1>7, AnsweredWith DEF ProbeFails
<1>8. CASE Commit(u, c)
  BY <1>1, <1>8, CommittedWith DEF Commit, InTransaction
<1>9. CASE TransactionFails(u, c)
  BY <1>1, <1>9, AnsweredWith DEF TransactionFails
<1>10. CASE TransactionCut(u, c)
  BY <1>1, <1>10, AnsweredWith DEF TransactionCut
<1>11. CASE CommitUnanswered(u, c)
  BY <1>1, <1>11, CommittedWith DEF CommitUnanswered, InTransaction
<1>12. CASE Refused(u, c)
  BY <1>1, <1>12, AnsweredWith DEF Refused
<1>13. CASE TransactionLeftOpen(u, c)
  BY <1>1, <1>13, LeftOpenKeeps
<1> QED
  BY <1>2, <1>3, <1>4, <1>5, <1>6, <1>7, <1>8, <1>9, <1>10, <1>11, <1>12, <1>13

-----------------------------------------------------------------------------
(* The theorems.                                                           *)

LEMMA IInvInit == Init => IInv
<1> SUFFICES ASSUME Init PROVE IInv
  OBVIOUS
<1>1. TypeOK
  BY EmptySeq, CleanIs, FaultsAssumption DEF Init, TypeOK, Stages, FaultsAssumption
<1>2. DOMAIN queue = {}
  BY EmptySeq, LenProperties DEF Init
<1>3. Queued
  BY <1>2 DEF Queued
<1>4. PoolSound
  <2>1. \A c \in Conns : /\ conn[c] \in Connection /\ conn[c].by = NoOne /\ conn[c].open = "none"
                        /\ conn[c].held = {} /\ conn[c].left = NoOne
    BY CleanIs DEF Init
  <2> QED
    BY <1>1, <2>1, TypedParts
    DEF PoolSound, OneEach, FreeIsLeft, LeftTold, LeftOnce, HeldOnce
<1>5. AllHonest /\ AllHeld
  BY CleanIs DEF Init, AllHonest, Honest, AllHeld, HeldBy
<1> QED
  BY <1>1, <1>3, <1>4, <1>5 DEF IInv

LEMMA IInvStep == IInv /\ [Next]_vars => IInv'
<1> SUFFICES ASSUME IInv, [Next]_vars PROVE IInv'
  OBVIOUS
<1>1. ASSUME NEW u \in Calls,
             Ask(u) \/ Take(u) \/ ConnectRefused(u) \/ WaitTimesOut(u) \/ Proceed(u) \/ Fail(u)
      PROVE  IInv'
  <2>1. CASE Ask(u) \/ Take(u) \/ ConnectRefused(u) \/ WaitTimesOut(u)
    BY <2>1, AskKeeps, TakeKeeps, ConnectRefusedKeeps, WaitTimesOutKeeps
  <2>2. CASE Proceed(u)
    BY <2>2, ProbeKeeps, WorkKeeps DEF Proceed
  <2>3. CASE Fail(u)
    BY <2>3, WorkKeeps DEF Fail
  <2> QED
    BY <1>1, <2>1, <2>2, <2>3
<1>2. ASSUME NEW c \in Conns, Cut(c) \/ IdleError(c) PROVE IInv'
  BY <1>2, CutKeeps
<1>3. CASE UNCHANGED vars
  <2>1. TypeOK' /\ Queued'
    BY <1>3 DEF vars, IInv, TypeOK, Queued
  <2>2. PoolSound'
    BY <1>3 DEF vars, IInv, PoolSound, ConnTyped, OneEach, FreeIsLeft, LeftTold, LeftOnce, HeldOnce,
                Works
  <2>3. AllHonest' /\ AllHeld'
    BY <1>3 DEF vars, IInv, AllHonest, Honest, AllHeld, Held, HeldBy
  <2> QED
    BY <2>1, <2>2, <2>3 DEF IInv
<1> QED
  BY <1>1, <1>2, <1>3 DEF Next

\* A connection in the pool belongs to nobody, and is in no transaction unless a call that
\* was told "failed" has left it there, because its ROLLBACK was never sent; and who was
\* answered, or still waits, holds none: withClient and query give back or close the
\* connection on every path.
THEOREM PoolStaysSound == Spec => []PoolIsSound
<1>1. IInv => PoolIsSound
  <2> SUFFICES ASSUME IInv PROVE PoolIsSound
    OBVIOUS
  <2>1. \A c \in Conns : conn[c].left # NoOne =>
          conn[c].left \in unrolled /\ answer[conn[c].left] = "failed"
    <3>1. TAKE c \in Conns
    <3>2. HAVE conn[c].left # NoOne
    <3>3. conn[c].left \in Calls /\ conn[c].left \in unrolled
      BY <3>2, Parts, ConnectionIs DEF ConnTyped, PoolSound, LeftTold
    <3> QED
      BY <3>3, Parts DEF AllHonest, Honest
  <2> QED
    BY <2>1 DEF IInv, PoolSound, FreeIsLeft, LeftOnce, Works, PoolIsSound, FreeIsClean
<1> QED
  BY IInvInit, IInvStep, <1>1, PTL DEF Spec

\* "done" means committed but for a statement in a transaction that was left open, "failed"
\* means not committed unless the answer was lost or the transaction was left open, and
\* only a statement whose answer was lost is ever committed twice.
THEOREM AnswersAreHonest == Spec => []AppliedAsAnswered
<1>1. IInv => AppliedAsAnswered
  BY DEF IInv, AppliedAsAnswered, AllHonest, Honest
<1> QED
  BY IInvInit, IInvStep, <1>1, PTL DEF Spec


-----------------------------------------------------------------------------
(* Hosting: the targets of one project and the requests about them.        *)

\* What a request has left to do, by its kind, and at which steps it is.
Creates == {"provision", "create", "register"}
Todos(ask) ==
  CASE ask = "provision" -> {<<"render">>, <<"vercel">>, <<"render", "vercel">>}
    [] ask = "link" -> {<<"render", "vercel">>, <<"vercel">>}
    [] OTHER -> {<<"render">>, <<"vercel">>}
StepsOf(ask) ==
  CASE ask = "provision" -> {"admit", "create", "insert", "secretId", "secretUrl", "record", "envRead",
                             "envWrite", "envRecord"}
    [] ask \in {"create", "register"} -> {"admit", "create", "insert"}
    [] ask \in {"link", "set", "unset"} -> {"envRead", "envWrite", "envRecord"}
    [] ask = "sync" -> {"status", "metadata"}
    [] ask \in {"detach", "delete"} -> {"destroy", "drop"}
    [] OTHER -> {}
Over(v) == v.pc \in {"idle", "done"}
Lists == {<<>>, <<"render">>, <<"vercel">>, <<"render", "vercel">>}
ASession ==
  [pc : Steps, ask : Kinds \cup {"none", "link"}, asked : SUBSET Providers, todo : Lists,
   row : Rows \cup {Absent}, on : Resources \cup {Absent}, read : Metadata,
   env : [Keys -> Values], count : Nat, wants : SUBSET Keys,
   said : {"none", "deleted", "error", "kept"},
   report : [Providers -> Rows \cup {Absent, "failed"}]]
SessionTyped(v) ==
  /\ v \in ASession
  /\ ~Over(v) => v.pc \in StepsOf(v.ask) /\ v.todo \in Todos(v.ask)

\* A request that is about a row: the row was inserted, and its resource is the request's.
Before == {"admit", "create", "insert"}
Placed(v, rows, res) ==
  /\ ~Over(v) /\ v.pc \notin Before =>
       /\ v.row \in Rows /\ rows[v.row].state # "none"
       /\ ~(v.ask = "link" /\ v.pc = "envRead") => v.on = rows[v.row].resource
  /\ v.pc = "insert" => v.on \in Resources /\ res[v.on].state # "none"
  /\ v.pc \in {"create", "insert"} => v.count + 1 <= Limit

\* A detach that has got the answer "deleted".
DetachAnswer(v, res, team) ==
  v.pc = "drop" /\ v.said = "deleted" =>
    res[v.on].state # "live" \/ (Head(v.todo) = "vercel" /\ Byo /\ team)

\* What a provisioning has reported is so, and what it has put by its last step; what it
\* was asked for it has reported, or has still to do.
Whole(sec, p, r) == sec[p] = [id |-> r, url |-> r]
InTodo(v) == {v.todo[n] : n \in DOMAIN v.todo}
Reported(v, rows, sec) ==
  /\ v.ask \notin {"provision", "link"} => v.report = Nothing /\ v.asked = {}
  /\ \A p \in Providers : v.report[p] \in Rows =>
       rows[v.report[p]].state # "none" /\ Whole(sec, p, rows[v.report[p]].resource)
  /\ v.ask = "provision" /\ ~Over(v) => \A p \in InTodo(v) : v.report[p] = Absent
  /\ \A p \in v.asked : v.report[p] # Absent \/ (v.ask = "provision" /\ ~Over(v) /\ p \in InTodo(v))
  /\ v.ask = "link" => \A p \in Providers : v.report[p] \in Rows
  /\ v.pc = "secretUrl" => Head(v.todo) = "render" /\ sec["render"].id = v.on
  /\ v.ask = "provision" /\ v.pc \in {"record", "envRead", "envWrite", "envRecord"} =>
       Whole(sec, Head(v.todo), v.on)

Sound(v, rows, res, sec, team) ==
  SessionTyped(v) /\ Placed(v, rows, res) /\ DetachAnswer(v, res, team) /\ Reported(v, rows, sec)

SessionsSound == \A s \in Sessions : Sound(session[s], row, resource, secret, connection.team)

\* A row names the resource it was inserted for, which is there or was.
RowsSound ==
  \A i \in Rows :
    IF row[i].state = "none" THEN row[i] = Empty
    ELSE row[i].resource \in Resources /\ resource[row[i].resource].state # "none"

\* A project is provisioned once.
OneProvision ==
  /\ \A s, t \in Sessions : Provisions(s) /\ Provisions(t) => s = t
  /\ project = "new" => \A s \in Sessions : ~Provisions(s)

\* Whoever is let in finds an id to insert.
Pending == {s \in Sessions : session[s].pc \in {"create", "insert"}}
RoomLeft == Cardinality(Pending) <= Cardinality(Unused)

HostingIInv == HostingTypeOK /\ SessionsSound /\ RowsSound /\ OneProvision /\ RoomLeft

-----------------------------------------------------------------------------
(* How a request goes on.                                                  *)

LEMMA ListFacts ==
  /\ Tail(<<"render">>) = <<>> /\ Tail(<<"vercel">>) = <<>> /\ Tail(<<"render", "vercel">>) = <<"vercel">>
  /\ Head(<<"render">>) = "render" /\ Head(<<"vercel">>) = "vercel"
  /\ Head(<<"render", "vercel">>) = "render"
  /\ <<"render">> # <<>> /\ <<"vercel">> # <<>> /\ <<"render", "vercel">> # <<>>
  /\ <<"render">> # <<"vercel">> /\ <<"render">> # <<"render", "vercel">>
  /\ <<"vercel">> # <<"render", "vercel">>
  /\ Lists \subseteq Seq(Providers)
  BY DEF Lists, Providers

LEMMA InLists ==
  ASSUME NEW v
  PROVE  /\ v.todo = <<>> => InTodo(v) = {}
         /\ v.todo = <<"render">> => InTodo(v) = {"render"}
         /\ v.todo = <<"vercel">> => InTodo(v) = {"vercel"}
         /\ v.todo = <<"render", "vercel">> => InTodo(v) = {"render", "vercel"}
<1>1. DOMAIN <<>> = {} /\ DOMAIN <<"render">> = {1} /\ DOMAIN <<"vercel">> = {1}
      /\ DOMAIN <<"render", "vercel">> = {1, 2}
  OBVIOUS
<1>2. CASE v.todo = <<>>
  BY <1>1, <1>2, ListFacts DEF InTodo
<1>3. CASE v.todo = <<"render">>
  BY <1>1, <1>3, ListFacts DEF InTodo
<1>4. CASE v.todo = <<"vercel">>
  BY <1>1, <1>4, ListFacts DEF InTodo
<1>5. CASE v.todo = <<"render", "vercel">>
  <2>1. v.todo[1] = "render" /\ v.todo[2] = "vercel" /\ DOMAIN v.todo = {1, 2}
    BY <1>1, <1>5
  <2> QED
    BY <1>5, <2>1, ListFacts DEF InTodo
<1> QED
  BY <1>2, <1>3, <1>4, <1>5

LEMMA NothingFacts ==
  /\ Nothing \in [Providers -> Rows \cup {Absent, "failed"}]
  /\ \A p \in Providers : Nothing[p] = Absent
  /\ Bare \in [Keys -> Values] /\ Empty.metadata \in Metadata
  /\ Providers = {"render", "vercel"}
  BY DEF Nothing, Bare, Values, Empty, Metadata, Providers

LEMMA IdleIs ==
  IdleSession = [pc |-> "idle", ask |-> "none", asked |-> {}, todo |-> <<>>, row |-> Absent, on |-> Absent,
                 read |-> Empty.metadata, env |-> Bare, count |-> 0, wants |-> {},
                 said |-> "none", report |-> Nothing]
  BY DEF IdleSession

LEMMA EndedIs ==
  ASSUME NEW v
  PROVE  Ended(v) = [pc |-> "done", ask |-> v.ask, asked |-> v.asked, todo |-> <<>>, row |-> Absent,
                     on |-> Absent, read |-> Empty.metadata, env |-> Bare, count |-> 0,
                     wants |-> {}, said |-> "none", report |-> v.report]
<1>1. Ended(v) = [IdleSession EXCEPT !.pc = "done", !.ask = v.ask, !.asked = v.asked, !.report = v.report]
  BY DEF Ended
<1> QED
  BY <1>1, IdleIs

\* A request that is over is sound when its report is.
LEMMA EndedSound ==
  ASSUME NEW v, NEW rows, NEW res, NEW sec, NEW team,
         v.ask \in Kinds \cup {"none", "link"}, v.asked \in SUBSET Providers,
         v.report \in [Providers -> Rows \cup {Absent, "failed"}],
         v.ask \notin {"provision", "link"} => v.report = Nothing /\ v.asked = {},
         \A p \in Providers : v.report[p] \in Rows =>
           rows[v.report[p]].state # "none" /\ Whole(sec, p, rows[v.report[p]].resource),
         \A p \in v.asked : v.report[p] # Absent,
         v.ask = "link" => \A p \in Providers : v.report[p] \in Rows
  PROVE  Sound(Ended(v), rows, res, sec, team)
<1> DEFINE w == Ended(v)
<1>1. /\ w.pc = "done" /\ w.ask = v.ask /\ w.asked = v.asked /\ w.report = v.report
      /\ w \in ASession
  BY EndedIs, NothingFacts DEF ASession, Steps, Lists
<1> HIDE DEF w
<1>2. SessionTyped(w) /\ Placed(w, rows, res) /\ DetachAnswer(w, res, team)
  BY <1>1 DEF SessionTyped, Over, Placed, DetachAnswer
<1>3. Reported(w, rows, sec)
  BY <1>1 DEF Reported, Over
<1> QED
  BY <1>2, <1>3 DEF Sound, w

\* A request that goes on to its next target, or ends, with an outcome that is so.
LEMMA OnwardSound ==
  ASSUME NEW v, NEW rows, NEW res, NEW sec, NEW team,
         NEW outcome \in Rows \cup {"failed"}, SessionTyped(v), ~Over(v), Reported(v, rows, sec),
         v.ask = "provision" /\ outcome \in Rows =>
           rows[outcome].state # "none" /\ Whole(sec, Head(v.todo), rows[outcome].resource)
  PROVE  /\ Sound(Onward(v, outcome), rows, res, sec, team)
         /\ Onward(v, outcome).pc \notin {"create", "insert"}
         /\ Onward(v, outcome).ask \in {"provision", "link"} => v.ask \in {"provision", "link"}
<1> DEFINE told == IF v.ask = "provision" THEN [v EXCEPT !.report[Head(v.todo)] = outcome] ELSE v
           rest == [told EXCEPT !.todo = Tail(@)]
           next == [IdleSession EXCEPT !.pc = "admit", !.ask = v.ask, !.asked = v.asked, !.todo = rest.todo,
                                       !.wants = v.wants, !.report = rest.report]
<1>1. /\ v \in ASession /\ v.pc \in StepsOf(v.ask) /\ v.todo \in Todos(v.ask)
      /\ v.todo \in {<<"render">>, <<"vercel">>, <<"render", "vercel">>}
  BY DEF SessionTyped, Todos
<1>2. Head(v.todo) \in Providers /\ Tail(v.todo) \in Lists
  BY <1>1, ListFacts, NothingFacts DEF Lists
<1>3. /\ told \in ASession /\ told.todo = v.todo /\ told.ask = v.ask /\ told.asked = v.asked
      /\ told.wants = v.wants
      /\ v.ask # "provision" => told = v
      /\ v.ask = "provision" => told.report = [v.report EXCEPT ![Head(v.todo)] = outcome]
  BY <1>1, <1>2 DEF ASession
<1>4. /\ rest \in ASession /\ rest.todo = Tail(v.todo) /\ rest.ask = v.ask /\ rest.asked = v.asked
      /\ rest.wants = v.wants /\ rest.report = told.report /\ rest.report = told.report
  <2> HIDE DEF told
  <2> QED
    BY <1>2, <1>3 DEF ASession
<1>5. /\ v.asked \in SUBSET Providers /\ v.ask \in Kinds \cup {"none", "link"}
      /\ v.report \in [Providers -> Rows \cup {Absent, "failed"}]
      /\ rest.report \in [Providers -> Rows \cup {Absent, "failed"}]
  <2> HIDE DEF rest
  <2> QED
    BY <1>1, <1>4 DEF ASession
<1>6. Onward(v, outcome) =
        CASE v.ask \notin {"provision", "link"} -> Ended(rest)
          [] rest.todo # <<>> /\ v.ask = "provision" -> next
          [] rest.todo # <<>> /\ v.ask = "link" -> [rest EXCEPT !.pc = "envRead", !.row = rest.report[Head(rest.todo)]]
          [] rest.todo = <<>> /\ v.ask = "provision" /\ Links(rest) /\ LinkKey \notin rest.wants -> LinkPass(rest)
          [] OTHER -> Ended(rest)
  BY DEF Onward
<1>7. outcome # Absent
  BY HostingAssumption
<1>8. \A p \in Providers : rest.report[p] \in Rows =>
        rows[rest.report[p]].state # "none" /\ Whole(sec, p, rows[rest.report[p]].resource)
  <2> HIDE DEF rest, told
  <2> QED
    BY <1>2, <1>3, <1>4, <1>5, HostingAssumption DEF Reported
<1>9. /\ v.ask = "provision" => /\ rest.report[Head(v.todo)] # Absent
                                /\ \A p \in Providers \ {Head(v.todo)} : rest.report[p] = v.report[p]
      /\ v.ask # "provision" => rest.report = v.report
  <2> HIDE DEF rest, told
  <2> QED
    BY <1>2, <1>3, <1>4, <1>5, <1>7
<1> HIDE DEF told, rest
<1>10. ASSUME v.ask \notin {"provision", "link"} \/ rest.todo = <<>> \/ v.ask = "link"
       PROVE  \A p \in v.asked : rest.report[p] # Absent
  <2>1. CASE v.ask # "provision"
    BY <2>1, <1>9 DEF Reported
  <2>2. CASE v.ask = "provision"
    <3>1. InTodo(v) \subseteq {Head(v.todo)}
      BY <1>1, <1>4, <1>10, <2>2, ListFacts, InLists
    <3> QED
      BY <1>5, <1>9, <2>2, <3>1 DEF Reported
  <2> QED
    BY <2>1, <2>2
<1>11. \A p \in v.asked : rest.report[p] # Absent \/ (v.ask = "provision" /\ p \in InTodo(rest))
  <2>1. CASE v.ask # "provision"
    BY <2>1, <1>9 DEF Reported
  <2>2. CASE v.ask = "provision"
    <3>1. InTodo(v) \subseteq {Head(v.todo)} \cup InTodo(rest)
      BY <1>1, <1>4, ListFacts, InLists
    <3> QED
      BY <1>5, <1>9, <2>2, <3>1 DEF Reported
  <2> QED
    BY <2>1, <2>2
<1>12. \A p \in InTodo(rest) : v.ask = "provision" => rest.report[p] = Absent
  <2> SUFFICES ASSUME NEW p \in InTodo(rest), v.ask = "provision" PROVE rest.report[p] = Absent
    OBVIOUS
  <2>1. p \in InTodo(v) /\ p # Head(v.todo) /\ p \in Providers
    <3>1. v.todo # <<"render">> /\ v.todo # <<"vercel">>
      BY <1>4, ListFacts, InLists
    <3>2. v.todo = <<"render", "vercel">>
      BY <1>1, <3>1
    <3>3. InTodo(rest) = {"vercel"} /\ InTodo(v) = {"render", "vercel"} /\ Head(v.todo) = "render"
      BY <1>4, <3>2, ListFacts, InLists
    <3> QED
      BY <3>3, NothingFacts
  <2> QED
    BY <2>1, <1>9 DEF Reported
<1>13. CASE Onward(v, outcome) = Ended(rest) /\ (v.ask \notin {"provision", "link"} \/ rest.todo = <<>> \/ v.ask = "link")
  <2>1. rest.ask \notin {"provision", "link"} => rest.report = Nothing /\ rest.asked = {}
    BY <1>4, <1>9 DEF Reported
  <2>2. rest.ask = "link" => \A p \in Providers : rest.report[p] \in Rows
    BY <1>4, <1>9 DEF Reported
  <2>3. Sound(Ended(rest), rows, res, sec, team)
    BY <1>4, <1>5, <1>8, <1>10, <1>13, <2>1, <2>2, EndedSound
  <2>4. Ended(rest).pc = "done" /\ Ended(rest).ask = v.ask
    BY <1>4, EndedIs
  <2> QED
    BY <1>13, <2>3, <2>4
<1>14. CASE Onward(v, outcome) = next /\ rest.todo # <<>> /\ v.ask = "provision"
  <2>1. /\ next.pc = "admit" /\ next.ask = "provision" /\ next.asked = v.asked /\ next.todo = rest.todo
        /\ next.report = rest.report /\ next.said = "none" /\ next \in ASession
    <3>1. v.wants \in SUBSET Keys /\ rest.todo \in Lists
      BY <1>1, <1>4 DEF ASession
    <3> QED
      BY <1>5, <1>14, <3>1, NothingFacts DEF IdleSession, ASession, Steps, Kinds
  <2>2. rest.todo \in Todos("provision") /\ "admit" \in StepsOf("provision")
    <3>1. rest.todo = <<"vercel">>
      BY <1>1, <1>4, <1>14, ListFacts
    <3> QED
      BY <3>1 DEF Todos, StepsOf
  <2> DEFINE w == next
  <2>3. InTodo(w) = InTodo(rest)
    BY <2>1 DEF InTodo
  <2> HIDE DEF w
  <2>4. SessionTyped(w) /\ Placed(w, rows, res) /\ DetachAnswer(w, res, team)
    BY <2>1, <2>2 DEF w, SessionTyped, Over, Placed, DetachAnswer, Before
  <2>5. Reported(w, rows, sec)
    BY <2>1, <2>3, <1>8, <1>11, <1>12, <1>14 DEF w, Reported, Over
  <2> QED
    BY <1>14, <2>1, <2>4, <2>5 DEF Sound, w
<1>15. CASE /\ Onward(v, outcome) = [rest EXCEPT !.pc = "envRead", !.row = rest.report[Head(rest.todo)]]
            /\ v.ask = "link" /\ rest.todo # <<>>
  <2> DEFINE w == [rest EXCEPT !.pc = "envRead", !.row = rest.report[Head(rest.todo)]]
  <2>0. v.todo \in {<<"render", "vercel">>, <<"vercel">>}
    BY <1>1, <1>15 DEF Todos
  <2>1. rest.todo = <<"vercel">> /\ Head(rest.todo) \in Providers
    <3>1. rest.todo = Tail(v.todo) /\ rest.todo # <<>>
      BY <1>4, <1>15
    <3>2. CASE v.todo = <<"render", "vercel">>
      <4>1. rest.todo = <<"vercel">>
        BY <3>1, <3>2, ListFacts
      <4>2. Head(rest.todo) = "vercel"
        BY <4>1
      <4> QED
        BY <4>1, <4>2, NothingFacts
    <3>3. CASE v.todo = <<"vercel">>
      BY <3>1, <3>3, ListFacts
    <3> QED
      BY <2>0, <3>2, <3>3
  <2>2. rest.report[Head(rest.todo)] \in Rows
    BY <2>1, <1>9, <1>15 DEF Reported
  <2>3. /\ w.pc = "envRead" /\ w.ask = "link" /\ w.asked = v.asked /\ w.todo = rest.todo
        /\ w.report = rest.report /\ w.row = rest.report[Head(rest.todo)] /\ w \in ASession
    BY <1>4, <1>15, <2>2 DEF ASession, Steps
  <2> HIDE DEF w
  <2>4. SessionTyped(w)
    BY <2>1, <2>3 DEF SessionTyped, Todos, StepsOf
  <2>5. Placed(w, rows, res) /\ DetachAnswer(w, res, team)
    BY <2>1, <2>2, <2>3, <1>8 DEF Placed, DetachAnswer, Over
  <2>6. Reported(w, rows, sec)
    BY <2>1, <2>3, <1>8, <1>9, <1>11, <1>15 DEF Reported, Over
  <2> QED
    BY <1>15, <2>3, <2>4, <2>5, <2>6 DEF Sound, w
<1>16. CASE /\ Onward(v, outcome) = LinkPass(rest) /\ Links(rest)
            /\ v.ask = "provision" /\ rest.todo = <<>>
  <2> DEFINE w == LinkPass(rest)
  <2>1. \A p \in Providers : rest.report[p] \in Rows
    BY <1>16 DEF Links
  <2>2. rest.report["render"] \in Rows
    BY <2>1, NothingFacts
  <2>3. /\ w.pc = "envRead" /\ w.ask = "link" /\ w.asked = v.asked /\ w.todo = <<"render", "vercel">>
        /\ w.report = rest.report /\ w.row = rest.report["render"] /\ w \in ASession
    BY <1>4, <2>2 DEF LinkPass, ASession, Steps, Lists
  <2> HIDE DEF w
  <2>4. SessionTyped(w)
    BY <2>3 DEF SessionTyped, Todos, StepsOf
  <2>5. Placed(w, rows, res) /\ DetachAnswer(w, res, team)
    BY <2>2, <2>3, <1>8, NothingFacts DEF Placed, DetachAnswer, Over
  <2>6. Reported(w, rows, sec)
    BY <2>1, <2>3, <1>5, <1>8, <1>10, <1>16, NothingFacts DEF Reported, Over
  <2> QED
    BY <1>16, <2>3, <2>4, <2>5, <2>6 DEF Sound, w
<1> QED
  BY <1>6, <1>13, <1>14, <1>15, <1>16

-----------------------------------------------------------------------------
(* What a step of one request leaves of the others.                        *)

TablesTyped ==
  /\ resource \in [Resources -> Resource]
  /\ row \in [Rows -> Row]
  /\ project \in {"new", "provisioned", "gone"}
  /\ connection \in [active : BOOLEAN, team : BOOLEAN]
  /\ secret \in [Providers -> [id : Resources \cup {Absent}, url : Resources \cup {Absent}]]
  /\ targetFaults \in 0..MaxTargetFaults
RequestsTyped == session \in [Sessions -> ASession]

\* Rows and resources stay, and what is gone does not come back.
Grows(rows, rows2, res, res2) ==
  /\ \A i \in Rows : rows[i].state # "none" =>
       rows2[i].state # "none" /\ rows2[i].resource = rows[i].resource
  /\ \A r \in Resources : res[r].state # "none" =>
       res2[r].state # "none" /\ (res[r].state # "live" => res2[r].state # "live")

Placing(rows, res) ==
  \A i \in Rows : IF rows[i].state = "none" THEN rows[i] = Empty
                  ELSE rows[i].resource \in Resources /\ res[rows[i].resource].state # "none"

LEMMA HostingParts ==
  HostingIInv <=> TablesTyped /\ RequestsTyped /\ SessionsSound /\ RowsSound /\ OneProvision /\ RoomLeft
<1>1. ASession \subseteq Session
  BY ListFacts DEF ASession, Session
<1>2. HostingIInv => RequestsTyped
  BY DEF HostingIInv, HostingTypeOK, RequestsTyped, SessionsSound, Sound, SessionTyped
<1>3. RequestsTyped => session \in [Sessions -> Session]
  BY <1>1 DEF RequestsTyped
<1> QED
  BY <1>2, <1>3 DEF HostingIInv, HostingTypeOK, TablesTyped

LEMMA SoundRests ==
  ASSUME NEW v, NEW rows, NEW res, NEW sec, NEW team,
         NEW rows2, NEW res2, NEW sec2, Sound(v, rows, res, sec, team), Placing(rows, res), Grows(rows, rows2, res, res2),
         sec2 = sec \/ v.ask \notin {"provision", "link"}
  PROVE  Sound(v, rows2, res2, sec2, team)
<1>1. SessionTyped(v) /\ Placed(v, rows, res) /\ DetachAnswer(v, res, team) /\ Reported(v, rows, sec)
  BY DEF Sound
<1>2. Placed(v, rows2, res2)
  BY <1>1 DEF Placed, Grows
<1>3. DetachAnswer(v, res2, team)
  <2> SUFFICES ASSUME v.pc = "drop", v.said = "deleted", res[v.on].state # "live"
               PROVE  res2[v.on].state # "live"
    BY <1>1 DEF DetachAnswer
  <2>1. ~Over(v) /\ v.pc \notin Before /\ v.pc # "envRead"
    BY DEF Over, Before
  <2>2. v.row \in Rows /\ rows[v.row].state # "none" /\ v.on = rows[v.row].resource
    BY <1>1, <2>1 DEF Placed
  <2> QED
    BY <2>2 DEF Placing, Grows
<1>4. Reported(v, rows2, sec2)
  <2>0. v.report \in [Providers -> Rows \cup {Absent, "failed"}] /\ v.asked \in SUBSET Providers
    BY <1>1 DEF SessionTyped, ASession
  <2>1. CASE sec2 = sec
    BY <1>1, <2>0, <2>1 DEF Reported, Grows
  <2>2. CASE v.ask \notin {"provision", "link"}
    <3>1. v.pc # "secretUrl"
      <4> SUFFICES ASSUME v.pc = "secretUrl" PROVE FALSE
        OBVIOUS
      <4>1. v.pc \in StepsOf(v.ask)
        BY <1>1 DEF SessionTyped, Over
      <4> QED
        BY <4>1, <2>2 DEF StepsOf
    <3>2. v.report = Nothing /\ v.asked = {}
      BY <1>1, <2>2 DEF Reported
    <3>3. \A p \in Providers : v.report[p] \in Rows =>
            rows2[v.report[p]].state # "none" /\ Whole(sec2, p, rows2[v.report[p]].resource)
      <4> SUFFICES ASSUME NEW p \in Providers, v.report[p] \in Rows PROVE FALSE
        OBVIOUS
      <4> QED
        BY <3>2, NothingFacts, HostingAssumption
    <3> QED
      BY <2>2, <3>1, <3>2, <3>3 DEF Reported
  <2> QED
    BY <2>1, <2>2
<1> QED
  BY <1>1, <1>2, <1>3, <1>4 DEF Sound

-----------------------------------------------------------------------------
\* What most steps leave alone, or change in the one way that the others bear.
Frame(s) ==
  /\ Grows(row, row', resource, resource')
  /\ \/ Unused' = Unused
     \/ session[s].pc = "insert" /\ \E i \in Unused : Unused' = Unused \ {i}
  /\ connection' = connection /\ project' = project
  /\ secret' = secret \/ Provisions(s)
  /\ TablesTyped' /\ RowsSound'

LEMMA PendingFinite ==
  /\ IsFiniteSet(Pending) /\ Cardinality(Pending) \in Nat
  /\ IsFiniteSet(Unused) /\ Cardinality(Unused) \in Nat
<1>1. IsFiniteSet(Rows) /\ IsFiniteSet(Sessions)
  BY HostingAssumption
<1>2. Pending \subseteq Sessions /\ Unused \subseteq Rows
  BY DEF Pending, Unused
<1> QED
  BY <1>1, <1>2, FS_Subset, FS_CardinalityType

\* What a request becomes, if sound, leaves the requests sound.
LEMMA SessionStep ==
  ASSUME HostingIInv, NEW s \in Sessions, NEW w,
         session' = [session EXCEPT ![s] = w],
         Sound(w, row', resource', secret', connection'.team),
         Grows(row, row', resource, resource'), connection' = connection,
         secret' = secret \/ Provisions(s)
  PROVE  SessionsSound' /\ RequestsTyped' /\ session'[s] = w
<1>1. RequestsTyped /\ SessionsSound /\ RowsSound /\ OneProvision
  BY HostingParts
<1>2. session'[s] = w /\ \A t \in Sessions \ {s} : session'[t] = session[t]
  BY <1>1 DEF RequestsTyped
<1>3. Placing(row, resource)
  BY <1>1 DEF RowsSound, Placing
<1>4. ASSUME NEW t \in Sessions \ {s}
      PROVE  Sound(session[t], row', resource', secret', connection'.team)
  <2>1. Sound(session[t], row, resource, secret, connection'.team)
    BY <1>1, <1>4 DEF SessionsSound
  <2>2. secret' = secret \/ session[t].ask \notin {"provision", "link"}
    BY <1>1, <1>4 DEF OneProvision, Provisions
  <2> HIDE <1>4
  <2> QED
    BY <1>3, <2>1, <2>2, SoundRests
<1>5. SessionsSound'
  BY <1>2, <1>4 DEF SessionsSound
<1>6. w \in ASession
  BY DEF Sound, SessionTyped
<1> QED
  BY <1>1, <1>2, <1>5, <1>6 DEF RequestsTyped

LEMMA RoomKept ==
  ASSUME HostingIInv, NEW s \in Sessions, NEW w,
         session' = [session EXCEPT ![s] = w],
         \/ Unused' = Unused
         \/ session[s].pc = "insert" /\ \E i \in Unused : Unused' = Unused \ {i},
         w.pc \in {"create", "insert"} => s \in Pending /\ Unused' = Unused
  PROVE  RoomLeft'
<1>1. RequestsTyped /\ RoomLeft
  BY HostingParts
<1>2. Pending' \subseteq Pending /\ (w.pc \notin {"create", "insert"} => Pending' \subseteq Pending \ {s})
  BY <1>1 DEF Pending, RequestsTyped
<1>3. CASE Unused' = Unused
  <2>1. Cardinality(Pending') <= Cardinality(Pending) /\ Cardinality(Pending') \in Nat
    BY <1>2, PendingFinite, FS_Subset, FS_CardinalityType
  <2> QED
    BY <1>1, <1>3, <2>1, PendingFinite DEF RoomLeft
<1>4. CASE w.pc \notin {"create", "insert"} /\ session[s].pc = "insert"
           /\ \E i \in Unused : Unused' = Unused \ {i}
  <2>1. s \in Pending
    BY <1>4 DEF Pending
  <2>2. IsFiniteSet(Pending \ {s}) /\ Cardinality(Pending \ {s}) = Cardinality(Pending) - 1
    BY <2>1, PendingFinite, FS_RemoveElement
  <2>3. Cardinality(Pending') <= Cardinality(Pending) - 1 /\ Cardinality(Pending') \in Nat
    BY <1>2, <1>4, <2>2, FS_Subset, FS_CardinalityType
  <2>4. Cardinality(Unused') = Cardinality(Unused) - 1
    BY <1>4, PendingFinite, FS_RemoveElement
  <2> QED
    BY <1>1, <2>3, <2>4, PendingFinite DEF RoomLeft
<1> QED
  BY <1>3, <1>4

LEMMA StepKeeps ==
  ASSUME HostingIInv, NEW s \in Sessions, NEW w,
         session' = [session EXCEPT ![s] = w],
         Sound(w, row', resource', secret', connection'.team), Frame(s),
         w.pc \in {"create", "insert"} => s \in Pending /\ Unused' = Unused,
         w.ask \in {"provision", "link"} => Provisions(s)
  PROVE  HostingIInv'
<1>1. SessionsSound' /\ RequestsTyped' /\ session'[s] = w
  BY SessionStep DEF Frame
<1>2. RoomLeft'
  BY RoomKept DEF Frame
<1>3. OneProvision'
  <2>1. RequestsTyped /\ OneProvision
    BY HostingParts
  <2>2. \A t \in Sessions \ {s} : session'[t] = session[t]
    BY <2>1 DEF RequestsTyped
  <2>3. \A t \in Sessions : Provisions(t)' => Provisions(t)
    BY <1>1, <2>2 DEF Provisions
  <2> QED
    BY <2>1, <2>3 DEF OneProvision, Frame
<1>4. TablesTyped' /\ RowsSound'
  BY DEF Frame
<1> QED
  BY <1>1, <1>2, <1>3, <1>4, HostingParts, PTL

\* A request that ends its target, whatever came of it.
LEMMA OnwardKeeps ==
  ASSUME HostingIInv, NEW s \in Sessions, NEW v,
         NEW outcome \in Rows \cup {"failed"},
         session' = [session EXCEPT ![s] = Onward(v, outcome)], Frame(s),
         SessionTyped(v), ~Over(v), v.ask = session[s].ask, Reported(v, row', secret'),
         v.ask = "provision" /\ outcome \in Rows =>
           row'[outcome].state # "none" /\ Whole(secret', Head(v.todo), row'[outcome].resource)
  PROVE  HostingIInv'
<1> DEFINE w == Onward(v, outcome)
<1>1. /\ Sound(w, row', resource', secret', connection'.team)
      /\ w.pc \notin {"create", "insert"}
      /\ w.ask \in {"provision", "link"} => v.ask \in {"provision", "link"}
  BY OnwardSound
<1>2. session' = [session EXCEPT ![s] = w]
  OBVIOUS
<1> HIDE DEF w
<1>3. w.ask \in {"provision", "link"} => Provisions(s)
  BY <1>1 DEF Provisions
<1> QED
  BY <1>1, <1>2, <1>3, StepKeeps

LEMMA FailsKeeps ==
  ASSUME HostingIInv, NEW s \in Sessions, ~Over(session[s]),
         Fails(s), Frame(s), secret' = secret
  PROVE  HostingIInv'
<1>1. RequestsTyped /\ SessionsSound /\ RowsSound
  BY HostingParts
<1>2. session' = [session EXCEPT ![s] = Onward(session[s], "failed")]
  BY <1>1 DEF Fails, RequestsTyped
<1>3. Sound(session[s], row', resource', secret', connection.team)
  <2>1. Placing(row, resource) /\ Grows(row, row', resource, resource')
    BY <1>1 DEF RowsSound, Placing, Frame
  <2>2. Sound(session[s], row, resource, secret, connection.team)
    BY <1>1 DEF SessionsSound
  <2> QED
    BY <2>1, <2>2, SoundRests
<1>4. "failed" \notin Rows
  BY HostingAssumption
<1> QED
  BY <1>2, <1>3, <1>4, OnwardKeeps DEF Sound

-----------------------------------------------------------------------------
(* The frame, from what an action leaves alone.                            *)

LEMMA FrameSame ==
  ASSUME HostingIInv, NEW s \in Sessions, targetFaults' \in 0..MaxTargetFaults,
         UNCHANGED <<resource, row, project, connection, secret>>
  PROVE  Frame(s)
<1>1. TablesTyped /\ RowsSound
  BY HostingParts
<1>2. Grows(row, row', resource, resource')
  BY DEF Grows
<1> QED
  BY <1>1, <1>2 DEF Frame, TablesTyped, RowsSound, Unused

\* A resource is made, changed or removed.
LEMMA FrameResource ==
  ASSUME HostingIInv, NEW s \in Sessions, targetFaults' \in 0..MaxTargetFaults,
         NEW r \in Resources, NEW x \in Resource, resource' = [resource EXCEPT ![r] = x],
         resource[r].state # "none" => x.state # "none" /\ (resource[r].state # "live" => x.state # "live"),
         UNCHANGED <<row, project, connection, secret>>
  PROVE  Frame(s)
<1>1. TablesTyped /\ RowsSound
  BY HostingParts
<1>2. resource \in [Resources -> Resource] /\ resource'[r] = x
      /\ \A q \in Resources \ {r} : resource'[q] = resource[q]
  BY <1>1 DEF TablesTyped
<1>3. \A q \in Resources : resource[q].state # "none" =>
        resource'[q].state # "none" /\ (resource[q].state # "live" => resource'[q].state # "live")
  BY <1>2
<1>4. Grows(row, row', resource, resource')
  BY <1>3 DEF Grows
<1>5. TablesTyped'
  BY <1>1 DEF TablesTyped
<1>6. RowsSound'
  BY <1>1, <1>3 DEF RowsSound
<1> QED
  BY <1>4, <1>5, <1>6 DEF Frame, Unused

\* A row that is there changes, and stays the row of its resource.
LEMMA FrameRow ==
  ASSUME HostingIInv, NEW s \in Sessions, targetFaults' \in 0..MaxTargetFaults,
         NEW i \in Rows, NEW x \in Row, row' = [row EXCEPT ![i] = x],
         row[i].state # "none", x.state # "none", x.resource = row[i].resource,
         UNCHANGED <<resource, project, connection, secret>>
  PROVE  Frame(s)
<1>1. TablesTyped /\ RowsSound
  BY HostingParts
<1>2. row \in [Rows -> Row] /\ row'[i] = x /\ \A j \in Rows \ {i} : row'[j] = row[j]
  BY <1>1 DEF TablesTyped
<1>3. Grows(row, row', resource, resource')
  BY <1>2 DEF Grows
<1>4. TablesTyped'
  BY <1>1 DEF TablesTyped
<1>5. RowsSound'
  BY <1>1, <1>2 DEF RowsSound
<1>6. Unused' = Unused
  BY <1>2 DEF Unused
<1> QED
  BY <1>3, <1>4, <1>5, <1>6 DEF Frame

\* Of the request that makes a step.
LEMMA Stepping ==
  ASSUME HostingIInv, NEW s \in Sessions
  PROVE  /\ session[s] \in ASession /\ Sound(session[s], row, resource, secret, connection.team)
         /\ SessionTyped(session[s]) /\ Placed(session[s], row, resource)
         /\ DetachAnswer(session[s], resource, connection.team) /\ Reported(session[s], row, secret)
         /\ \A w : [session EXCEPT ![s] = w][s] = w
         /\ ~Over(session[s]) => /\ session[s].pc \in StepsOf(session[s].ask)
                                 /\ session[s].todo \in {<<"render">>, <<"vercel">>, <<"render", "vercel">>}
                                 /\ Head(session[s].todo) \in Providers
<1>1. RequestsTyped /\ SessionsSound
  BY HostingParts
<1>2. session[s] \in ASession /\ Sound(session[s], row, resource, secret, connection.team)
      /\ SessionTyped(session[s])
  BY <1>1 DEF RequestsTyped, SessionsSound, Sound
<1>3. ~Over(session[s]) => session[s].pc \in StepsOf(session[s].ask)
                           /\ session[s].todo \in {<<"render">>, <<"vercel">>, <<"render", "vercel">>}
  BY <1>2 DEF SessionTyped, Todos
<1>4. ~Over(session[s]) => Head(session[s].todo) \in Providers
  BY <1>3, ListFacts, NothingFacts
<1> QED
  BY <1>1, <1>2, <1>3, <1>4 DEF RequestsTyped, Sound

-----------------------------------------------------------------------------
(* Requests are made.                                                      *)

LEMMA OnTargetKeeps ==
  ASSUME HostingIInv, NEW s \in Sessions, NEW i \in Rows,
         NEW wants \in SUBSET Keys, NEW ask, NEW pc,
         <<ask, pc>> \in {<<"sync", "status">>, <<"detach", "drop">>, <<"delete", "destroy">>,
                          <<"set", "envRead">>, <<"unset", "envRead">>},
         OnTarget(s, ask, pc, i, wants)
  PROVE  HostingIInv'
<1> DEFINE todo == <<resource[row[i].resource].on>>
           w == [IdleSession EXCEPT !.ask = ask, !.pc = pc, !.row = i, !.on = row[i].resource,
                                    !.read = row[i].metadata, !.wants = wants, !.todo = todo]
<1>1. /\ session' = [session EXCEPT ![s] = w] /\ Stored(i)
      /\ UNCHANGED <<resource, row, project, connection, secret, targetFaults>>
  BY DEF OnTarget, Begin
<1>2. TablesTyped /\ RowsSound
  BY HostingParts
<1>3. /\ row[i] \in Row /\ row[i].state = "stored"
      /\ row[i].resource \in Resources /\ resource[row[i].resource].state # "none"
      /\ resource[row[i].resource].on \in Providers
  BY <1>1, <1>2 DEF TablesTyped, RowsSound, Stored, Row, Resource
<1>4. w = [pc |-> pc, ask |-> ask, asked |-> {}, todo |-> todo, row |-> i, on |-> row[i].resource,
           read |-> row[i].metadata, env |-> Bare, count |-> 0, wants |-> wants, said |-> "none",
           report |-> Nothing]
  <2>1. w = [IdleSession EXCEPT !.ask = ask, !.pc = pc, !.row = i, !.on = row[i].resource,
                                !.read = row[i].metadata, !.wants = wants, !.todo = todo]
    OBVIOUS
  <2> HIDE DEF todo, w
  <2> QED
    BY <2>1, IdleIs
<1>5. todo \in {<<"render">>, <<"vercel">>}
  BY <1>3, NothingFacts
<1> HIDE DEF w, todo
<1>6. ask \in {"sync", "detach", "delete", "set", "unset"} /\ pc \in Steps /\ pc \in StepsOf(ask)
      /\ pc \notin {"idle", "done", "admit", "create", "insert", "secretUrl"}
  BY DEF Steps, StepsOf
<1>7. w \in ASession
  <2>1. todo \in Lists /\ row[i].metadata \in Metadata
    BY <1>3, <1>5 DEF Lists, Row
  <2> QED
    BY <1>3, <1>4, <1>6, <2>1, NothingFacts DEF ASession, Kinds
<1>8. SessionTyped(w)
  BY <1>4, <1>5, <1>6, <1>7 DEF SessionTyped, Todos
<1>9. Sound(w, row', resource', secret', connection'.team)
  <2>1. Placed(w, row', resource')
    BY <1>1, <1>3, <1>4, <1>6 DEF Placed, Before
  <2>2. DetachAnswer(w, resource', connection'.team)
    BY <1>4 DEF DetachAnswer
  <2>3. Reported(w, row', secret')
    BY <1>4, <1>6, NothingFacts, HostingAssumption DEF Reported
  <2> QED
    BY <1>8, <2>1, <2>2, <2>3 DEF Sound
<1>10. Frame(s)
  BY <1>1, <1>2, FrameSame DEF TablesTyped
<1> QED
  BY <1>1, <1>4, <1>6, <1>9, <1>10, StepKeeps

LEMMA CreateTargetKeeps ==
  ASSUME HostingIInv, NEW s \in Sessions, CreateTarget(s)
  PROVE  HostingIInv'
<1>1. PICK ask \in {"create", "register"}, p \in Providers :
        session' = [session EXCEPT ![s] = [IdleSession EXCEPT !.ask = ask, !.pc = "admit", !.todo = <<p>>]]
  BY DEF CreateTarget, Begin
<1> DEFINE todo == <<p>>
           w == [IdleSession EXCEPT !.ask = ask, !.pc = "admit", !.todo = todo]
<1>2. w = [pc |-> "admit", ask |-> ask, asked |-> {}, todo |-> todo, row |-> Absent, on |-> Absent,
           read |-> Empty.metadata, env |-> Bare, count |-> 0, wants |-> {},
           said |-> "none", report |-> Nothing]
  <2>1. w = [IdleSession EXCEPT !.ask = ask, !.pc = "admit", !.todo = todo]
    OBVIOUS
  <2> HIDE DEF todo, w
  <2> QED
    BY <2>1, IdleIs
<1>3. todo \in {<<"render">>, <<"vercel">>}
  BY NothingFacts
<1>4. session' = [session EXCEPT ![s] = w]
  BY <1>1
<1> HIDE DEF w, todo
<1>5. w \in ASession
  <2>1. todo \in Lists
    BY <1>3 DEF Lists
  <2> QED
    BY <1>2, <2>1, NothingFacts DEF ASession, Steps, Kinds
<1>6. SessionTyped(w)
  BY <1>2, <1>3, <1>5 DEF SessionTyped, Todos, StepsOf
<1>7. Sound(w, row', resource', secret', connection'.team)
  <2>1. Placed(w, row', resource')
    BY <1>2 DEF Placed, Before
  <2>2. DetachAnswer(w, resource', connection'.team)
    BY <1>2 DEF DetachAnswer
  <2>3. Reported(w, row', secret')
    BY <1>2, NothingFacts, HostingAssumption DEF Reported
  <2> QED
    BY <1>6, <2>1, <2>2, <2>3 DEF Sound
<1>8. Frame(s)
  <2>1. TablesTyped
    BY HostingParts
  <2> QED
    BY <2>1, FrameSame DEF CreateTarget, TablesTyped
<1> QED
  BY <1>2, <1>4, <1>7, <1>8, StepKeeps

LEMMA ProvisionForProjectKeeps ==
  ASSUME HostingIInv, NEW s \in Sessions, ProvisionForProject(s)
  PROVE  HostingIInv'
<1>1. PICK todo \in {<<"render">>, <<"vercel">>, <<"render", "vercel">>},
           wants \in {{LinkKey}, Keys \ {LinkKey}} :
        Begin(s, [IdleSession EXCEPT !.ask = "provision", !.pc = "admit", !.todo = todo, !.wants = wants,
                                     !.asked = {todo[n] : n \in DOMAIN todo}])
  BY DEF ProvisionForProject
<1> DEFINE asked == {todo[n] : n \in DOMAIN todo}
           w == [IdleSession EXCEPT !.ask = "provision", !.pc = "admit", !.todo = todo, !.wants = wants,
                                    !.asked = asked]
<1>2. w = [pc |-> "admit", ask |-> "provision", asked |-> asked, todo |-> todo, row |-> Absent,
           on |-> Absent, read |-> Empty.metadata, env |-> Bare, count |-> 0, wants |-> wants,
           said |-> "none", report |-> Nothing]
  <2>1. w = [IdleSession EXCEPT !.ask = "provision", !.pc = "admit", !.todo = todo, !.wants = wants,
                                !.asked = asked]
    OBVIOUS
  <2> HIDE DEF asked, w
  <2> QED
    BY <2>1, IdleIs
<1>3. session' = [session EXCEPT ![s] = w]
  BY <1>1 DEF Begin
<1>4. InTodo(w) = asked
  BY <1>2 DEF InTodo
<1>5. asked \subseteq Providers
  <2>1. w.todo \in {<<"render">>, <<"vercel">>, <<"render", "vercel">>}
    BY <1>2
  <2> HIDE DEF w
  <2>2. InTodo(w) \subseteq {"render", "vercel"}
    BY <2>1, InLists
  <2> QED
    BY <2>2, <1>4, NothingFacts
<1> HIDE DEF w, asked
<1>6. w \in ASession
  <2>1. todo \in Lists /\ wants \in SUBSET Keys
    BY HostingAssumption DEF Lists
  <2> QED
    BY <1>2, <1>5, <2>1, NothingFacts DEF ASession, Steps, Kinds
<1>7. SessionTyped(w)
  BY <1>2, <1>6 DEF SessionTyped, Todos, StepsOf
<1>8. Sound(w, row', resource', secret', connection'.team)
  <2>1. Placed(w, row', resource')
    BY <1>2 DEF Placed, Before
  <2>2. DetachAnswer(w, resource', connection'.team)
    BY <1>2 DEF DetachAnswer
  <2>3. Reported(w, row', secret')
    <3>1. w.asked = asked /\ w.report = Nothing /\ w.ask = "provision" /\ ~Over(w) /\ w.pc = "admit"
      BY <1>2 DEF Over
    <3>2. \A p \in Providers : w.report[p] = Absent /\ w.report[p] \notin Rows
      BY <3>1, NothingFacts, HostingAssumption
    <3>3. /\ \A p \in w.asked : p \in InTodo(w)
          /\ \A p \in InTodo(w) : w.report[p] = Absent
      BY <3>1, <3>2, <1>4, <1>5
    <3> QED
      BY <3>1, <3>2, <3>3 DEF Reported
  <2> QED
    BY <1>7, <2>1, <2>2, <2>3 DEF Sound
<1>9. /\ UNCHANGED <<resource, row, connection, secret, targetFaults>>
      /\ project = "new" /\ project' = "provisioned"
  BY DEF ProvisionForProject
<1>10. TablesTyped /\ RowsSound /\ OneProvision /\ RequestsTyped
  BY HostingParts
<1>11. SessionsSound' /\ RequestsTyped' /\ session'[s] = w
  <2>1. Grows(row, row', resource, resource')
    BY <1>9 DEF Grows
  <2> QED
    BY <2>1, <1>3, <1>8, <1>9, SessionStep
<1>12. RoomLeft'
  BY <1>2, <1>3, <1>9, RoomKept DEF Unused
<1>13. OneProvision'
  <2>1. \A t \in Sessions \ {s} : session'[t] = session[t]
    BY <1>3, <1>10 DEF RequestsTyped
  <2>2. \A t \in Sessions : ~Provisions(t)
    BY <1>9, <1>10 DEF OneProvision
  <2>3. \A t \in Sessions : Provisions(t)' => t = s
    BY <2>1, <2>2 DEF Provisions
  <2> QED
    BY <2>3, <1>9 DEF OneProvision
<1>14. TablesTyped' /\ RowsSound'
  BY <1>9, <1>10 DEF TablesTyped, RowsSound
<1> QED
  BY <1>11, <1>12, <1>13, <1>14, HostingParts, PTL

LEMMA RequestKeeps ==
  ASSUME HostingIInv, NEW s \in Sessions, MakeRequest(s)
  PROVE  HostingIInv'
<1>1. CASE ProvisionForProject(s)
  BY <1>1, ProvisionForProjectKeeps
<1>2. CASE CreateTarget(s)
  BY <1>2, CreateTargetKeeps
<1>3. CASE SyncTarget(s)
  BY <1>3, OnTargetKeeps DEF SyncTarget
<1>4. CASE DetachTarget(s)
  BY <1>4, OnTargetKeeps DEF DetachTarget
<1>5. CASE DeleteTarget(s)
  BY <1>5, OnTargetKeeps DEF DeleteTarget
<1>6. CASE ProvisionEnvVars(s)
  <2>1. PICK i \in Rows, k \in Keys : OnTarget(s, "set", "envRead", i, {k})
    BY <1>6 DEF ProvisionEnvVars
  <2>2. {k} \in SUBSET Keys
    OBVIOUS
  <2> QED
    BY <2>1, <2>2, OnTargetKeeps
<1>7. CASE DeleteEnvMetadata(s)
  <2>1. PICK i \in Rows : \E k \in row[i].keys : OnTarget(s, "unset", "envRead", i, {k})
    BY <1>7 DEF DeleteEnvMetadata
  <2>2. PICK k \in row[i].keys : OnTarget(s, "unset", "envRead", i, {k})
    BY <2>1
  <2>3. {k} \in SUBSET Keys
    <3>1. TablesTyped
      BY HostingParts
    <3> QED
      BY <3>1 DEF TablesTyped, Row
  <2> QED
    BY <2>2, <2>3, OnTargetKeeps
<1> QED
  BY <1>1, <1>2, <1>3, <1>4, <1>5, <1>6, <1>7 DEF MakeRequest

-----------------------------------------------------------------------------
(* Creation of a target.                                                   *)

\* A request that moves to another of its steps.
LEMMA Moves ==
  ASSUME NEW v, NEW w, NEW rows, NEW sec, SessionTyped(v), ~Over(v), Reported(v, rows, sec),
         w \in ASession, w.pc \in StepsOf(v.ask),
         w.ask = v.ask, w.asked = v.asked, w.todo = v.todo, w.report = v.report,
         w.pc = "secretUrl" => Head(w.todo) = "render" /\ sec["render"].id = w.on,
         w.ask = "provision" /\ w.pc \in {"record", "envRead", "envWrite", "envRecord"} =>
           Whole(sec, Head(w.todo), w.on)
  PROVE  SessionTyped(w) /\ Reported(w, rows, sec)
<1>1. w.todo \in Todos(w.ask)
  BY DEF SessionTyped
<1>2. SessionTyped(w)
  BY <1>1 DEF SessionTyped
<1>3. InTodo(w) = InTodo(v)
  BY DEF InTodo
<1>4. ~Over(w)
  BY DEF StepsOf, Over
<1>5. Reported(w, rows, sec)
  BY <1>3, <1>4 DEF Reported
<1> QED
  BY <1>2, <1>5

LEMMA TableTypes ==
  ASSUME HostingIInv
  PROVE  /\ resource \in [Resources -> Resource] /\ row \in [Rows -> Row] /\ targetFaults \in 0..MaxTargetFaults
         /\ secret \in [Providers -> [id : Resources \cup {Absent}, url : Resources \cup {Absent}]]
         /\ session \in [Sessions -> ASession]
  BY HostingParts DEF TablesTyped, RequestsTyped

\* At a step no request is over, and a fault more is within the bound.
LEMMA FaultsTyped ==
  ASSUME HostingIInv,
         targetFaults' = targetFaults \/ (targetFaults < MaxTargetFaults /\ targetFaults' = targetFaults + 1)
  PROVE  targetFaults' \in 0..MaxTargetFaults
<1>1. targetFaults \in 0..MaxTargetFaults /\ MaxTargetFaults \in Nat
  BY TableTypes, HostingAssumption
<1> QED
  BY <1>1

LEMMA AdmitKeeps ==
  ASSUME HostingIInv, NEW s \in Sessions, Admit(s)
  PROVE  HostingIInv'
<1>1. ~Over(session[s]) /\ session[s].pc = "admit"
  BY DEF Admit, At, Over
<1>2. UNCHANGED <<resource, row, project, connection, secret, targetFaults>>
  BY DEF Admit
<1>3. Frame(s)
  BY <1>2, TableTypes, FrameSame
<1>4. CASE Fails(s)
  BY <1>1, <1>2, <1>3, <1>4, FailsKeeps
<1>5. CASE Count + 1 <= Limit /\ Spare
           /\ session' = [session EXCEPT ![s].pc = "create", ![s].count = Count]
  <2> DEFINE w == [session[s] EXCEPT !.pc = "create", !.count = Count]
  <2>1. Count \in Nat
    <3>1. IsFiniteSet({i \in Rows : Stored(i)})
      <4>1. IsFiniteSet(Rows)
        BY HostingAssumption
      <4> QED
        BY <4>1, FS_Subset
    <3> QED
      BY <3>1, FS_CardinalityType DEF Count
  <2>2. session' = [session EXCEPT ![s] = w]
    BY <1>5, TableTypes
  <2>3. /\ w \in ASession /\ w.pc = "create" /\ w.count = Count /\ w.ask = session[s].ask
        /\ w.asked = session[s].asked /\ w.todo = session[s].todo /\ w.report = session[s].report
    <3>1. session[s] \in ASession
      BY TableTypes
    <3> QED
      BY <2>1, <3>1 DEF ASession, Steps
  <2> HIDE DEF w
  <2>4. session[s].ask \in Creates /\ "create" \in StepsOf(session[s].ask)
    BY <1>1, Stepping DEF StepsOf, Creates
  <2>5. SessionTyped(w) /\ Reported(w, row, secret)
    BY <1>1, <2>3, <2>4, Stepping, Moves
  <2>6. Placed(w, row, resource) /\ DetachAnswer(w, resource, connection.team)
    BY <1>5, <2>3 DEF Placed, DetachAnswer, Before
  <2>7. Sound(w, row', resource', secret', connection'.team)
    BY <1>2, <2>5, <2>6 DEF Sound
  <2>8. SessionsSound' /\ RequestsTyped' /\ session'[s] = w
    BY <1>2, <1>3, <2>2, <2>7, SessionStep DEF Frame
  <2>9. RoomLeft'
    <3>1. Pending' \subseteq Pending \cup {s} /\ Unused' = Unused
      BY <1>2, <2>2, TableTypes DEF Pending, Unused
    <3>2. Cardinality(Pending) < Cardinality(Unused)
      <4>1. Pending = {t \in Sessions : session[t].pc \in {"create", "insert"}}
        BY DEF Pending
      <4>2. Cardinality(Unused) > Cardinality(Pending)
        BY <1>5, <4>1 DEF Spare
      <4> QED
        BY <4>2, PendingFinite
    <3>3. IsFiniteSet(Pending \cup {s}) /\ Cardinality(Pending \cup {s}) <= Cardinality(Pending) + 1
      <4>1. s \notin Pending
        BY <1>1 DEF Pending
      <4>2. IsFiniteSet(Pending) /\ Cardinality(Pending) \in Nat
        BY PendingFinite
      <4>3. IsFiniteSet(Pending \cup {s}) /\ Cardinality(Pending \cup {s}) = Cardinality(Pending) + 1
        BY <4>1, <4>2, FS_AddElement
      <4> QED
        BY <4>2, <4>3
    <3>4. Cardinality(Pending') <= Cardinality(Pending \cup {s}) /\ Cardinality(Pending') \in Nat
          /\ Cardinality(Pending \cup {s}) \in Nat
      BY <3>1, <3>3, FS_Subset, FS_CardinalityType
    <3> QED
      BY <3>1, <3>2, <3>3, <3>4, PendingFinite DEF RoomLeft
  <2>10. OneProvision'
    <3>1. \A t \in Sessions : session'[t].ask = session[t].ask
      BY <2>2, <2>3, TableTypes
    <3>2. \A t \in Sessions : Provisions(t)' <=> Provisions(t)
      BY <3>1 DEF Provisions
    <3> QED
      BY <1>2, <3>2, HostingParts DEF OneProvision
  <2> QED
    BY <1>3, <2>8, <2>9, <2>10, HostingParts, PTL DEF Frame
<1> QED
  BY <1>4, <1>5 DEF Admit

\* What creation is at has its resource and its count.
LEMMA AtCreate ==
  ASSUME HostingIInv, NEW s \in Sessions, session[s].pc \in {"create", "insert"}
  PROVE  /\ ~Over(session[s]) /\ session[s].ask \in Creates /\ session[s].count + 1 <= Limit
         /\ "insert" \in StepsOf(session[s].ask)
         /\ session[s].pc = "insert" =>
              session[s].on \in Resources /\ resource[session[s].on].state # "none"
<1>1. ~Over(session[s])
  BY DEF Over
<1>2. session[s].ask \in Creates /\ "insert" \in StepsOf(session[s].ask)
  BY <1>1, Stepping DEF StepsOf, Creates
<1> QED
  BY <1>1, <1>2, Stepping DEF Placed

\* A creation that has its resource.
LEMMA InsertNext ==
  ASSUME HostingIInv, NEW s \in Sessions, session[s].pc = "create",
         NEW r \in Resources, resource'[r].state # "none", NEW b \in BOOLEAN,
         session' = [session EXCEPT ![s].pc = "insert", ![s].on = r, ![s].read.found = b],
         Frame(s), UNCHANGED <<row, connection, secret>>
  PROVE  HostingIInv'
<1> DEFINE w == [session[s] EXCEPT !.pc = "insert", !.on = r, !.read.found = b]
<1>1. session' = [session EXCEPT ![s] = w]
  <2>1. session[s] \in ASession /\ session \in [Sessions -> ASession]
    BY TableTypes
  <2> QED
    BY <2>1 DEF ASession, Metadata
<1>2. /\ w \in ASession /\ w.pc = "insert" /\ w.on = r /\ w.ask = session[s].ask
      /\ w.asked = session[s].asked /\ w.todo = session[s].todo /\ w.report = session[s].report
      /\ w.count = session[s].count
  <2>1. session[s] \in ASession
    BY TableTypes
  <2>2. [session[s].read EXCEPT !.found = b] \in Metadata
    BY <2>1 DEF ASession, Metadata
  <2>3. w = [session[s] EXCEPT !.pc = "insert", !.on = r, !.read = [session[s].read EXCEPT !.found = b]]
    BY <2>1 DEF ASession
  <2> QED
    BY <2>1, <2>2, <2>3 DEF ASession, Steps
<1> HIDE DEF w
<1>3. SessionTyped(w) /\ Reported(w, row', secret')
  BY <1>2, AtCreate, Stepping, Moves
<1>4. Placed(w, row', resource') /\ DetachAnswer(w, resource', connection'.team)
  BY <1>2, AtCreate DEF Placed, DetachAnswer, Before
<1>5. s \in Pending /\ w.ask = session[s].ask
  BY <1>2 DEF Pending
<1>6. Unused' = Unused
  BY DEF Unused
<1> QED
  BY <1>1, <1>3, <1>4, <1>5, <1>6, StepKeeps DEF Sound, Provisions

LEMMA CreateResourceKeeps ==
  ASSUME HostingIInv, NEW s \in Sessions, CreateResource(s)
  PROVE  HostingIInv'
<1> DEFINE r == CHOOSE x \in Resources : Fresh(x)
<1>1. r \in Resources /\ Fresh(r)
  BY DEF CreateResource
<1>2. /\ session[s].pc = "create" /\ resource' = [resource EXCEPT ![r] = Born(s)]
      /\ UNCHANGED <<row, project, connection, secret>>
      /\ \/ /\ session' = [session EXCEPT ![s].pc = "insert", ![s].on = r, ![s].read.found = TRUE]
            /\ targetFaults' = targetFaults
         \/ targetFaults < MaxTargetFaults /\ Fails(s) /\ targetFaults' = targetFaults + 1
  BY DEF CreateResource, At
<1> HIDE DEF r
<1>3. Born(s) \in Resource /\ Born(s).state = "live"
  <2>1. Head(session[s].todo) \in Providers
    BY <1>2, AtCreate, Stepping
  <2> QED
    BY <2>1, NothingFacts DEF Born, Resource, Head1
<1>4. targetFaults' \in 0..MaxTargetFaults
  BY <1>2, FaultsTyped
<1>5. Frame(s) /\ resource'[r].state # "none"
  BY <1>1, <1>2, <1>3, <1>4, TableTypes, FrameResource DEF Fresh
<1>6. CASE session' = [session EXCEPT ![s].pc = "insert", ![s].on = r, ![s].read.found = TRUE]
  BY <1>1, <1>2, <1>5, <1>6, InsertNext
<1>7. CASE Fails(s)
  BY <1>2, <1>5, <1>7, AtCreate, FailsKeeps
<1> QED
  BY <1>2, <1>6, <1>7

LEMMA CreateRefusedKeeps ==
  ASSUME HostingIInv, NEW s \in Sessions, CreateRefused(s)
  PROVE  HostingIInv'
<1>1. Frame(s) /\ session[s].pc = "create" /\ Fails(s) /\ secret' = secret
  BY TableTypes, FrameSame DEF CreateRefused, At
<1> QED
  BY <1>1, AtCreate, FailsKeeps

LEMMA RegisterExistingKeeps ==
  ASSUME HostingIInv, NEW s \in Sessions, RegisterExisting(s)
  PROVE  HostingIInv'
<1>1. Frame(s) /\ session[s].pc = "create"
  BY TableTypes, FrameSame DEF RegisterExisting, At
<1>2. PICK r \in Resources : /\ OfItsKind(s, r)
                             /\ session' = [session EXCEPT ![s].pc = "insert", ![s].on = r, ![s].read.found = FALSE]
  BY DEF RegisterExisting
<1>3. resource'[r].state # "none" /\ UNCHANGED <<row, connection, secret>>
  BY <1>2 DEF OfItsKind, Live, RegisterExisting
<1> QED
  BY <1>1, <1>2, <1>3, InsertNext

LEMMA InsertRowKeeps ==
  ASSUME HostingIInv, NEW s \in Sessions, InsertRow(s)
  PROVE  HostingIInv'
<1> DEFINE i == CHOOSE j \in Unused : TRUE
           x == [Empty EXCEPT !.state = "stored", !.resource = session[s].on, !.metadata = session[s].read]
           v == [session[s] EXCEPT !.row = i]
<1>1. /\ session[s].pc = "insert" /\ row' = [row EXCEPT ![i] = x] /\ Answered(s, v)
      /\ UNCHANGED <<resource, project, connection, secret>>
  BY DEF InsertRow, At
<1>2. i \in Unused
  <2>1. Unused # {}
    <3>1. s \in Pending
      BY <1>1 DEF Pending
    <3>2. Cardinality(Pending) # 0
      BY <3>1, PendingFinite, FS_EmptySet
    <3>3. Cardinality(Unused) # 0
      BY <3>2, PendingFinite, HostingParts DEF RoomLeft
    <3> QED
      BY <3>3, FS_EmptySet
  <2> QED
    BY <2>1
<1> HIDE DEF i
<1>3. i \in Rows /\ row[i].state = "none"
  BY <1>2 DEF Unused
<1>4. x \in Row /\ x.state = "stored" /\ x.resource = session[s].on
  BY <1>1, AtCreate, TableTypes, NothingFacts DEF Row, Empty, ASession
<1>5. /\ v \in ASession /\ v.row = i /\ v.pc = "insert" /\ v.ask = session[s].ask
      /\ v.asked = session[s].asked /\ v.todo = session[s].todo /\ v.report = session[s].report
      /\ v.on = session[s].on
  <2>1. session[s] \in ASession
    BY TableTypes
  <2> QED
    BY <1>1, <1>3, <2>1 DEF ASession
<1> HIDE DEF x, v
<1>6. row'[i] = x /\ \A j \in Rows \ {i} : row'[j] = row[j]
  BY <1>1, <1>3, TableTypes
<1>7. Grows(row, row', resource, resource')
  BY <1>1, <1>3, <1>6 DEF Grows
<1>8. Unused' = Unused \ {i}
  BY <1>3, <1>4, <1>6 DEF Unused
<1>9. targetFaults' \in 0..MaxTargetFaults
  BY <1>1, FaultsTyped DEF Answered
<1>10. TablesTyped'
  BY <1>1, <1>3, <1>4, <1>9, HostingParts DEF TablesTyped
<1>11. RowsSound'
  BY <1>1, <1>4, <1>6, AtCreate, HostingParts DEF RowsSound
<1>12. Frame(s)
  BY <1>1, <1>2, <1>7, <1>8, <1>10, <1>11 DEF Frame
<1>13. Reported(session[s], row', secret') /\ Sound(session[s], row', resource', secret', connection.team)
  <2>1. Placing(row, resource)
    BY HostingParts DEF RowsSound, Placing
  <2>2. Sound(session[s], row', resource', secret', connection.team)
    BY <1>1, <1>7, <2>1, Stepping, SoundRests
  <2> QED
    BY <2>2 DEF Sound
<1>14. SessionTyped(v) /\ Reported(v, row', secret') /\ ~Over(v)
  BY <1>1, <1>5, <1>13, AtCreate, Stepping, Moves DEF Over
<1>15. CASE Fails(s)
  BY <1>1, <1>12, <1>15, AtCreate, FailsKeeps
<1>16. CASE Advance(s, v) /\ ~Provisions(s)
  <2>1. session' = [session EXCEPT ![s] = Onward(v, v.row)]
    BY <1>1, <1>16 DEF Advance, After
  <2>2. v.ask # "provision"
    BY <1>5, <1>16 DEF Provisions
  <2> QED
    BY <1>3, <1>5, <1>12, <1>14, <2>1, <2>2, OnwardKeeps
<1>17. CASE Advance(s, v) /\ Provisions(s)
  <2> DEFINE w == [v EXCEPT !.pc = "secretId"]
  <2>1. session' = [session EXCEPT ![s] = w]
    BY <1>1, <1>17 DEF Advance, After
  <2>2. /\ w \in ASession /\ w.pc = "secretId" /\ w.row = i /\ w.ask = session[s].ask /\ w.on = v.on
        /\ w.asked = v.asked /\ w.todo = v.todo /\ w.report = v.report
    BY <1>5 DEF ASession, Steps
  <2> HIDE DEF w
  <2>3. w.ask = "provision" /\ "secretId" \in StepsOf(v.ask)
    BY <1>1, <1>5, <1>17, <2>2, AtCreate DEF StepsOf, Provisions, Creates
  <2>4. SessionTyped(w) /\ Reported(w, row', secret')
    BY <1>5, <1>14, <2>2, <2>3, Moves
  <2>5. Placed(w, row', resource') /\ DetachAnswer(w, resource', connection'.team)
    BY <1>3, <1>4, <1>5, <1>6, <2>2 DEF Placed, DetachAnswer
  <2> QED
    BY <1>12, <1>17, <2>1, <2>2, <2>4, <2>5, StepKeeps DEF Sound
<1> QED
  BY <1>1, <1>15, <1>16, <1>17 DEF Answered

LEMMA InsertRefusedKeeps ==
  ASSUME HostingIInv, NEW s \in Sessions, InsertRefused(s)
  PROVE  HostingIInv'
<1>1. Frame(s) /\ session[s].pc = "insert" /\ Fails(s) /\ secret' = secret
  BY TableTypes, FrameSame DEF InsertRefused, At
<1> QED
  BY <1>1, AtCreate, FailsKeeps

-----------------------------------------------------------------------------
(* What a provisioning does with a created target; environment variables.  *)

\* A request about a row that is there.
LEMMA AboutRow ==
  ASSUME HostingIInv, NEW s \in Sessions, ~Over(session[s]),
         session[s].pc \notin Before
  PROVE  /\ session[s].row \in Rows /\ row[session[s].row].state # "none"
         /\ row[session[s].row].resource \in Resources
         /\ resource[row[session[s].row].resource].state # "none"
         /\ ~(session[s].ask = "link" /\ session[s].pc = "envRead") =>
              session[s].on = row[session[s].row].resource
         /\ row[session[s].row] \in Row
  BY Stepping, HostingParts DEF Placed, RowsSound, TablesTyped

\* A target that is created whole is reported, when nothing is left to do about it.
LEMMA OnwardWhole ==
  ASSUME HostingIInv, NEW s \in Sessions, ~Over(session[s]),
         session[s].pc \notin Before, session' = [session EXCEPT ![s] = Onward(session[s], session[s].row)],
         Frame(s), secret' = secret,
         session[s].ask = "provision" => session[s].pc \in {"record", "envRecord"}
  PROVE  HostingIInv'
<1>1. Reported(session[s], row', secret')
  <2>1. Placing(row, resource) /\ Grows(row, row', resource, resource')
    BY HostingParts DEF RowsSound, Placing, Frame
  <2>2. Sound(session[s], row', resource', secret', connection.team)
    BY <2>1, Stepping, SoundRests
  <2> QED
    BY <2>2 DEF Sound
<1>2. session[s].row \in Rows /\ row'[session[s].row].state # "none"
      /\ row'[session[s].row].resource = row[session[s].row].resource
  BY AboutRow DEF Frame, Grows
<1>3. session[s].ask = "provision" =>
        Whole(secret', Head(session[s].todo), row'[session[s].row].resource)
  BY <1>2, AboutRow, Stepping DEF Reported
<1> QED
  BY <1>1, <1>2, <1>3, Stepping, OnwardKeeps

\* A request that goes to the next of its steps about its row.
LEMMA GoesOnWithRow ==
  ASSUME HostingIInv, NEW s \in Sessions, ~Over(session[s]),
         session[s].pc \notin Before, NEW w \in ASession, session' = [session EXCEPT ![s] = w],
         Frame(s), Reported(session[s], row', secret'), w.pc \in StepsOf(session[s].ask),
         w.pc \notin Before, w.pc # "drop",
         w.ask = session[s].ask, w.asked = session[s].asked, w.todo = session[s].todo,
         w.report = session[s].report, w.row = session[s].row,
         w.on = row[session[s].row].resource,
         w.pc = "secretUrl" => Head(w.todo) = "render" /\ secret'["render"].id = w.on,
         w.ask = "provision" /\ w.pc \in {"record", "envRead", "envWrite", "envRecord"} =>
           Whole(secret', Head(w.todo), w.on)
  PROVE  HostingIInv'
<1>1. SessionTyped(w) /\ Reported(w, row', secret')
  BY Stepping, Moves
<1>2. w.row \in Rows /\ row'[w.row].state # "none" /\ w.on = row'[w.row].resource
  BY AboutRow DEF Frame, Grows
<1>3. Placed(w, row', resource') /\ DetachAnswer(w, resource', connection'.team)
  BY <1>2 DEF Placed, Before, DetachAnswer
<1>4. w.pc \notin {"create", "insert"} /\ (w.ask \in {"provision", "link"} => Provisions(s))
  BY DEF Before, Provisions
<1> QED
  BY <1>1, <1>3, <1>4, StepKeeps DEF Sound

\* Putting a secret of the target that is being provisioned touches no other's.
LEMMA FrameSecret ==
  ASSUME HostingIInv, NEW s \in Sessions, targetFaults' \in 0..MaxTargetFaults,
         session[s].pc \in {"secretId", "secretUrl"},
         NEW x \in [id : Resources \cup {Absent}, url : Resources \cup {Absent}],
         secret' = [secret EXCEPT ![Head(session[s].todo)] = x],
         UNCHANGED <<resource, row, project, connection>>
  PROVE  /\ ~Over(session[s]) /\ session[s].pc \notin Before /\ session[s].ask = "provision"
         /\ secret'[Head(session[s].todo)] = x /\ Frame(s)
         /\ session[s].pc = "secretId" => Reported(session[s], row', secret')
         /\ x.id = secret[Head(session[s].todo)].id => Reported(session[s], row', secret')
<1>1. ~Over(session[s]) /\ session[s].pc \notin Before
  BY DEF Over, Before
<1>2. session[s].ask = "provision"
  BY <1>1, Stepping DEF StepsOf
<1>3. Head(session[s].todo) \in Providers
  BY <1>1, Stepping
<1>4. /\ secret'[Head(session[s].todo)] = x
      /\ \A p \in Providers \ {Head(session[s].todo)} : secret'[p] = secret[p]
  BY <1>3, TableTypes
<1>5. Frame(s)
  <2>1. TablesTyped /\ RowsSound
    BY HostingParts
  <2>2. Grows(row, row', resource, resource') /\ Unused' = Unused /\ RowsSound'
    BY <2>1 DEF Grows, Unused, RowsSound
  <2>3. TablesTyped'
    BY <2>1, <1>3 DEF TablesTyped
  <2>4. Provisions(s)
    BY <1>2 DEF Provisions
  <2> QED
    BY <2>2, <2>3, <2>4 DEF Frame
<1>6. session[s].report[Head(session[s].todo)] = Absent
  <2>1. Head(session[s].todo) \in InTodo(session[s])
    BY <1>1, Stepping, ListFacts, InLists
  <2> QED
    BY <2>1, <1>1, <1>2, <1>3, Stepping DEF Reported
<1>7. ASSUME session[s].pc = "secretId" \/ x.id = secret[Head(session[s].todo)].id
      PROVE  Reported(session[s], row', secret')
  <2>1. \A p \in Providers : session[s].report[p] \in Rows =>
          /\ row'[session[s].report[p]].state # "none"
          /\ Whole(secret', p, row'[session[s].report[p]].resource)
    <3> SUFFICES ASSUME NEW p \in Providers, session[s].report[p] \in Rows
                 PROVE  /\ row'[session[s].report[p]].state # "none"
                        /\ Whole(secret', p, row'[session[s].report[p]].resource)
      OBVIOUS
    <3>1. p # Head(session[s].todo)
      BY <1>6, HostingAssumption
    <3>2. secret'[p] = secret[p] /\ row' = row
      BY <3>1, <1>4
    <3>3. row[session[s].report[p]].state # "none" /\ Whole(secret, p, row[session[s].report[p]].resource)
      BY Stepping DEF Reported
    <3> QED
      BY <3>2, <3>3 DEF Whole
  <2>2. session[s].pc = "secretUrl" => Head(session[s].todo) = "render" /\ secret'["render"].id = session[s].on
    BY <1>4, <1>7, Stepping DEF Reported
  <2>3. Reported(session[s], row, secret)
    BY Stepping
  <2> QED
    BY <1>1, <1>2, <2>1, <2>2, <2>3 DEF Reported
<1> QED
  BY <1>1, <1>2, <1>4, <1>5, <1>7

LEMMA FailsAfterPut ==
  ASSUME HostingIInv, NEW s \in Sessions, ~Over(session[s]),
         Fails(s), Frame(s), Reported(session[s], row', secret')
  PROVE  HostingIInv'
<1>1. session' = [session EXCEPT ![s] = Onward(session[s], "failed")]
  BY TableTypes DEF Fails
<1>2. "failed" \notin Rows
  BY HostingAssumption
<1> QED
  BY <1>1, <1>2, Stepping, OnwardKeeps

LEMMA InstallSecretIdKeeps ==
  ASSUME HostingIInv, NEW s \in Sessions, InstallSecretId(s)
  PROVE  HostingIInv'
<1> DEFINE old == secret[Head(session[s].todo)]
           on == session[s].on
           x == IF Head(session[s].todo) = "render" THEN [old EXCEPT !.id = on] ELSE [id |-> on, url |-> on]
<1>1. session[s].pc = "secretId" /\ UNCHANGED <<resource, row, project, connection>> /\ ~Over(session[s])
  BY DEF InstallSecretId, At, Over
<1>2. CASE Fails(s) /\ UNCHANGED <<secret, targetFaults>>
  <2>1. Frame(s)
    BY <1>1, <1>2, TableTypes, FrameSame
  <2> QED
    BY <1>1, <1>2, <2>1, FailsKeeps
<1>3. CASE secret' = [secret EXCEPT ![Head(session[s].todo)] = x] /\ Answered(s, session[s])
  <2>1. /\ session[s].row \in Rows /\ on \in Resources /\ on = row[session[s].row].resource
        /\ Head(session[s].todo) \in Providers /\ session[s] \in ASession
    BY <1>1, AboutRow, Stepping DEF Before
  <2>2. /\ x \in [id : Resources \cup {Absent}, url : Resources \cup {Absent}] /\ x.id = on
        /\ Head(session[s].todo) # "render" => x = [id |-> on, url |-> on]
    BY <2>1, TableTypes
  <2> HIDE DEF x
  <2>3. targetFaults' \in 0..MaxTargetFaults
    BY <1>3, FaultsTyped DEF Answered
  <2>4. /\ session[s].ask = "provision" /\ Frame(s) /\ Reported(session[s], row', secret')
        /\ secret'[Head(session[s].todo)] = x /\ session[s].pc \notin Before
    BY <1>1, <1>3, <2>2, <2>3, FrameSecret
  <2>5. CASE Fails(s)
    BY <1>1, <2>4, <2>5, FailsAfterPut
  <2>6. CASE Advance(s, session[s])
    <3> DEFINE w == [session[s] EXCEPT !.pc = After(s)]
    <3>1. After(s) = IF Head(session[s].todo) = "render" THEN "secretUrl" ELSE "record"
      BY <1>1 DEF After, Head1
    <3>2. session' = [session EXCEPT ![s] = w]
      BY <2>6, <3>1 DEF Advance
    <3>3. /\ w \in ASession /\ w.pc = After(s) /\ w.row = session[s].row /\ w.ask = session[s].ask
          /\ w.on = on /\ w.asked = session[s].asked /\ w.todo = session[s].todo
          /\ w.report = session[s].report
      BY <2>1, <3>1 DEF ASession, Steps
    <3> HIDE DEF w
    <3>4. w.pc \in {"secretUrl", "record"} /\ w.pc \in StepsOf(session[s].ask)
      BY <2>4, <3>1, <3>3 DEF StepsOf
    <3>5. w.pc = "secretUrl" => Head(w.todo) = "render" /\ secret'["render"].id = w.on
      BY <2>2, <2>4, <3>1, <3>3
    <3>6. w.pc = "record" => Whole(secret', Head(w.todo), w.on)
      BY <2>2, <2>4, <3>1, <3>3 DEF Whole
    <3> QED
      BY <1>1, <2>1, <2>4, <3>2, <3>3, <3>4, <3>5, <3>6, GoesOnWithRow DEF Before
  <2> QED
    BY <1>3, <2>5, <2>6 DEF Answered
<1>4. \/ secret' = [secret EXCEPT ![Head(session[s].todo)] = x] /\ Answered(s, session[s])
      \/ Fails(s) /\ UNCHANGED <<secret, targetFaults>>
  <2>1. Head(session[s].todo) \in Providers
    BY <1>1, Stepping
  <2>2. CASE Head(session[s].todo) = "render"
    <3>1. [secret EXCEPT !["render"]["id"] = on] = [secret EXCEPT !["render"] = x]
      BY <2>2, TableTypes
    <3> QED
      BY <2>2, <3>1 DEF InstallSecretId, PutSecret, Head1
  <2>3. CASE Head(session[s].todo) = "vercel"
    BY <2>3 DEF InstallSecretId, Head1
  <2> QED
    BY <2>1, <2>2, <2>3, NothingFacts
<1> QED
  BY <1>2, <1>3, <1>4

LEMMA InstallSecretUrlKeeps ==
  ASSUME HostingIInv, NEW s \in Sessions, InstallSecretUrl(s)
  PROVE  HostingIInv'
<1> DEFINE on == session[s].on
           x == [secret["render"] EXCEPT !.url = on]
<1>1. /\ session[s].pc = "secretUrl" /\ UNCHANGED <<resource, row, project, connection>>
      /\ ~Over(session[s]) /\ session[s].pc \notin Before /\ Answered(s, session[s])
      /\ secret' = [secret EXCEPT ![Head(session[s].todo)]["url"] = on]
  BY DEF InstallSecretUrl, PutSecret, Head1, At, Over, Before
<1>2. Head(session[s].todo) = "render" /\ secret["render"].id = on
  BY <1>1, Stepping DEF Reported
<1>3. session[s].row \in Rows /\ on \in Resources /\ on = row[session[s].row].resource
  BY <1>1, AboutRow
<1>4. secret' = [secret EXCEPT ![Head(session[s].todo)] = x]
  <2>1. [secret EXCEPT !["render"]["url"] = on] = [secret EXCEPT !["render"] = x]
    BY <1>2, TableTypes
  <2> QED
    BY <1>1, <1>2, <2>1
<1>5. x \in [id : Resources \cup {Absent}, url : Resources \cup {Absent}] /\ x.id = on /\ x.url = on
  <2>1. secret["render"] \in [id : Resources \cup {Absent}, url : Resources \cup {Absent}]
    BY TableTypes, NothingFacts
  <2> QED
    BY <1>2, <1>3, <2>1
<1> HIDE DEF x
<1>6. targetFaults' \in 0..MaxTargetFaults
  BY <1>1, FaultsTyped DEF Answered
<1>7. /\ session[s].ask = "provision" /\ Frame(s) /\ Reported(session[s], row', secret')
      /\ secret'["render"] = x
  <2>1. x.id = secret[Head(session[s].todo)].id
    BY <1>2, <1>5
  <2>2. /\ session[s].ask = "provision" /\ Frame(s) /\ Reported(session[s], row', secret')
        /\ secret'[Head(session[s].todo)] = x
    BY <1>1, <1>4, <1>5, <1>6, <2>1, FrameSecret
  <2> QED
    BY <1>2, <2>2
<1>8. CASE Fails(s)
  BY <1>1, <1>7, <1>8, FailsAfterPut
<1>9. CASE Advance(s, session[s])
  <2> DEFINE w == [session[s] EXCEPT !.pc = "record"]
  <2>1. session' = [session EXCEPT ![s] = w]
    BY <1>1, <1>9 DEF Advance, After
  <2>2. /\ w \in ASession /\ w.pc = "record" /\ w.row = session[s].row /\ w.ask = session[s].ask
        /\ w.on = on /\ w.asked = session[s].asked /\ w.todo = session[s].todo
        /\ w.report = session[s].report
    <3>1. session[s] \in ASession
      BY Stepping
    <3> QED
      BY <3>1 DEF ASession, Steps
  <2> HIDE DEF w
  <2>3. w.pc \in StepsOf(session[s].ask)
    BY <1>7, <2>2 DEF StepsOf
  <2>4. Whole(secret', Head(w.todo), w.on)
    <3>1. x = [id |-> on, url |-> on]
      BY <1>5
    <3> QED
      BY <3>1, <1>2, <1>7, <2>2 DEF Whole
  <2> QED
    BY <1>1, <1>3, <1>7, <2>1, <2>2, <2>3, <2>4, GoesOnWithRow DEF Before
<1> QED
  BY <1>1, <1>8, <1>9 DEF Answered

\* A row that is stored gets other data.
LEMMA RowWritten ==
  ASSUME HostingIInv, NEW s \in Sessions, ~Over(session[s]),
         session[s].pc \notin Before, NEW x \in Row, row' = [row EXCEPT ![session[s].row] = x],
         x.state # "none", x.resource = row[session[s].row].resource, targetFaults' \in 0..MaxTargetFaults,
         UNCHANGED <<resource, project, connection, secret>>
  PROVE  Frame(s)
  BY AboutRow, FrameRow

LEMMA RecordSecretsKeeps ==
  ASSUME HostingIInv, NEW s \in Sessions, RecordSecrets(s)
  PROVE  HostingIInv'
<1> DEFINE v == session[s]
           x == [row[v.row] EXCEPT !.metadata = RecordedMetadata(s)]
<1>1. /\ v.pc = "record" /\ ~Over(v) /\ v.pc \notin Before
      /\ UNCHANGED <<resource, project, connection, secret>>
  BY DEF RecordSecrets, At, Over, Before
<1>2. v.ask = "provision"
  BY <1>1, Stepping DEF StepsOf
<1>3. CASE Fails(s) /\ UNCHANGED <<row, targetFaults>>
  <2>1. Frame(s)
    BY <1>1, <1>3, TableTypes, FrameSame
  <2> QED
    BY <1>1, <1>3, <2>1, FailsKeeps
<1>4. CASE /\ Stored(v.row) /\ Answered(s, v)
           /\ row' = [row EXCEPT ![v.row].metadata = RecordedMetadata(s)]
  <2>1. targetFaults' \in 0..MaxTargetFaults
    BY <1>4, FaultsTyped DEF Answered
  <2>2. x \in Row /\ x.state # "none" /\ x.resource = row[v.row].resource
    <3>1. RecordedMetadata(s) \in Metadata
      <4>1. v.read \in Metadata
        BY Stepping DEF ASession
      <4> QED
        BY <4>1 DEF RecordedMetadata, Metadata
    <3>2. row[v.row] \in Row /\ row[v.row].state # "none"
      BY <1>1, AboutRow
    <3> QED
      BY <3>1, <3>2 DEF Row
  <2>3. row' = [row EXCEPT ![v.row] = x]
    BY <1>1, <1>4, AboutRow, TableTypes
  <2> HIDE DEF x
  <2>4. Frame(s)
    BY <1>1, <2>1, <2>2, <2>3, RowWritten
  <2>5. CASE Fails(s)
    BY <1>1, <2>4, <2>5, FailsKeeps
  <2>6. CASE Advance(s, v) /\ v.wants = {}
    <3>1. session' = [session EXCEPT ![s] = Onward(v, v.row)]
      BY <1>1, <2>6 DEF Advance, After
    <3> QED
      BY <1>1, <2>4, <3>1, OnwardWhole
  <2>7. CASE Advance(s, v) /\ v.wants # {}
    <3> DEFINE w == [v EXCEPT !.pc = "envRead"]
    <3>1. session' = [session EXCEPT ![s] = w]
      BY <1>1, <2>7 DEF Advance, After
    <3>2. /\ w \in ASession /\ w.pc = "envRead" /\ w.row = v.row /\ w.ask = v.ask /\ w.on = v.on
          /\ w.asked = v.asked /\ w.todo = v.todo /\ w.report = v.report
      BY Stepping DEF ASession, Steps
    <3> HIDE DEF w
    <3>3. w.pc \in StepsOf(v.ask)
      BY <1>2, <3>2 DEF StepsOf
    <3>4. Whole(secret', Head(w.todo), w.on) /\ w.on = row[v.row].resource
      BY <1>1, <1>2, <3>2, Stepping, AboutRow DEF Reported
    <3>5. Reported(v, row', secret')
      <4>1. Placing(row, resource) /\ Grows(row, row', resource, resource')
        BY <2>4, HostingParts DEF RowsSound, Placing, Frame
      <4> QED
        BY <1>1, <4>1, Stepping, SoundRests DEF Sound
    <3> QED
      BY <1>1, <2>4, <3>1, <3>2, <3>3, <3>4, <3>5, GoesOnWithRow DEF Before
  <2> QED
    BY <1>4, <2>5, <2>6, <2>7 DEF Answered
<1> QED
  BY <1>3, <1>4 DEF RecordSecrets

-----------------------------------------------------------------------------
(* Environment variables.                                                  *)

LEMMA EnvReadKeeps ==
  ASSUME HostingIInv, NEW s \in Sessions, EnvRead(s)
  PROVE  HostingIInv'
<1> DEFINE v == session[s]
           r == row[v.row].resource
           w == [v EXCEPT !.pc = "envWrite", !.on = r, !.env = resource[r].env]
<1>1. /\ v.pc = "envRead" /\ ~Over(v) /\ v.pc \notin Before
      /\ UNCHANGED <<resource, row, project, connection, secret, targetFaults>>
  BY DEF EnvRead, At, Over, Before
<1>2. Frame(s)
  BY <1>1, TableTypes, FrameSame
<1>3. CASE Fails(s)
  BY <1>1, <1>2, <1>3, FailsKeeps
<1>4. CASE session' = [session EXCEPT ![s].pc = "envWrite", ![s].on = r, ![s].env = resource[r].env]
  <2>1. r \in Resources /\ resource[r].env \in [Keys -> Values]
    BY <1>1, AboutRow, TableTypes DEF Resource
  <2>2. session[s] \in ASession /\ session \in [Sessions -> ASession]
    BY TableTypes
  <2> HIDE DEF r
  <2>3. session' = [session EXCEPT ![s] = w]
    BY <1>4, <2>2 DEF ASession
  <2>4. /\ w \in ASession /\ w.pc = "envWrite" /\ w.row = v.row /\ w.ask = v.ask /\ w.on = r
        /\ w.asked = v.asked /\ w.todo = v.todo /\ w.report = v.report
    BY <2>1, <2>2 DEF ASession, Steps
  <2> HIDE DEF w
  <2>5. w.pc \in StepsOf(v.ask)
    <3>1. "envRead" \in StepsOf(v.ask)
      BY <1>1, Stepping
    <3> QED
      BY <3>1, <2>4 DEF StepsOf
  <2>6. w.ask = "provision" => Whole(secret', Head(w.todo), w.on)
    <3>1. w.ask = "provision" => v.on = r
      BY <1>1, <2>4, AboutRow DEF r
    <3> QED
      BY <1>1, <2>4, <3>1, Stepping DEF Reported
  <2>7. Reported(v, row', secret')
    BY <1>1, Stepping
  <2> QED
    BY <1>1, <1>2, <2>3, <2>4, <2>5, <2>6, <2>7, GoesOnWithRow DEF Before, r
<1> QED
  BY <1>3, <1>4 DEF EnvRead

LEMMA VarsTyped ==
  ASSUME HostingIInv, NEW s \in Sessions
  PROVE  Vars(s) \in SUBSET Keys /\ Value(s) \in Values
<1>1. session[s].wants \in SUBSET Keys
  BY Stepping DEF ASession
<1> QED
  BY <1>1, HostingAssumption DEF Vars, Value, Values

LEMMA EnvWriteKeeps ==
  ASSUME HostingIInv, NEW s \in Sessions, EnvWrite(s)
  PROVE  HostingIInv'
<1> DEFINE v == session[s]
           x == [resource[v.on] EXCEPT !.env = Sent(s)]
           w == [v EXCEPT !.pc = "envRecord"]
<1>1. /\ v.pc = "envWrite" /\ ~Over(v) /\ v.pc \notin Before
      /\ UNCHANGED <<row, project, connection, secret>>
  BY DEF EnvWrite, At, Over, Before
<1>2. CASE Fails(s) /\ UNCHANGED <<resource, targetFaults>>
  <2>1. Frame(s)
    BY <1>1, <1>2, TableTypes, FrameSame
  <2> QED
    BY <1>1, <1>2, <2>1, FailsKeeps
<1>3. CASE /\ resource' = [resource EXCEPT ![v.on].env = Sent(s)]
           /\ \/ session' = [session EXCEPT ![s].pc = "envRecord"] /\ targetFaults' = targetFaults
              \/ targetFaults < MaxTargetFaults /\ Fails(s) /\ targetFaults' = targetFaults + 1
  <2>1. v.on = row[v.row].resource /\ v.on \in Resources
    BY <1>1, AboutRow
  <2>2. targetFaults' \in 0..MaxTargetFaults
    BY <1>3, FaultsTyped
  <2>3. x \in Resource /\ x.state = resource[v.on].state
    <3>1. resource[v.on] \in Resource
      BY <2>1, TableTypes
    <3>2. v.env \in [Keys -> Values] /\ resource[v.on].env \in [Keys -> Values]
      BY <3>1, Stepping DEF Resource, ASession
    <3>3. Sent(s) \in [Keys -> Values]
      BY <3>2, VarsTyped DEF Sent, ReplacedList, UpsertedVars, Changed
    <3> QED
      BY <3>1, <3>3 DEF Resource
  <2>4. resource' = [resource EXCEPT ![v.on] = x]
    BY <1>3, <2>1, TableTypes
  <2> HIDE DEF x
  <2>5. Frame(s)
    BY <1>1, <2>1, <2>2, <2>3, <2>4, FrameResource
  <2>6. CASE Fails(s)
    BY <1>1, <2>5, <2>6, FailsKeeps
  <2>7. CASE session' = [session EXCEPT ![s].pc = "envRecord"]
    <3>1. session[s] \in ASession /\ session \in [Sessions -> ASession]
      BY TableTypes
    <3>2. session' = [session EXCEPT ![s] = w]
      BY <2>7, <3>1 DEF ASession
    <3>3. /\ w \in ASession /\ w.pc = "envRecord" /\ w.row = v.row /\ w.ask = v.ask /\ w.on = v.on
          /\ w.asked = v.asked /\ w.todo = v.todo /\ w.report = v.report
      BY <3>1 DEF ASession, Steps
    <3> HIDE DEF w
    <3>4. w.pc \in StepsOf(v.ask)
      <4>1. "envWrite" \in StepsOf(v.ask)
        BY <1>1, Stepping
      <4> QED
        BY <4>1, <3>3 DEF StepsOf
    <3>5. (w.ask = "provision" => Whole(secret', Head(w.todo), w.on)) /\ Reported(v, row', secret')
      BY <1>1, <3>3, Stepping DEF Reported
    <3> QED
      BY <1>1, <2>1, <2>5, <3>2, <3>3, <3>4, <3>5, GoesOnWithRow DEF Before
  <2> QED
    BY <1>3, <2>6, <2>7
<1> QED
  BY <1>2, <1>3 DEF EnvWrite

LEMMA EnvRecordKeeps ==
  ASSUME HostingIInv, NEW s \in Sessions, EnvRecord(s)
  PROVE  HostingIInv'
<1> DEFINE v == session[s]
           keys == IF v.ask = "unset" THEN row[v.row].keys \ Vars(s) ELSE row[v.row].keys \cup Vars(s)
           x == [row[v.row] EXCEPT !.keys = keys]
<1>1. /\ v.pc = "envRecord" /\ ~Over(v) /\ v.pc \notin Before
      /\ UNCHANGED <<resource, project, connection, secret, targetFaults>>
  BY DEF EnvRecord, At, Over, Before
<1>2. v.row \in Rows /\ row[v.row] \in Row /\ row[v.row].state # "none"
  BY <1>1, AboutRow
<1>3. CASE Fails(s) /\ UNCHANGED row
  <2>1. Frame(s)
    BY <1>1, <1>3, TableTypes, FrameSame
  <2> QED
    BY <1>1, <1>3, <2>1, FailsKeeps
<1>4. CASE /\ Done(s)
           /\ row' = [row EXCEPT ![v.row].keys =
                        IF v.ask = "unset" THEN @ \ Vars(s) ELSE @ \cup Vars(s)]
  <2>1. x \in Row /\ x.state # "none" /\ x.resource = row[v.row].resource
    <3>1. keys \in SUBSET Keys
      BY <1>2, VarsTyped DEF Row
    <3> HIDE DEF keys
    <3> QED
      BY <1>2, <3>1 DEF Row
  <2>2. row' = [row EXCEPT ![v.row] = x]
    BY <1>2, <1>4, TableTypes
  <2> HIDE DEF x
  <2>3. Frame(s)
    BY <1>1, <2>1, <2>2, TableTypes, RowWritten
  <2>4. session' = [session EXCEPT ![s] = Onward(v, v.row)]
    BY <1>4, TableTypes DEF Done
  <2> QED
    BY <1>1, <2>3, <2>4, OnwardWhole
<1> QED
  BY <1>3, <1>4 DEF EnvRecord

-----------------------------------------------------------------------------
(* Status of a target, its removal, and faults.                            *)

LEMMA StepOfKind ==
  ASSUME HostingIInv, NEW s \in Sessions,
         session[s].pc \in {"status", "metadata", "destroy", "drop"}
  PROVE  /\ ~Over(session[s]) /\ session[s].pc \notin Before
         /\ session[s].pc \in {"status", "metadata"} => session[s].ask = "sync"
         /\ session[s].pc \in {"destroy", "drop"} => session[s].ask \in {"detach", "delete"}
<1>1. ~Over(session[s]) /\ session[s].pc \notin Before
  BY DEF Over, Before
<1>2. session[s].pc \in StepsOf(session[s].ask)
  BY <1>1, Stepping
<1> QED
  BY <1>1, <1>2 DEF StepsOf

LEMMA CheckStatusKeeps ==
  ASSUME HostingIInv, NEW s \in Sessions, CheckStatus(s)
  PROVE  HostingIInv'
<1> DEFINE v == session[s]
           w == [v EXCEPT !.pc = "metadata"]
<1>1. /\ v.pc = "status" /\ UNCHANGED <<resource, row, project, connection, secret, targetFaults>>
      /\ ~Over(v) /\ v.pc \notin Before /\ v.ask = "sync"
  BY StepOfKind DEF CheckStatus, At
<1>2. Frame(s)
  BY <1>1, TableTypes, FrameSame
<1>3. CASE Done(s)
  <2>1. session' = [session EXCEPT ![s] = Onward(v, v.row)]
    BY <1>3, TableTypes DEF Done
  <2> QED
    BY <1>1, <1>2, <2>1, OnwardWhole
<1>4. CASE session' = [session EXCEPT ![s].pc = "metadata"]
  <2>1. session[s] \in ASession /\ session \in [Sessions -> ASession]
    BY TableTypes
  <2>2. session' = [session EXCEPT ![s] = w]
    BY <1>4, <2>1 DEF ASession
  <2>3. /\ w \in ASession /\ w.pc = "metadata" /\ w.row = v.row /\ w.ask = v.ask /\ w.on = v.on
        /\ w.asked = v.asked /\ w.todo = v.todo /\ w.report = v.report
    BY <2>1 DEF ASession, Steps
  <2> HIDE DEF w
  <2>4. w.pc \in StepsOf(v.ask) /\ w.on = row[v.row].resource /\ Reported(v, row', secret')
    BY <1>1, <2>3, AboutRow, Stepping DEF StepsOf
  <2> QED
    BY <1>1, <1>2, <2>2, <2>3, <2>4, GoesOnWithRow DEF Before
<1> QED
  BY <1>3, <1>4 DEF CheckStatus

LEMMA BackfillKeeps ==
  ASSUME HostingIInv, NEW s \in Sessions, Backfill(s)
  PROVE  HostingIInv'
<1> DEFINE v == session[s]
           x == [row[v.row] EXCEPT !.metadata = [v.read EXCEPT !.found = TRUE]]
<1>1. /\ v.pc = "metadata" /\ UNCHANGED <<resource, project, connection, secret, targetFaults>>
      /\ ~Over(v) /\ v.pc \notin Before /\ v.ask = "sync" /\ Done(s)
  BY StepOfKind DEF Backfill, At
<1>2. v.row \in Rows /\ row[v.row] \in Row /\ row[v.row].state # "none"
  BY <1>1, AboutRow
<1>3. Frame(s)
  <2>1. CASE row' = row
    BY <1>1, <2>1, TableTypes, FrameSame
  <2>2. CASE row' = [row EXCEPT ![v.row].metadata = [v.read EXCEPT !.found = TRUE]]
    <3>1. [v.read EXCEPT !.found = TRUE] \in Metadata
      <4>1. v.read \in Metadata
        BY Stepping DEF ASession
      <4> QED
        BY <4>1 DEF Metadata
    <3>2. x \in Row /\ x.state # "none" /\ x.resource = row[v.row].resource
      BY <1>2, <3>1 DEF Row
    <3>3. row' = [row EXCEPT ![v.row] = x]
      BY <1>2, <2>2, TableTypes
    <3> HIDE DEF x
    <3> QED
      BY <1>1, <3>2, <3>3, TableTypes, RowWritten
  <2> QED
    BY <2>1, <2>2 DEF Backfill
<1>4. session' = [session EXCEPT ![s] = Onward(v, v.row)]
  BY <1>1, TableTypes DEF Done
<1> QED
  BY <1>1, <1>3, <1>4, OnwardWhole

LEMMA DropRowKeeps ==
  ASSUME HostingIInv, NEW s \in Sessions, DropRow(s)
  PROVE  HostingIInv'
<1> DEFINE v == session[s]
           x == Deleted(row[v.row])
<1>1. /\ v.pc = "drop" /\ UNCHANGED <<resource, project, connection, secret, targetFaults>>
      /\ ~Over(v) /\ v.pc \notin Before /\ v.ask \in {"detach", "delete"} /\ Done(s)
  BY StepOfKind DEF DropRow, At
<1>2. v.row \in Rows /\ row[v.row] \in Row /\ row[v.row].state # "none" /\ row[v.row].resource \in Resources
  BY <1>1, AboutRow
<1>3. Frame(s)
  <2>1. CASE row' = row
    BY <1>1, <2>1, TableTypes, FrameSame
  <2>2. CASE row' = [row EXCEPT ![v.row] = Deleted(@)]
    <3>1. x \in Row /\ x.state # "none" /\ x.resource = row[v.row].resource
      BY <1>2, NothingFacts DEF Deleted, Empty, Row
    <3>2. row' = [row EXCEPT ![v.row] = x]
      BY <2>2
    <3> HIDE DEF x
    <3> QED
      BY <1>1, <3>1, <3>2, TableTypes, RowWritten
  <2> QED
    BY <2>1, <2>2 DEF DropRow
<1>4. session' = [session EXCEPT ![s] = Onward(v, v.row)]
  BY <1>1, TableTypes DEF Done
<1> QED
  BY <1>1, <1>3, <1>4, OnwardWhole

LEMMA DeleteResourceKeeps ==
  ASSUME HostingIInv, NEW s \in Sessions, DeleteResource(s)
  PROVE  HostingIInv'
<1> DEFINE v == session[s]
           x == [resource[v.on] EXCEPT !.state = "gone"]
<1>1. /\ v.pc = "destroy" /\ UNCHANGED <<row, project, connection, secret>>
      /\ ~Over(v) /\ v.pc \notin Before /\ v.ask \in {"detach", "delete"}
  BY StepOfKind DEF DeleteResource, At
<1>2. v.row \in Rows /\ row[v.row].state # "none" /\ v.on \in Resources /\ v.on = row[v.row].resource
      /\ resource[v.on].state # "none"
  BY <1>1, AboutRow
<1>3. targetFaults' \in 0..MaxTargetFaults
  BY FaultsTyped DEF DeleteResource
<1>4. resource' = resource \/ resource' = [resource EXCEPT ![v.on] = x]
  BY <1>2, TableTypes DEF DeleteResource, Removed
<1>5. Frame(s)
  <2>1. CASE resource' = resource
    BY <1>1, <1>3, <2>1, FrameSame
  <2>2. CASE resource' = [resource EXCEPT ![v.on] = x]
    <3>1. x \in Resource /\ x.state = "gone"
      <4>1. resource[v.on] \in Resource
        BY <1>2, TableTypes
      <4> QED
        BY <4>1 DEF Resource
    <3> HIDE DEF x
    <3> QED
      BY <1>1, <1>2, <1>3, <2>2, <3>1, FrameResource
  <2> QED
    BY <1>4, <2>1, <2>2
<1>6. PICK what \in {"error", "deleted"} :
        /\ session' = [session EXCEPT ![s].pc = "drop", ![s].said = what]
        /\ what = "deleted" => \/ resource' = [resource EXCEPT ![v.on].state = "gone"]
                               \/ resource' = resource /\ (Live(v.on) => ~RightScope(Head(v.todo)))
  <2> DEFINE says(what) == session' = [session EXCEPT ![s].pc = "drop", ![s].said = what]
  <2>1. \/ says("error")
        \/ says("deleted") /\ resource' = [resource EXCEPT ![v.on].state = "gone"]
        \/ says("deleted") /\ resource' = resource /\ (Live(v.on) => ~RightScope(Head(v.todo)))
    BY DEF DeleteResource, Removed, Head1
  <2> QED
    BY <2>1
<1> DEFINE w == [v EXCEPT !.pc = "drop", !.said = what]
<1>7. session[s] \in ASession /\ session \in [Sessions -> ASession]
  BY TableTypes
<1>8. session' = [session EXCEPT ![s] = w]
  BY <1>6, <1>7 DEF ASession
<1>9. /\ w \in ASession /\ w.pc = "drop" /\ w.row = v.row /\ w.ask = v.ask /\ w.on = v.on
      /\ w.asked = v.asked /\ w.todo = v.todo /\ w.report = v.report /\ w.said = what
  BY <1>7 DEF ASession, Steps
<1> HIDE DEF w
<1>10. w.pc \in StepsOf(v.ask)
  BY <1>1, <1>9 DEF StepsOf
<1>11. SessionTyped(w) /\ Reported(w, row', secret')
  BY <1>1, <1>9, <1>10, Stepping, Moves
<1>12. Placed(w, row', resource')
  BY <1>1, <1>2, <1>9 DEF Placed
<1>13. DetachAnswer(w, resource', connection'.team)
  <2> SUFFICES ASSUME what = "deleted"
               PROVE  resource'[v.on].state # "live" \/ (Head(v.todo) = "vercel" /\ Byo /\ connection.team)
    BY <1>1, <1>9 DEF DetachAnswer
  <2>1. CASE resource' = [resource EXCEPT ![v.on].state = "gone"]
    BY <1>2, <2>1, TableTypes
  <2>2. CASE resource' = resource /\ (Live(v.on) => ~RightScope(Head(v.todo)))
    BY <2>2 DEF Live, RightScope
  <2> QED
    BY <1>6, <2>1, <2>2
<1> QED
  BY <1>1, <1>5, <1>8, <1>9, <1>11, <1>12, <1>13, StepKeeps DEF Sound

LEMMA FaultKeeps ==
  ASSUME HostingIInv, NEW s \in Sessions, Mishap(s)
  PROVE  HostingIInv'
<1>1. CASE StepFails(s)
  <2>1. ~Over(session[s]) /\ Fails(s) /\ UNCHANGED <<resource, row, project, connection, secret>>
        /\ targetFaults < MaxTargetFaults /\ targetFaults' = targetFaults + 1
    BY <1>1 DEF StepFails, Over
  <2>2. Frame(s)
    BY <2>1, FaultsTyped, FrameSame
  <2> QED
    BY <2>1, <2>2, FailsKeeps
<1>2. CASE Crash(s)
  <2> DEFINE w == Ended(IdleSession)
  <2>1. /\ session' = [session EXCEPT ![s] = w] /\ UNCHANGED <<resource, row, project, connection, secret>>
        /\ targetFaults < MaxTargetFaults /\ targetFaults' = targetFaults + 1
    BY <1>2 DEF Crash
  <2>2. IdleSession.ask = "none" /\ IdleSession.asked = {} /\ IdleSession.report = Nothing
    BY IdleIs
  <2>3. w.pc = "done" /\ w.ask = "none"
    BY <2>2, EndedIs
  <2>4. \A p \in Providers : IdleSession.report[p] \notin Rows
    BY <2>2, NothingFacts, HostingAssumption
  <2>5. Sound(w, row', resource', secret', connection'.team)
    BY <2>2, <2>4, NothingFacts, EndedSound
  <2>6. Frame(s)
    BY <2>1, FaultsTyped, FrameSame
  <2> HIDE DEF w
  <2> QED
    BY <2>1, <2>3, <2>5, <2>6, StepKeeps
<1> QED
  BY <1>1, <1>2 DEF Mishap

-----------------------------------------------------------------------------
(* Steps of others, and the invariant.                                     *)

\* Nothing of a request changes, and what it stands on stays.
LEMMA OthersRest ==
  ASSUME HostingIInv, session' = session,
         Grows(row, row', resource, resource'), connection'.team = connection.team, secret' = secret
  PROVE  SessionsSound' /\ RequestsTyped'
<1>1. Placing(row, resource)
  BY HostingParts DEF RowsSound, Placing
<1>2. \A s \in Sessions : Sound(session[s], row, resource, secret, connection.team)
  BY HostingParts DEF SessionsSound
<1>3. \A s \in Sessions : Sound(session[s], row', resource', secret', connection'.team)
  BY <1>1, <1>2, SoundRests
<1> QED
  BY <1>3, HostingParts DEF SessionsSound, RequestsTyped

LEMMA RevokeKeeps ==
  ASSUME HostingIInv, RevokeConnection
  PROVE  HostingIInv'
<1>1. UNCHANGED <<resource, row, project, secret, session, targetFaults>>
      /\ connection' = [connection EXCEPT !.active = FALSE]
  BY DEF RevokeConnection
<1>2. connection' \in [active : BOOLEAN, team : BOOLEAN] /\ connection'.team = connection.team
  BY <1>1, HostingParts DEF TablesTyped
<1>3. Grows(row, row', resource, resource')
  BY <1>1 DEF Grows
<1>4. SessionsSound' /\ RequestsTyped'
  BY <1>1, <1>2, <1>3, OthersRest
<1>5. TablesTyped'
  BY <1>1, <1>2, HostingParts DEF TablesTyped
<1>6. RowsSound' /\ OneProvision' /\ RoomLeft'
  BY <1>1, HostingParts DEF RowsSound, OneProvision, Provisions, RoomLeft, Pending, Unused
<1> QED
  BY <1>4, <1>5, <1>6, HostingParts, PTL

LEMMA DisconnectKeeps ==
  ASSUME HostingIInv, DisconnectProject
  PROVE  HostingIInv'
<1>1. UNCHANGED <<resource, connection, secret, session, targetFaults>> /\ project' = "gone"
      /\ row' = [i \in Rows |-> IF Stored(i) THEN Deleted(row[i]) ELSE row[i]]
  BY DEF DisconnectProject
<1>2. \A i \in Rows : /\ row'[i] \in Row /\ (row[i].state = "none" => row'[i] = row[i])
                      /\ row[i].state # "none" => row'[i].state # "none" /\ row'[i].resource = row[i].resource
  <2> SUFFICES ASSUME NEW i \in Rows
               PROVE  /\ row'[i] \in Row /\ (row[i].state = "none" => row'[i] = row[i])
                      /\ row[i].state # "none" => row'[i].state # "none" /\ row'[i].resource = row[i].resource
    OBVIOUS
  <2>1. row[i] \in Row
    BY TableTypes
  <2>2. row'[i] = IF Stored(i) THEN Deleted(row[i]) ELSE row[i]
    BY <1>1
  <2>3. CASE Stored(i)
    BY <2>1, <2>2, <2>3, NothingFacts DEF Deleted, Empty, Row, Stored
  <2> QED
    BY <2>1, <2>2, <2>3
<1>3. Grows(row, row', resource, resource')
  BY <1>1, <1>2 DEF Grows
<1>4. SessionsSound' /\ RequestsTyped'
  BY <1>1, <1>3, OthersRest
<1>5. TablesTyped'
  <2>1. row' \in [Rows -> Row]
    BY <1>1, <1>2
  <2> QED
    BY <1>1, <2>1, HostingParts DEF TablesTyped
<1>6. RowsSound'
  BY <1>1, <1>2, HostingParts DEF RowsSound
<1>7. OneProvision'
  BY <1>1, HostingParts DEF OneProvision, Provisions
<1>8. RoomLeft'
  <2>1. Unused' = Unused
    BY <1>2 DEF Unused
  <2>2. Pending' = Pending
    BY <1>1 DEF Pending
  <2> QED
    BY <2>1, <2>2, HostingParts DEF RoomLeft
<1> QED
  BY <1>4, <1>5, <1>6, <1>7, <1>8, HostingParts, PTL

LEMMA DeletedOutsideKeeps ==
  ASSUME HostingIInv, DeletedOutside
  PROVE  HostingIInv'
<1>1. UNCHANGED <<row, project, connection, secret, session>> /\ targetFaults' \in 0..MaxTargetFaults
  BY FaultsTyped DEF DeletedOutside
<1>2. PICK r \in Resources : Live(r) /\ resource' = [resource EXCEPT ![r].state = "gone"]
  BY DEF DeletedOutside
<1>3. \A q \in Resources : /\ resource'[q] \in Resource /\ (resource[q].state # "none" => resource'[q].state # "none")
                           /\ resource[q].state # "live" => resource'[q].state # "live"
  BY <1>2, TableTypes DEF Resource, Live
<1>4. Grows(row, row', resource, resource')
  BY <1>1, <1>3 DEF Grows
<1>5. SessionsSound' /\ RequestsTyped'
  BY <1>1, <1>4, OthersRest
<1>6. TablesTyped'
  <2>1. resource' \in [Resources -> Resource]
    BY <1>2, <1>3, TableTypes
  <2> QED
    BY <1>1, <2>1, HostingParts DEF TablesTyped
<1>7. RowsSound'
  BY <1>1, <1>3, HostingParts DEF RowsSound
<1>8. OneProvision' /\ RoomLeft'
  BY <1>1, HostingParts DEF OneProvision, Provisions, RoomLeft, Pending, Unused
<1> QED
  BY <1>5, <1>6, <1>7, <1>8, HostingParts, PTL

LEMMA HostingStarts ==
  ASSUME HostingInit
  PROVE  HostingIInv
<1>1. resource \in [Resources -> Resource]
  BY NothingFacts DEF HostingInit, Resource
<1>2. \A r \in Standing : r \in Resources /\ resource[r].state = "live"
  BY HostingAssumption DEF HostingInit
<1>3. /\ row \in [Rows -> Row] /\ RowsSound
      /\ project \in {"new", "provisioned", "gone"}
  <2>1. CASE row = [i \in Rows |-> Empty] /\ project = "new"
    BY <2>1, NothingFacts DEF RowsSound, Row, Empty
  <2>2. CASE /\ project = "provisioned"
             /\ \E i \in Rows, r \in Standing :
                  row = [[j \in Rows |-> Empty] EXCEPT ![i] = [Empty EXCEPT !.state = "stored", !.resource = r]]
    <3>1. PICK i \in Rows, r \in Standing :
            row = [[j \in Rows |-> Empty] EXCEPT ![i] = [Empty EXCEPT !.state = "stored", !.resource = r]]
      BY <2>2
    <3> DEFINE x == [Empty EXCEPT !.state = "stored", !.resource = r]
    <3>2. x \in Row /\ x.state = "stored" /\ x.resource = r /\ Empty \in Row /\ Empty.state = "none"
      BY <1>2, NothingFacts DEF Row, Empty
    <3>3. row = [[j \in Rows |-> Empty] EXCEPT ![i] = x]
      BY <3>1
    <3> HIDE DEF x
    <3> QED
      BY <1>2, <2>2, <3>2, <3>3 DEF RowsSound
  <2> QED
    BY <2>1, <2>2 DEF HostingInit
<1>4. /\ connection \in [active : BOOLEAN, team : BOOLEAN]
      /\ secret \in [Providers -> [id : Resources \cup {Absent}, url : Resources \cup {Absent}]]
      /\ targetFaults \in 0..MaxTargetFaults
  <2>1. connection \in [active : BOOLEAN, team : BOOLEAN]
    BY HostingAssumption DEF HostingInit
  <2>2. secret = [p \in Providers |-> [id |-> Absent, url |-> Absent]]
    BY DEF HostingInit
  <2>3. targetFaults = 0 /\ MaxTargetFaults \in Nat
    BY HostingAssumption DEF HostingInit
  <2> QED
    BY <2>1, <2>2, <2>3
<1>5. \A s \in Sessions : session[s] = IdleSession
  BY DEF HostingInit
<1>6. IdleSession \in ASession
  BY IdleIs, NothingFacts DEF ASession, Steps, Lists
<1>7. RequestsTyped
  BY <1>6 DEF HostingInit, RequestsTyped
<1>8. Sound(IdleSession, row, resource, secret, connection.team)
  <2>1. /\ IdleSession.pc = "idle" /\ IdleSession.ask = "none" /\ IdleSession.asked = {} /\ IdleSession.report = Nothing
    BY IdleIs
  <2>2. SessionTyped(IdleSession)
    BY <2>1, <1>6 DEF SessionTyped, Over
  <2>3. Placed(IdleSession, row, resource) /\ DetachAnswer(IdleSession, resource, connection.team)
    BY <2>1 DEF Placed, DetachAnswer, Over
  <2>4. \A p \in Providers : IdleSession.report[p] \notin Rows
    BY <2>1, NothingFacts, HostingAssumption
  <2>5. Reported(IdleSession, row, secret)
    BY <2>1, <2>4 DEF Reported, Over
  <2> QED
    BY <2>2, <2>3, <2>5 DEF Sound
<1>9. SessionsSound
  BY <1>5, <1>8 DEF SessionsSound
<1>10. \A s \in Sessions : session[s].pc = "idle" /\ session[s].ask = "none"
  BY <1>5, IdleIs
<1>11. OneProvision
  BY <1>10 DEF OneProvision, Provisions
<1>12. RoomLeft
  <2>1. Pending = {}
    BY <1>10 DEF Pending
  <2> QED
    BY <2>1, PendingFinite, FS_EmptySet DEF RoomLeft
<1>13. TablesTyped
  BY <1>1, <1>3, <1>4 DEF TablesTyped
<1> QED
  BY <1>3, <1>7, <1>9, <1>11, <1>12, <1>13, HostingParts

LEMMA StepKeepsAll ==
  ASSUME HostingIInv, NEW s \in Sessions, Step(s)
  PROVE  HostingIInv'
  BY AdmitKeeps, CreateResourceKeeps, CreateRefusedKeeps, RegisterExistingKeeps, InsertRowKeeps,
     InsertRefusedKeeps, InstallSecretIdKeeps, InstallSecretUrlKeeps, RecordSecretsKeeps, EnvReadKeeps,
     EnvWriteKeeps, EnvRecordKeeps, CheckStatusKeeps, BackfillKeeps, DeleteResourceKeeps, DropRowKeeps
  DEF Step

LEMMA HostingStep ==
  ASSUME HostingIInv, [HostingNext]_hostingVars
  PROVE  HostingIInv'
<1>1. CASE \E s \in Sessions : MakeRequest(s) \/ Step(s) \/ Mishap(s)
  BY <1>1, RequestKeeps, StepKeepsAll, FaultKeeps
<1>2. CASE RevokeConnection
  BY <1>2, RevokeKeeps
<1>3. CASE DisconnectProject
  BY <1>3, DisconnectKeeps
<1>4. CASE DeletedOutside
  BY <1>4, DeletedOutsideKeeps
<1>5. CASE UNCHANGED hostingVars
  <2>1. UNCHANGED <<resource, row, project, connection, secret, session, targetFaults>>
    BY <1>5 DEF hostingVars
  <2>2. TablesTyped' /\ RequestsTyped'
    BY <2>1, HostingParts DEF TablesTyped, RequestsTyped
  <2>3. SessionsSound' /\ RowsSound'
    BY <2>1, HostingParts DEF SessionsSound, RowsSound
  <2>4. OneProvision' /\ RoomLeft'
    BY <2>1, HostingParts DEF OneProvision, Provisions, RoomLeft, Pending, Unused
  <2> QED
    BY <2>2, <2>3, <2>4, HostingParts, PTL
<1> QED
  BY <1>1, <1>2, <1>3, <1>4, <1>5 DEF HostingNext

LEMMA HostingInvariant ==
  HostingSpec => []HostingIInv
<1>1. HostingInit => HostingIInv
  BY HostingStarts
<1>2. HostingIInv /\ [HostingNext]_hostingVars => HostingIInv'
  BY HostingStep
<1> QED
  BY <1>1, <1>2, PTL DEF HostingSpec

LEMMA ReportsFollow ==
  ASSUME HostingIInv
  PROVE  ReportsAreTrue
<1>1. HostingTypeOK
  BY DEF HostingIInv
<1>2. CreatedIsWhole
  <2> SUFFICES ASSUME NEW s \in Sessions, NEW p \in Providers, session[s].report[p] \in Rows
               PROVE  Whole(secret, p, row[session[s].report[p]].resource)
    BY DEF CreatedIsWhole, Whole
  <2>1. Reported(session[s], row, secret)
    BY Stepping
  <2> QED
    BY <2>1 DEF Reported
<1>3. DeletedIsGone
  BY Stepping DEF DeletedIsGone, DetachAnswer, At, Live, RightScope, Head1
<1>4. EveryTargetReported
  BY Stepping DEF EveryTargetReported, Reported, Over, At
<1> QED
  BY <1>1, <1>2, <1>3, <1>4 DEF ReportsAreTrue

\* What a provisioning or a detach tells its user of every target is so: a target that is
\* reported as created has its secrets, each in the repository and each its own service's, every
\* target that was asked for is reported, and what is called deleted is gone (provisionForProject,
\* detachDeploymentTarget).
THEOREM HostingReportsAreTrue ==
  HostingSpec => []ReportsAreTrue
<1>1. HostingIInv => ReportsAreTrue
  BY ReportsFollow
<1> QED
  BY <1>1, HostingInvariant, PTL

-----------------------------------------------------------------------------
(* What a step does to the rows.                                           *)

Others(i) == \A j \in Rows \ {i} : row'[j] = row[j]

Inserts(s, i) ==
  /\ session[s].pc = "insert" /\ session[s].count + 1 <= Limit /\ session[s].count \in Nat
  /\ row[i].state = "none" /\ row'[i].state = "stored" /\ Others(i)
Drops(s, i) ==
  /\ session[s].pc = "drop" /\ session[s].row = i /\ resource' = resource
  /\ row[i].state = "stored" /\ row'[i].state = "deleted" /\ Others(i)
Writes(s, i) ==
  /\ session[s].row = i /\ row'[i].state = row[i].state /\ row'[i].resource = row[i].resource
  /\ \A f \in {"secrets", "found"} :
       row[i].metadata[f] /\ ~row'[i].metadata[f] => ~session[s].read[f]
  /\ Others(i)

LEMMA InsertsRow ==
  ASSUME HostingIInv, NEW s \in Sessions, InsertRow(s)
  PROVE  \E i \in Rows : Inserts(s, i)
<1> DEFINE i == CHOOSE j \in Unused : TRUE
           x == [Empty EXCEPT !.state = "stored", !.resource = session[s].on, !.metadata = session[s].read]
<1>1. session[s].pc = "insert" /\ row' = [row EXCEPT ![i] = x]
  BY DEF InsertRow, At
<1>2. i \in Unused
  <2>1. s \in Pending
    BY <1>1 DEF Pending
  <2>2. Cardinality(Pending) # 0
    BY <2>1, PendingFinite, FS_EmptySet
  <2>3. Cardinality(Unused) # 0
    BY <2>2, PendingFinite, HostingParts DEF RoomLeft
  <2>4. Unused # {}
    BY <2>3, FS_EmptySet
  <2> QED
    BY <2>4
<1>3. x.state = "stored"
  BY DEF Empty
<1> HIDE DEF i, x
<1>4. i \in Rows /\ row[i].state = "none"
  BY <1>2 DEF Unused
<1>5. row'[i].state = "stored" /\ Others(i)
  BY <1>1, <1>3, <1>4, TableTypes DEF Others
<1>6. session[s].count \in Nat /\ session[s].count + 1 <= Limit
  BY <1>1, AtCreate, Stepping DEF ASession
<1> QED
  BY <1>1, <1>4, <1>5, <1>6 DEF Inserts

LEMMA DropsRow ==
  ASSUME HostingIInv, NEW s \in Sessions, DropRow(s), row' # row
  PROVE  \E i \in Rows : Drops(s, i)
<1> DEFINE i == session[s].row
<1>1. /\ session[s].pc = "drop" /\ resource' = resource /\ Stored(i)
      /\ row' = [row EXCEPT ![i] = Deleted(@)]
  BY DEF DropRow, At
<1>2. i \in Rows /\ row[i].state = "stored"
  BY <1>1 DEF Stored
<1>3. Deleted(row[i]).state = "deleted"
  BY DEF Deleted, Empty
<1>4. row'[i] = Deleted(row[i]) /\ Others(i)
  BY <1>1, <1>2, TableTypes DEF Others
<1> QED
  BY <1>1, <1>2, <1>3, <1>4 DEF Drops

\* Metadata that is written whole from what a request read.
LEMMA WritesRow ==
  ASSUME HostingIInv, NEW s \in Sessions, row' # row,
         RecordSecrets(s) \/ EnvRecord(s) \/ Backfill(s)
  PROVE  \E i \in Rows : Writes(s, i)
<1> DEFINE i == session[s].row
<1>1. Stored(i)
  BY DEF RecordSecrets, EnvRecord, Backfill
<1>2. i \in Rows /\ row[i] \in Row /\ session[s] \in ASession
  BY <1>1, TableTypes DEF Stored
<1>3. row[i].metadata \in Metadata /\ session[s].read \in Metadata
  BY <1>2 DEF Row, ASession
<1>4. CASE RecordSecrets(s)
  <2>1. row' = [row EXCEPT ![i].metadata = RecordedMetadata(s)]
    BY <1>4 DEF RecordSecrets
  <2>2. /\ row'[i] = [row[i] EXCEPT !.metadata = RecordedMetadata(s)] /\ Others(i)
    BY <2>1, <1>2, TableTypes DEF Others
  <2>3. row'[i].state = row[i].state /\ row'[i].resource = row[i].resource
        /\ row'[i].metadata = RecordedMetadata(s)
    BY <1>2, <2>2 DEF Row
  <2>4. /\ RecordedMetadata(s)["secrets"] = TRUE
        /\ RecordedMetadata(s)["found"] = session[s].read["found"]
    BY <1>3 DEF RecordedMetadata, Metadata
  <2> QED
    BY <1>2, <2>2, <2>3, <2>4 DEF Writes
<1>5. CASE EnvRecord(s)
  <2> DEFINE keys == IF session[s].ask = "unset" THEN row[i].keys \ Vars(s) ELSE row[i].keys \cup Vars(s)
  <2>1. row' = [row EXCEPT ![i] = [row[i] EXCEPT !.keys = keys]]
    BY <1>2, <1>5, TableTypes DEF EnvRecord
  <2> HIDE DEF keys
  <2>2. row'[i] = [row[i] EXCEPT !.keys = keys] /\ Others(i)
    BY <2>1, <1>2, TableTypes DEF Others
  <2>3. row'[i].state = row[i].state /\ row'[i].resource = row[i].resource
        /\ row'[i].metadata = row[i].metadata
    BY <1>2, <2>2 DEF Row
  <2> QED
    BY <1>2, <2>2, <2>3 DEF Writes
<1>6. CASE Backfill(s)
  <2> DEFINE m == [session[s].read EXCEPT !.found = TRUE]
  <2>1. row' = [row EXCEPT ![i].metadata = m]
    BY <1>6 DEF Backfill
  <2>2. m["found"] = TRUE /\ m["secrets"] = session[s].read["secrets"]
    BY <1>3 DEF Metadata
  <2> HIDE DEF m
  <2>3. row'[i] = [row[i] EXCEPT !.metadata = m] /\ Others(i)
    BY <2>1, <1>2, TableTypes DEF Others
  <2>4. row'[i].state = row[i].state /\ row'[i].resource = row[i].resource
        /\ row'[i].metadata = m
    BY <1>2, <2>3 DEF Row
  <2> QED
    BY <1>2, <2>2, <2>3, <2>4 DEF Writes
<1> QED
  BY <1>4, <1>5, <1>6

LEMMA RowChange ==
  ASSUME HostingIInv, [HostingNext]_hostingVars
  PROVE  \/ row' = row
         \/ project' = "gone" /\ \A i \in Rows : row'[i].state # "stored"
         \/ \E s \in Sessions, i \in Rows : Inserts(s, i) \/ Drops(s, i) \/ Writes(s, i)
<1>1. ASSUME NEW s \in Sessions, MakeRequest(s) \/ Mishap(s)
      PROVE  row' = row
  BY <1>1 DEF MakeRequest, Mishap, ProvisionForProject, CreateTarget, SyncTarget, DetachTarget,
     DeleteTarget, ProvisionEnvVars, DeleteEnvMetadata, OnTarget, StepFails, Crash
<1>2. ASSUME NEW s \in Sessions, Step(s)
      PROVE  row' = row \/ \E i \in Rows : Inserts(s, i) \/ Drops(s, i) \/ Writes(s, i)
  <2>1. CASE InsertRow(s)
    BY <2>1, InsertsRow
  <2>2. CASE DropRow(s)
    BY <2>2, DropsRow
  <2>3. CASE RecordSecrets(s) \/ EnvRecord(s) \/ Backfill(s)
    BY <2>3, WritesRow
  <2>4. CASE \/ Admit(s) \/ CreateResource(s) \/ CreateRefused(s) \/ RegisterExisting(s)
             \/ InsertRefused(s) \/ InstallSecretId(s) \/ InstallSecretUrl(s) \/ EnvRead(s)
             \/ EnvWrite(s) \/ CheckStatus(s) \/ DeleteResource(s)
    BY <2>4 DEF Admit, CreateResource, CreateRefused, RegisterExisting, InsertRefused,
       InstallSecretId, InstallSecretUrl, EnvRead, EnvWrite, CheckStatus, DeleteResource
  <2> QED
    BY <1>2, <2>1, <2>2, <2>3, <2>4 DEF Step
<1>3. CASE DisconnectProject
  <2>1. project' = "gone" /\ row' = [i \in Rows |-> IF Stored(i) THEN Deleted(row[i]) ELSE row[i]]
    BY <1>3 DEF DisconnectProject
  <2>2. \A i \in Rows : Deleted(row[i]).state = "deleted"
    BY DEF Deleted, Empty
  <2> QED
    BY <2>1, <2>2 DEF Stored
<1>4. CASE RevokeConnection \/ DeletedOutside \/ UNCHANGED hostingVars
  BY <1>4 DEF RevokeConnection, DeletedOutside, hostingVars
<1> QED
  BY <1>1, <1>2, <1>3, <1>4 DEF HostingNext

-----------------------------------------------------------------------------
(* What is lost, and what lost it.                                         *)

LEMMA StrandedStep ==
  ASSUME HostingIInv, [HostingNext]_hostingVars, NEW r \in Resources,
         Tracked(r), ~Tracked(r)', Live(r)'
  PROVE  \/ project' = "gone"
         \/ \E s \in Sessions : /\ session[s].on = r
                                /\ \/ At(s, "insert")
                                   \/ /\ At(s, "drop")
                                      /\ session[s].said = "deleted" => ~RightScope(Head1(s))
<1>1. CASE \E s \in Sessions : At(s, "insert") /\ session[s].on = r
  BY <1>1
<1>2. CASE \E i \in Rows : Stored(i) /\ row[i].resource = r
  <2>1. PICK i \in Rows : Stored(i) /\ row[i].resource = r
    BY <1>2
  <2>2. ~(row'[i].state = "stored" /\ row'[i].resource = r)
    BY <2>1 DEF Tracked, Stored
  <2>3. row' # row
    BY <2>1, <2>2 DEF Stored
  <2>4. ASSUME NEW s \in Sessions, NEW j \in Rows, Inserts(s, j) \/ Writes(s, j) PROVE FALSE
    BY <2>1, <2>2, <2>4 DEF Stored, Inserts, Writes, Others
  <2>5. ASSUME NEW s \in Sessions, NEW j \in Rows, Drops(s, j)
        PROVE  /\ session[s].on = r /\ At(s, "drop")
               /\ session[s].said = "deleted" => ~RightScope(Head1(s))
    <3>1. j = i
      BY <2>1, <2>2, <2>5 DEF Stored, Drops, Others
    <3>2. session[s].pc = "drop" /\ session[s].row = i /\ resource' = resource
      BY <2>5, <3>1 DEF Drops
    <3>3. session[s].on = r
      BY <2>1, <3>2, StepOfKind, AboutRow
    <3>4. resource[r].state = "live"
      BY <3>2 DEF Live
    <3> QED
      BY <3>2, <3>3, <3>4, Stepping DEF DetachAnswer, At, RightScope, Head1
  <2> QED
    BY <2>3, <2>4, <2>5, RowChange
<1> QED
  BY <1>1, <1>2 DEF Tracked

\* A running resource is lost track of only when its project is disconnected, when a detach
\* that does not call it deleted drops its row, or when the request that created it ends before
\* the row is written (createDeploymentTarget, detachDeploymentTarget).
THEOREM HostingStrandedOnlyBeforeItsRow ==
  HostingSpec => StrandedOnlyBeforeItsRow
<1> DEFINE Rule ==
      \A r \in Resources : Tracked(r) /\ ~Tracked(r)' /\ Live(r)' =>
        \/ project' = "gone"
        \/ \E s \in Sessions : /\ session[s].on = r
                               /\ \/ At(s, "insert")
                                  \/ At(s, "drop") /\ (session[s].said = "deleted" => ~RightScope(Head1(s)))
<1>1. HostingIInv /\ [HostingNext]_hostingVars => Rule
  BY StrandedStep
<1>2. HostingSpec => [][Rule]_hostingVars
  <2> HIDE DEF Rule
  <2> QED
    BY <1>1, HostingInvariant, PTL DEF HostingSpec
<1> QED
  BY <1>2 DEF StrandedOnlyBeforeItsRow

\* The variables of a service are written by a list that was sent for it, and by nothing else.
LEMMA EnvChange ==
  ASSUME HostingIInv, [HostingNext]_hostingVars, NEW r \in Resources,
         Live(r), resource'[r].env # resource[r].env
  PROVE  \E s \in Sessions : EnvWrite(s) /\ session[s].on = r /\ resource'[r].env = Sent(s)
<1>1. resource[r] \in Resource /\ resource[r].state = "live"
  BY TableTypes DEF Live
<1>2. ASSUME NEW s \in Sessions, MakeRequest(s) \/ Mishap(s)
      PROVE  FALSE
  <2>1. resource' = resource
    BY <1>2 DEF MakeRequest, Mishap, ProvisionForProject, CreateTarget, SyncTarget, DetachTarget,
       DeleteTarget, ProvisionEnvVars, DeleteEnvMetadata, OnTarget, StepFails, Crash
  <2> QED
    BY <2>1
<1>3. ASSUME NEW q \in Resources, resource' = [resource EXCEPT ![q].state = "gone"]
      PROVE  FALSE
  <2>1. CASE q = r
    <3>1. resource'[r] = [resource[r] EXCEPT !.state = "gone"]
      BY <1>3, <2>1, TableTypes
    <3> QED
      BY <1>1, <3>1 DEF Resource
  <2>2. CASE q # r
    BY <1>3, <2>2, TableTypes
  <2> QED
    BY <2>1, <2>2
<1>4. ASSUME NEW s \in Sessions, Step(s)
      PROVE  EnvWrite(s) /\ session[s].on = r /\ resource'[r].env = Sent(s)
  <2>1. CASE EnvWrite(s)
    <3>1. resource' # resource
      OBVIOUS
    <3>2. resource' = [resource EXCEPT ![session[s].on].env = Sent(s)]
      BY <2>1, <3>1 DEF EnvWrite
    <3>3. session[s].on = r
      <4>1. session[s].on # r => resource'[r] = resource[r]
        BY <3>2, TableTypes
      <4> QED
        BY <4>1
    <3>4. resource'[r] = [resource[r] EXCEPT !.env = Sent(s)]
      BY <3>2, <3>3, TableTypes
    <3> QED
      BY <1>1, <2>1, <3>3, <3>4 DEF Resource
  <2>2. CASE CreateResource(s)
    <3> DEFINE q == CHOOSE x \in Resources : Fresh(x)
    <3>1. q \in Resources /\ Fresh(q) /\ resource' = [resource EXCEPT ![q] = Born(s)]
      BY <2>2 DEF CreateResource
    <3> HIDE DEF q
    <3>2. q # r
      BY <1>1, <3>1 DEF Fresh
    <3> QED
      BY <3>1, <3>2, TableTypes
  <2>3. CASE DeleteResource(s)
    <3>1. resource' = resource \/ resource' = [resource EXCEPT ![session[s].on].state = "gone"]
      BY <2>3 DEF DeleteResource, Removed
    <3>2. session[s].on \in Resources
      BY <2>3, StepOfKind, AboutRow DEF DeleteResource, At
    <3> QED
      BY <1>3, <3>1, <3>2
  <2>4. CASE \/ Admit(s) \/ CreateRefused(s) \/ RegisterExisting(s) \/ InsertRow(s)
             \/ InsertRefused(s) \/ InstallSecretId(s) \/ InstallSecretUrl(s) \/ RecordSecrets(s)
             \/ EnvRead(s) \/ EnvRecord(s) \/ CheckStatus(s) \/ Backfill(s) \/ DropRow(s)
    <3>1. resource' = resource
      BY <2>4 DEF Admit, CreateRefused, RegisterExisting, InsertRow, InsertRefused,
         InstallSecretId, InstallSecretUrl, RecordSecrets, EnvRead, EnvRecord,
         CheckStatus, Backfill, DropRow
    <3> QED
      BY <3>1
  <2> QED
    BY <1>4, <2>1, <2>2, <2>3, <2>4 DEF Step
<1>5. CASE DeletedOutside
  BY <1>3, <1>5 DEF DeletedOutside
<1>6. CASE RevokeConnection \/ DisconnectProject \/ UNCHANGED hostingVars
  <2>1. resource' = resource
    BY <1>6 DEF RevokeConnection, DisconnectProject, hostingVars
  <2> QED
    BY <2>1
<1> QED
  BY <1>2, <1>4, <1>5, <1>6 DEF HostingNext

LEMMA KeyLostStep ==
  ASSUME HostingIInv, [HostingNext]_hostingVars, NEW r \in Resources, NEW k \in Keys,
         Live(r), resource[r].env[k] # "none", resource'[r].env[k] = "none"
  PROVE  \E s \in Sessions : /\ At(s, "envWrite") /\ session[s].on = r
                             /\ \/ session[s].ask = "unset" /\ k \in Vars(s)
                                \/ session[s].env[k] = "none"
<1>1. PICK s \in Sessions : EnvWrite(s) /\ session[s].on = r /\ resource'[r].env = Sent(s)
  BY EnvChange
<1>2. At(s, "envWrite")
  BY <1>1 DEF EnvWrite
<1>3. Sent(s)[k] = "none"
  BY <1>1
<1>4. CASE k \in Vars(s)
  <2>1. Value(s) = "none"
    BY <1>3, <1>4 DEF Sent, ReplacedList, UpsertedVars, Changed
  <2> QED
    BY <1>1, <1>2, <1>4, <2>1 DEF Value
<1>5. CASE k \notin Vars(s)
  <2>1. Sent(s)[k] = session[s].env[k] \/ Sent(s)[k] = resource[r].env[k]
    BY <1>1, <1>5 DEF Sent, ReplacedList, UpsertedVars, Changed
  <2> QED
    BY <1>1, <1>2, <1>3, <2>1
<1> QED
  BY <1>4, <1>5

LEMMA ForgottenStep ==
  ASSUME HostingIInv, [HostingNext]_hostingVars, NEW i \in Rows, NEW f \in {"secrets", "found"},
         Stored(i), Stored(i)', row[i].metadata[f], ~row'[i].metadata[f]
  PROVE  \E s \in Sessions : session[s].row = i /\ ~session[s].read[f]
<1>1. row' # row /\ row[i].state = "stored" /\ row'[i].state = "stored" /\ row'[i] # row[i]
  BY DEF Stored
<1>2. ASSUME NEW s \in Sessions, NEW j \in Rows, Inserts(s, j) \/ Drops(s, j)
      PROVE  FALSE
  BY <1>1, <1>2 DEF Inserts, Drops, Others
<1>3. ASSUME NEW s \in Sessions, NEW j \in Rows, Writes(s, j)
      PROVE  session[s].row = i /\ ~session[s].read[f]
  BY <1>1, <1>3 DEF Writes, Others
<1> QED
  BY <1>1, <1>2, <1>3, RowChange

LEMMA CountIs ==
  /\ Count = Cardinality({i \in Rows : row[i].state = "stored"}) /\ Count \in Nat
  /\ Count' = Cardinality({i \in Rows : row'[i].state = "stored"}) /\ Count' \in Nat
  /\ IsFiniteSet({i \in Rows : row[i].state = "stored"})
  /\ IsFiniteSet({i \in Rows : row'[i].state = "stored"})
<1> DEFINE old == {i \in Rows : row[i].state = "stored"}
           new == {i \in Rows : row'[i].state = "stored"}
<1>1. IsFiniteSet(Rows) /\ old \subseteq Rows /\ new \subseteq Rows
  BY HostingAssumption
<1>2. IsFiniteSet(old) /\ IsFiniteSet(new)
  BY <1>1, FS_Subset
<1>3. {i \in Rows : Stored(i)} = old /\ {i \in Rows : Stored(i)'} = new
  BY DEF Stored
<1>4. Count = Cardinality(old) /\ Count' = Cardinality(new)
  BY <1>3 DEF Count
<1>5. Count = Cardinality(old) /\ Count' = Cardinality(new)
  BY <1>4
<1> QED
  BY <1>2, <1>5, FS_CardinalityType

LEMMA OvershootStep ==
  ASSUME HostingIInv, [HostingNext]_hostingVars, Count' > Limit, Count' > Count
  PROVE  \E s \in Sessions : At(s, "insert") /\ session[s].count < Count
<1> DEFINE old == {i \in Rows : row[i].state = "stored"}
           new == {i \in Rows : row'[i].state = "stored"}
<1>1. /\ Count = Cardinality(old) /\ Count \in Nat /\ IsFiniteSet(old)
      /\ Count' = Cardinality(new) /\ Count' \in Nat /\ IsFiniteSet(new)
  BY CountIs
<1>2. ~(new \subseteq old)
  <2> SUFFICES ASSUME new \subseteq old PROVE FALSE
    OBVIOUS
  <2> HIDE DEF new, old
  <2>1. Cardinality(new) <= Cardinality(old)
    BY <1>1, FS_Subset
  <2> QED
    BY <1>1, <2>1
<1>3. PICK s \in Sessions, i \in Rows : Inserts(s, i)
  <2>1. ASSUME NEW s \in Sessions, NEW i \in Rows, Drops(s, i) \/ Writes(s, i) PROVE FALSE
    BY <1>2, <2>1 DEF Drops, Writes, Others
  <2>2. row' # row /\ ~(\A i \in Rows : row'[i].state # "stored")
    BY <1>2
  <2> QED
    BY <2>1, <2>2, RowChange
<1>4. new = old \cup {i} /\ i \notin old
  BY <1>3 DEF Inserts, Others
<1> HIDE DEF new, old
<1>5. Cardinality(new) = Cardinality(old) + 1
  BY <1>1, <1>4, FS_AddElement
<1>6. session[s].pc = "insert" /\ session[s].count + 1 <= Limit /\ session[s].count \in Nat /\ Limit \in Nat
  BY <1>3, HostingAssumption DEF Inserts
<1>7. session[s].count < Count
  BY <1>1, <1>5, <1>6
<1> QED
  BY <1>6, <1>7 DEF At

\* No variable of a running service and nothing recorded of a target is lost, and no limit of
\* the plan exceeded, but by two requests that read and wrote across one another
\* (provisionEnvVars, deleteEnvMetadata, syncDeploymentTarget, createDeploymentTarget).
THEOREM HostingLostOnlyByOverlap ==
  HostingSpec => LostOnlyByOverlap
<1> DEFINE KeyLost ==
      \A r \in Resources, k \in Keys :
        Live(r) /\ resource[r].env[k] # "none" /\ resource'[r].env[k] = "none" =>
          \E s \in Sessions : /\ At(s, "envWrite") /\ session[s].on = r
                             /\ \/ session[s].ask = "unset" /\ k \in Vars(s)
                                \/ session[s].env[k] = "none"
           Forgotten ==
      \A i \in Rows, f \in {"secrets", "found"} :
        Stored(i) /\ Stored(i)' /\ row[i].metadata[f] /\ ~row'[i].metadata[f] =>
          \E s \in Sessions : session[s].row = i /\ ~session[s].read[f]
           Overshoot ==
      Count' > Limit /\ Count' > Count =>
        \E s \in Sessions : At(s, "insert") /\ session[s].count < Count
<1>1. HostingIInv /\ [HostingNext]_hostingVars => KeyLost /\ Forgotten /\ Overshoot
  <2> SUFFICES ASSUME HostingIInv, [HostingNext]_hostingVars PROVE KeyLost /\ Forgotten /\ Overshoot
    OBVIOUS
  <2>1. KeyLost
    BY KeyLostStep
  <2>2. Forgotten
    BY ForgottenStep
  <2>3. Overshoot
    BY OvershootStep
  <2> QED
    BY <2>1, <2>2, <2>3
<1>2. HostingSpec => [][KeyLost]_hostingVars /\ [][Forgotten]_hostingVars /\ [][Overshoot]_hostingVars
  <2> HIDE DEF KeyLost, Forgotten, Overshoot
  <2> QED
    BY <1>1, HostingInvariant, PTL DEF HostingSpec
<1> QED
  BY <1>2 DEF LostOnlyByOverlap, KeyLostOnlyByOverlap, ForgottenOnlyByStaleWrite, OvershootOnlyByOverlap

=============================================================================
