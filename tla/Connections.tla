----------------------------- MODULE Connections -----------------------------
(***************************************************************************)
(* The pool of database connections of one process and the two ways into   *)
(* it: DatabaseService.query, which repeats a statement once when its      *)
(* connection fails, and DatabaseService.withClient, which probes a        *)
(* connection before it lends it and never runs its function twice.        *)
(*                                                                         *)
(* A call is a statement, a transaction, or a poll of the outbox: a        *)
(* transaction that, connection in hand, makes the statements of its jobs  *)
(* through the same pool.  Polls overlap, since the timer that starts them *)
(* does not wait for the last one.                                         *)
(*                                                                         *)
(* The pool itself and the server are external: who waits is served in     *)
(* order, an idle connection is preferred to a new one, a wait ends after  *)
(* connectionTimeoutMillis, and a connection is removed when it is         *)
(* released with an error or is known to be broken.                        *)
(*                                                                         *)
(* A ROLLBACK that times out behind a stuck statement is never sent, and   *)
(* withClient releases without an error: the connection is free and still  *)
(* in a transaction, and what comes next on it is part of it.              *)
(***************************************************************************)
EXTENDS Naturals, FiniteSets, SequencesExt

CONSTANTS
  Calls,        \* the calls made to the pool
  Kind,         \* what each call is: "query", "transaction" or "poll"
  Parent,       \* the poll a statement is made for, NoOne when for no poll
  Conns,        \* the connections the pool may hold (max)
  MaxFaults,    \* how often the network or a statement fails
  NoOne

ASSUME KindAssumption == Kind \in [Calls -> {"query", "transaction", "poll"}]

\* The statements of a job are plain queries, and a poll is made by the timer.
ASSUME ParentAssumption ==
  /\ Parent \in [Calls -> Calls \cup {NoOne}]
  /\ \A u \in Calls : Parent[u] # NoOne =>
       Kind[u] = "query" /\ Kind[Parent[u]] = "poll"

ASSUME FaultsAssumption == MaxFaults \in Nat /\ NoOne \notin Calls

VARIABLES
  conn,      \* each connection, see Connection
  queue,     \* the calls that wait for a connection, in order
  at,        \* where each call is
  retried,   \* the calls that have used their second connection
  applied,   \* how often the effect of each call was committed
  lost,      \* calls whose effect was committed and whose answer never came
  answer,    \* what the caller was told
  unrolled,  \* calls that failed and whose ROLLBACK was never sent
  inside,    \* statements that were executed in a transaction another call had left
  faults     \* failures so far

vars == <<conn, queue, at, retried, applied, lost, answer, unrolled, inside, faults>>

Stages == {"away", "waiting", "checking", "working", "answered"}

\* Open at the server, or cut; lent to whom; in a transaction or in one that was aborted;
\* who was answered and has part of it; and who left it open.
Connection ==
  [state: {"none", "live", "cut"}, by: Calls \cup {NoOne},
   open: {"none", "begun", "aborted"}, held: SUBSET Calls, left: Calls \cup {NoOne}]

Clean == [state |-> "live", by |-> NoOne, open |-> "none", held |-> {}, left |-> NoOne]
Unopened == [Clean EXCEPT !.state = "none"]

TypeOK ==
  /\ conn \in [Conns -> Connection]
  /\ queue \in Seq(Calls)
  /\ at \in [Calls -> Stages]
  /\ retried \subseteq Calls
  /\ applied \in [Calls -> 0 .. 2]
  /\ lost \subseteq Calls
  /\ answer \in [Calls -> {"none", "done", "failed"}]
  /\ unrolled \subseteq Calls /\ inside \subseteq Calls
  /\ faults \in 0 .. MaxFaults

Init ==
  /\ conn = [c \in Conns |-> Unopened]
  /\ queue = <<>>
  /\ at = [u \in Calls |-> "away"]
  /\ retried = {}
  /\ applied = [u \in Calls |-> 0]
  /\ lost = {}
  /\ answer = [u \in Calls |-> "none"]
  /\ unrolled = {} /\ inside = {}
  /\ faults = 0

Idle == {c \in Conns : conn[c].state # "none" /\ conn[c].by = NoOne}
Vacant == {c \in Conns : conn[c].state = "none"}

\* Connections that are not open are all alike.
FirstVacant == CHOOSE c \in Vacant : TRUE

Lent(u, c, state) == conn[c].by = u /\ conn[c].state = state

\* release() when no transaction is open: the connection stays in the pool;
\* release(true): it is closed.
Release(c) == conn' = [conn EXCEPT ![c] = [Clean EXCEPT !.state = conn[c].state]]
Destroy(c) == conn' = [conn EXCEPT ![c] = Unopened]

Jobs(u) == {j \in Calls : Parent[j] = u}
JobRuns(u) == \E j \in Jobs(u) : at[j] \in {"waiting", "working"}

Fault == faults < MaxFaults /\ faults' = faults + 1

Answer(u, what) ==
  /\ at' = [at EXCEPT ![u] = "answered"]
  /\ answer' = [answer EXCEPT ![u] = what]

Wait(u) ==
  /\ at' = [at EXCEPT ![u] = "waiting"]
  /\ queue' = Append(queue, u)

\* A failure of the connection: one more try on another one, or a 503.
RetryOnce(u) ==
  IF u \in retried
  THEN Answer(u, "failed") /\ UNCHANGED <<queue, retried>>
  ELSE /\ Wait(u)
       /\ retried' = retried \cup {u}
       /\ UNCHANGED answer

-----------------------------------------------------------------------------
(* The pool *)

\* A call is made; a job's statements follow one another inside its poll.
Ask(u) ==
  /\ at[u] = "away"
  /\ Parent[u] # NoOne => at[Parent[u]] = "working" /\ ~JobRuns(Parent[u])
  /\ Wait(u)
  /\ UNCHANGED <<conn, retried, applied, lost, answer, unrolled, inside, faults>>

\* The first in the queue is lent an idle connection, or else a new one.
Take(u) ==
  /\ queue # <<>> /\ u = Head(queue)
  /\ Idle \cup Vacant # {}
  /\ \E c \in IF Idle # {} THEN Idle ELSE {FirstVacant} :
       conn' = [conn EXCEPT ![c].by = u,
                  ![c].state = IF @ = "none" THEN "live" ELSE @]
  /\ queue' = Tail(queue)
  /\ at' = [at EXCEPT ![u] = IF Kind[u] = "query" THEN "working" ELSE "checking"]
  /\ UNCHANGED <<retried, applied, lost, answer, unrolled, inside, faults>>

\* No connection can be opened: query tries again, withClient gives up.
ConnectRefused(u) ==
  /\ queue # <<>> /\ u = Head(queue)
  /\ Idle = {} /\ Vacant # {}
  /\ Fault
  /\ IF Kind[u] = "query" /\ u \notin retried
     THEN /\ retried' = retried \cup {u}
          /\ queue' = Append(Tail(queue), u)
          /\ UNCHANGED <<at, answer>>
     ELSE /\ Answer(u, "failed")
          /\ queue' = Tail(queue)
          /\ UNCHANGED retried
  /\ UNCHANGED <<conn, applied, lost, unrolled, inside>>

\* Mutant: connectionTimeoutMillis is left at its default, which is to wait on.
WaitNeverTimesOut(u) == FALSE /\ UNCHANGED vars

\* connectionTimeoutMillis: not an error that is tried again.
WaitTimesOut(u) ==
  /\ \E i \in DOMAIN queue : queue[i] = u /\ queue' = RemoveAt(queue, i)
  /\ Idle = {} /\ Vacant = {}
  /\ Answer(u, "failed")
  /\ UNCHANGED <<conn, retried, applied, lost, unrolled, inside, faults>>

\* The network or the server's pooler drops a connection; nobody is told, and the server
\* rolls back what was open.
Cut(c) ==
  /\ conn[c].state = "live"
  /\ Fault
  /\ conn' = [conn EXCEPT ![c] = [Clean EXCEPT !.state = "cut", !.by = conn[c].by]]
  /\ UNCHANGED <<queue, at, retried, applied, lost, answer, unrolled, inside>>

\* The pool's 'error' event: the idle connection is removed, the process lives.
IdleError(c) ==
  /\ c \in Idle /\ conn[c].state = "cut"
  /\ Destroy(c)
  /\ UNCHANGED <<queue, at, retried, applied, lost, answer, unrolled, inside, faults>>

-----------------------------------------------------------------------------
(* query *)

Statement(u, c) ==
  /\ Kind[u] = "query" /\ Lent(u, c, "live") /\ conn[c].open = "none"
  /\ applied' = [applied EXCEPT ![u] = @ + 1]
  /\ Release(c)
  /\ Answer(u, "done")
  /\ UNCHANGED <<queue, retried, lost, unrolled, inside, faults>>

\* In a transaction that was left open: done, and committed only with it.
StatementInside(u, c) ==
  /\ Kind[u] = "query" /\ Lent(u, c, "live") /\ conn[c].open = "begun"
  /\ conn' = [conn EXCEPT ![c].by = NoOne, ![c].held = @ \cup {u}]
  /\ inside' = inside \cup {u}
  /\ Answer(u, "done")
  /\ UNCHANGED <<queue, retried, applied, lost, unrolled, faults>>

\* In one that was aborted, the server refuses whatever comes.
Refused(u, c) ==
  /\ Lent(u, c, "live") /\ conn[c].open = "aborted"
  /\ Destroy(c)
  /\ Answer(u, "failed")
  /\ UNCHANGED <<queue, retried, applied, lost, unrolled, inside, faults>>

\* The statement itself is wrong, or query_timeout runs out while the server
\* executes it: never tried again.
StatementFails(u, c) ==
  /\ Kind[u] = "query" /\ Lent(u, c, "live")
  /\ Fault
  /\ \/ UNCHANGED <<applied, lost>>
     \/ /\ conn[c].open = "none"
        /\ applied' = [applied EXCEPT ![u] = @ + 1]
        /\ lost' = lost \cup {u}
  /\ Destroy(c)
  /\ Answer(u, "failed")
  /\ UNCHANGED <<queue, retried, unrolled, inside>>

\* The connection was gone before the statement was sent; when only query_timeout finds
\* out, the statement is not tried again.
GoneBefore(u, c) ==
  /\ Lent(u, c, "cut")
  /\ Destroy(c)
  /\ RetryOnce(u) \/ (Answer(u, "failed") /\ UNCHANGED <<queue, retried>>)
  /\ UNCHANGED <<applied, lost, unrolled, inside, faults>>

StatementUnsent(u, c) == Kind[u] = "query" /\ GoneBefore(u, c)

\* The server executed the statement and the connection broke before it said so.
StatementUnanswered(u, c) ==
  /\ Kind[u] = "query" /\ Lent(u, c, "live") /\ conn[c].open = "none"
  /\ Fault
  /\ applied' = [applied EXCEPT ![u] = @ + 1]
  /\ lost' = lost \cup {u}
  /\ Destroy(c)
  /\ RetryOnce(u)
  /\ UNCHANGED <<unrolled, inside>>

-----------------------------------------------------------------------------
(* withClient *)

\* SELECT 1 is answered, also in a transaction that was left open; the function runs: its
\* first statement is BEGIN, of which the server warns if there is one.
Probe(u, c) ==
  /\ Kind[u] # "query" /\ at[u] = "checking" /\ Lent(u, c, "live") /\ conn[c].open # "aborted"
  /\ at' = [at EXCEPT ![u] = "working"]
  /\ conn' = [conn EXCEPT ![c].open = "begun"]
  /\ UNCHANGED <<queue, retried, applied, lost, answer, unrolled, inside, faults>>

\* The connection was stale: it is destroyed and one fresh one is asked for.
ProbeUnsent(u, c) == at[u] = "checking" /\ GoneBefore(u, c)

\* The probe fails for another reason: the caller's problem.
ProbeFails(u, c) ==
  /\ at[u] = "checking" /\ Lent(u, c, "live")
  /\ Fault
  /\ Destroy(c)
  /\ Answer(u, "failed")
  /\ UNCHANGED <<queue, retried, applied, lost, unrolled, inside>>

InTransaction(u) == Kind[u] # "query" /\ at[u] = "working" /\ ~JobRuns(u)

\* COMMIT: what others have in the transaction is committed with it.
Committed(u, c) ==
  applied' = [v \in Calls |->
                IF v = u \/ v \in conn[c].held THEN applied[v] + 1 ELSE applied[v]]

\* Every job of the poll is through; COMMIT and release.
Commit(u, c) ==
  /\ InTransaction(u) /\ Lent(u, c, "live")
  /\ \A j \in Jobs(u) : at[j] = "answered"
  /\ Committed(u, c)
  /\ Release(c)
  /\ Answer(u, "done")
  /\ UNCHANGED <<queue, retried, lost, unrolled, inside, faults>>

\* Mutant: the handler releases the connection without a ROLLBACK.
TransactionFailsOpen(u, c) ==
  /\ InTransaction(u) /\ Lent(u, c, "live")
  /\ Fault
  /\ conn' = [conn EXCEPT ![c].by = NoOne]
  /\ Answer(u, "failed")
  /\ UNCHANGED <<queue, retried, applied, lost, unrolled, inside>>

\* A statement of the function fails; ROLLBACK, release, and the error goes on.
TransactionFails(u, c) ==
  /\ InTransaction(u) /\ Lent(u, c, "live")
  /\ Fault
  /\ Release(c)
  /\ Answer(u, "failed")
  /\ UNCHANGED <<queue, retried, applied, lost, unrolled, inside>>

\* A statement is stuck until query_timeout, and ROLLBACK behind it: it is never sent, the
\* failure is swallowed or goes on, and withClient releases without an error.  Where
\* statement_timeout struck, the transaction is aborted.
TransactionLeftOpen(u, c) ==
  /\ InTransaction(u) /\ Lent(u, c, "live")
  /\ Fault
  /\ \E how \in {"begun", "aborted"} :
       conn' = [conn EXCEPT ![c].by = NoOne, ![c].open = how, ![c].left = u,
                            ![c].held = IF how = "begun" THEN @ \cup {u} ELSE {}]
  /\ unrolled' = unrolled \cup {u}
  /\ Answer(u, "failed")
  /\ UNCHANGED <<queue, retried, applied, lost, inside>>

\* The connection is gone, and ROLLBACK fails too: the pool drops the connection if the
\* driver knows, and keeps it when the statements only ran out of time.
TransactionCut(u, c) ==
  /\ InTransaction(u) /\ Lent(u, c, "cut")
  /\ Destroy(c) \/ Release(c)
  /\ Answer(u, "failed")
  /\ UNCHANGED <<queue, retried, applied, lost, unrolled, inside, faults>>

\* Mutant: withClient repeats its function as query repeats a statement.
CommitAgain(u, c) ==
  /\ InTransaction(u) /\ Lent(u, c, "live")
  /\ \A j \in Jobs(u) : at[j] = "answered"
  /\ Fault
  /\ Committed(u, c)
  /\ lost' = lost \cup {u}
  /\ Destroy(c)
  /\ RetryOnce(u)
  /\ UNCHANGED <<unrolled, inside>>

\* The connection breaks after COMMIT was executed and before it was answered.
CommitUnanswered(u, c) ==
  /\ InTransaction(u) /\ Lent(u, c, "live")
  /\ \A j \in Jobs(u) : at[j] = "answered"
  /\ Fault
  /\ Committed(u, c)
  /\ lost' = lost \cup {u}
  /\ Destroy(c)
  /\ Answer(u, "failed")
  /\ UNCHANGED <<queue, retried, unrolled, inside>>

-----------------------------------------------------------------------------

\* What a call does by itself once it has its connection.
Proceed(u) ==
  \E c \in Conns :
    \/ Statement(u, c) \/ StatementInside(u, c) \/ Refused(u, c) \/ StatementUnsent(u, c)
    \/ Probe(u, c) \/ ProbeUnsent(u, c)
    \/ Commit(u, c) \/ TransactionCut(u, c)

\* What the driver, the server and a running poll do without being asked.
GoOn(u) ==
  \/ Take(u) \/ WaitTimesOut(u) \/ Proceed(u)
  \/ Parent[u] # NoOne /\ Ask(u)

Fail(u) ==
  \E c \in Conns :
    \/ StatementFails(u, c) \/ StatementUnanswered(u, c)
    \/ ProbeFails(u, c)
    \/ TransactionFails(u, c) \/ TransactionLeftOpen(u, c) \/ CommitUnanswered(u, c)

Next ==
  \/ \E u \in Calls :
       Ask(u) \/ Take(u) \/ ConnectRefused(u) \/ WaitTimesOut(u) \/ Proceed(u) \/ Fail(u)
  \/ \E c \in Conns : Cut(c) \/ IdleError(c)

Spec == Init /\ [][Next]_vars

\* The driver and the server go on by themselves: whoever is next is served,
\* a wait runs out, a statement is answered, and a poll goes through its jobs.
\* A call is made once and takes finitely many steps, so that fairness of the
\* whole leaves no single call behind.
FairSpec == Spec /\ WF_vars(\E u \in Calls : GoOn(u))

-----------------------------------------------------------------------------

\* A caller that was told "done" has its effect committed, unless it is a statement that
\* was executed in a transaction another call had left; one that was told "failed" has
\* not, unless the answer of the server was lost, or its own transaction was left open and
\* another call committed it.  A transaction is committed at most once whatever fails; a
\* statement is committed twice only when the answer to its first execution was lost and
\* query repeated it.  (withClient: "fn never runs twice"; query: "a single retry".)
AppliedAsAnswered ==
  \A u \in Calls :
    /\ answer[u] = "done" /\ applied[u] = 0 => Kind[u] = "query" /\ u \in inside
    /\ answer[u] = "failed" /\ applied[u] > 0 => u \in lost \cup unrolled
    /\ applied[u] > 1 => Kind[u] = "query" /\ u \in lost

\* A connection in the pool is in no transaction, unless a call that was told "failed" left
\* it there because its ROLLBACK was never sent, each call one; and a call that was answered
\* has given its connection back: three leaks would stop the process.  (withClient: finally
\* client.release().)
FreeIsClean ==
  /\ \A c \in Conns :
       /\ conn[c].by = NoOne /\ conn[c].open # "none" =>
            conn[c].left \in unrolled /\ answer[conn[c].left] = "failed"
       /\ conn[c].by # NoOne => at[conn[c].by] \in {"checking", "working"}
  /\ \A c, d \in Conns : conn[c].left = conn[d].left /\ conn[c].left # NoOne => c = d

\* The pool is sound, and of its type.
PoolIsSound == TypeOK /\ FreeIsClean

\* Whoever asks for a connection is answered, also when every connection is
\* held by a poll whose job waits for another one: the wait of the job runs out.
EveryoneAnswered ==
  <>[](\A u \in Calls : at[u] \in {"away", "answered"})

=============================================================================
