------------------------------ MODULE Caravan ------------------------------
(***************************************************************************)
(* Caravan, the job queue of packages/caravan: any number of instances     *)
(* (processes that called caravan()) claim and run the rows of one SQLite  *)
(* file.  Every SQL statement is one atomic step; a handler runs between   *)
(* the step that claims its row and the step that writes its outcome.      *)
(*                                                                         *)
(* Time is abstracted: a lease may expire whenever nothing renews it, and  *)
(* a pending row is due whenever a poll looks at it, so run_at, and with   *)
(* it ORDER BY priority, run_at, choose nothing here.  An instance is one  *)
(* owner id: a process that crashes never comes back under the same id,    *)
(* one that calls stop() and start() again does.                           *)
(***************************************************************************)
EXTENDS Naturals, FiniteSets

CONSTANTS
  Instance, Job, Queue, Holder,
  Null,          \* SQL's NULL: no owner, no unique key, no stated holder
  Every,         \* '*', the scope of a pause over every queue
  QueueOf,       \* the queue each job's handler is registered on
  KeyOf,         \* the unique key each job is dispatched with, or Null
  Serves,        \* the jobs each instance has a handler for
  Timed,         \* the jobs whose handler declares a timeout
  MaxAttempts, Concurrency,
  MaxClaims,     \* bound: how often one job is ever claimed
  Crashing, Stalling, Stopping, Restarting,  \* which instances may do so
  Refused,       \* instances whose completion write SQLite may refuse
  Verbs          \* the operator verbs in use

ASSUME CaravanAssumption ==
  /\ Null \notin Instance /\ Every \notin Queue
  /\ QueueOf \in [Job -> Queue] /\ Serves \in [Instance -> SUBSET Job]
  /\ MaxAttempts \in Nat /\ Concurrency \in Nat /\ MaxClaims \in Nat

VARIABLES
  row,      \* the jobs table; status "absent" is a job with no row
  claims,   \* history: how many times each job has been claimed
  execs,    \* the handler invocations in progress
  slot,     \* a worker's _running and _aborts: the run its entry for a job is about, 0 if none
  phase,    \* what each instance is doing
  lease,    \* the instances whose job_owners row is younger than the lease
  pauses,   \* the queue_pauses table
  drains,   \* the scopes some drain() call is waiting on
  quiet     \* history: scopes reported drained under their pause, not resumed since

vars == <<row, claims, execs, slot, phase, lease, pauses, drains, quiet>>
operators == <<pauses, drains, quiet>>

Scope == Queue \union {Every}
Live  == {"pending", "running"}
Terminal == {"done", "dead", "cancelled"}
Status == {"absent"} \union Live \union Terminal
Phase == {"off", "up", "stalled", "draining", "stopped", "dead"}

\* fate is "held" until the attempt times out, or loses its row to a cancel or
\* to another instance's reclaim; open is FALSE once its worker is closed; told
\* is its ctx.signal; try is record.attempts as the claim returned it.
Fate == {"held", "timeout", "cancel", "lease"}
Exec == [job: Job, inst: Instance, run: Nat, try: Nat,
         fate: Fate, open: BOOLEAN, told: BOOLEAN]
Row  == [status: Status, owner: Instance \union {Null}, tries: Nat]

NoRow == [status |-> "absent", owner |-> Null, tries |-> 0]
NewRow == [status |-> "pending", owner |-> Null, tries |-> 0]

Init ==
  /\ row = [j \in Job |-> NoRow]
  /\ claims = [j \in Job |-> 0]
  /\ execs = {}
  /\ slot = [i \in Instance |-> [j \in Job |-> 0]]
  /\ phase = [i \in Instance |-> "off"]
  /\ lease = {}
  /\ pauses = {} /\ drains = {}
  /\ quiet = {}

-----------------------------------------------------------------------------
(* Reads of the table                                                      *)

\* WHERE status = 'running' AND owner_id = $owner
Holds(i, j) == row[j].status = "running" /\ row[j].owner = i

InScope(j, s) == s \in {Every, QueueOf[j]}

Paused(q) == \E p \in pauses : p.queue \in {q, Every}

\* Whether the partial index jobs_unique_live lets this job become live.
KeyFree(j) ==
  KeyOf[j] # Null =>
    \A k \in Job \ {j} : KeyOf[k] = KeyOf[j] => row[k].status \notin Live

\* JavaScript runs in this process.
Awake(i) == phase[i] \in {"up", "draining", "stopped"}

-----------------------------------------------------------------------------
(* Dispatch                                                                *)

\* A stated id whose row exists, or a unique key a live row holds, returns
\* that row's id and changes nothing: those dispatches are stuttering steps.
Dispatch(j) ==
  /\ row[j].status = "absent"
  /\ KeyFree(j)
  /\ row' = [row EXCEPT ![j] = NewRow]
  /\ UNCHANGED <<claims, execs, slot, phase, lease, operators>>

-----------------------------------------------------------------------------
(* The worker                                                              *)

\* _abortLost: the controllers of worker (i, q) whose job is no longer held.
HeardNothing(i, q) == execs
Heard(i, q) ==
  {IF /\ x.inst = i /\ x.open /\ QueueOf[x.job] = q
      /\ slot[i][x.job] = x.run /\ ~Holds(i, x.job)
   THEN [x EXCEPT !.told = TRUE] ELSE x : x \in execs}

RoomForOneMore(i, q) ==
  Cardinality({k \in Job : QueueOf[k] = q /\ slot[i][k] # 0}) <= Concurrency
Room(i, q) ==
  Cardinality({k \in Job : QueueOf[k] = q /\ slot[i][k] # 0}) < Concurrency

ClaimableMissingEvery(i, j) ==
  /\ row[j].status = "pending"
  /\ j \in Serves[i]
  /\ ~ \E p \in pauses : p.queue = QueueOf[j]
Claimable(i, j) ==
  /\ row[j].status = "pending"
  /\ j \in Serves[i]
  /\ ~Paused(QueueOf[j])

\* One poll that claims: lost attempts are told, then one row is taken and its
\* handler invoked.  A poll that claims several rows is several such steps.
Poll(i, j) ==
  /\ phase[i] = "up"
  /\ Claimable(i, j) /\ Room(i, QueueOf[j])
  /\ claims[j] < MaxClaims
  /\ row' = [row EXCEPT ![j] =
               [status |-> "running", owner |-> i, tries |-> @.tries + 1]]
  /\ claims' = [claims EXCEPT ![j] = @ + 1]
  /\ slot' = [slot EXCEPT ![i][j] = claims[j] + 1]
  /\ execs' = Heard(i, QueueOf[j]) \union
       {[job |-> j, inst |-> i, run |-> claims[j] + 1, try |-> row[j].tries + 1,
         fate |-> "held", open |-> TRUE, told |-> FALSE]}
  /\ UNCHANGED <<phase, lease, operators>>

\* One poll that finds nothing to claim, or no room to run it.
PollIdle(i, q) ==
  /\ phase[i] = "up"
  /\ execs' = Heard(i, q)
  /\ UNCHANGED <<row, claims, slot, phase, lease, operators>>

\* Where the attempt's outcome is written: not through a closed handle, and not
\* unless this INSTANCE (not this attempt) owns the running row.
LandsUnowned(x) == x.open /\ row[x.job].status = "running"
LandsOnAnyStatus(x) == x.open /\ row[x.job].owner = x.inst
Lands(x) == x.open /\ Holds(x.inst, x.job)

\* The finally block: the entry deleted is the job's, whichever run it is about.
\* An abandoned attempt's worker is gone, and its entries with it.
Leave(x) == slot' = IF x.open THEN [slot EXCEPT ![x.inst][x.job] = 0] ELSE slot

\* _write swallows a refusal (SQLITE_BUSY, a full disk): the outcome is lost.
Outcome(x, status) ==
  \/ row' = IF Lands(x)
            THEN [row EXCEPT ![x.job] = [@ EXCEPT !.status = status, !.owner = Null]]
            ELSE row
  \/ x.inst \in Refused /\ UNCHANGED row

FailureOffByOne(x, retryable) ==
  IF x.try > MaxAttempts \/ ~retryable THEN "dead" ELSE "pending"
FailureNamedFailed(x, retryable) ==
  IF x.try >= MaxAttempts \/ ~retryable THEN "failed" ELSE "pending"
Failure(x, retryable) ==
  IF x.try >= MaxAttempts \/ ~retryable THEN "dead" ELSE "pending"

\* The handler returned, or threw, with the attempt not yet timed out.
Finish(x) ==
  /\ Awake(x.inst) /\ x.fate # "timeout"
  /\ \/ Outcome(x, "done")
     \/ \E retryable \in BOOLEAN : Outcome(x, Failure(x, retryable))
  /\ Leave(x)
  /\ execs' = execs \ {x}
  /\ UNCHANGED <<claims, phase, lease, operators>>

\* _bounded's timer fires first: the attempt fails as if it had thrown, its
\* signal aborts, and the handler itself runs on as an orphan.
TimeOutUnrecorded(x) ==
  /\ Awake(x.inst) /\ x.job \in Timed /\ x.fate # "timeout"
  /\ Leave(x)
  /\ execs' = (execs \ {x}) \union {[x EXCEPT !.fate = "timeout", !.told = TRUE]}
  /\ UNCHANGED <<row, claims, phase, lease, operators>>
TimeOut(x) ==
  /\ Awake(x.inst) /\ x.job \in Timed /\ x.fate # "timeout"
  /\ Outcome(x, Failure(x, TRUE))
  /\ Leave(x)
  /\ execs' = (execs \ {x}) \union {[x EXCEPT !.fate = "timeout", !.told = TRUE]}
  /\ UNCHANGED <<claims, phase, lease, operators>>

\* _orphanSettled: the timed-out handler ends; it only says so.
OrphanEnds(x) ==
  /\ Awake(x.inst) /\ x.fate = "timeout"
  /\ execs' = execs \ {x}
  /\ UNCHANGED <<row, claims, slot, phase, lease, operators>>

-----------------------------------------------------------------------------
(* Ownership: heartbeat, reclaim, start, stop, crash                       *)

\* reclaimAbandoned, given the owners heard from within the lease.
AbandonedAll(j, alive) == row[j].status = "running"
Abandoned(j, alive) == row[j].status = "running" /\ row[j].owner \notin alive
Reclaim(alive) ==
  /\ row' = [j \in Job |-> IF Abandoned(j, alive)
                           THEN [row[j] EXCEPT !.status = "pending", !.owner = Null]
                           ELSE row[j]]
  /\ execs' = {IF Abandoned(x.job, alive) /\ x.fate = "held"
               THEN [x EXCEPT !.fate = "lease"] ELSE x : x \in execs}

\* sweepOwners: say this instance is alive, then reclaim.  pruneOwners deletes
\* rows the lease has long excluded, which reads the same.
BeatOnly(i) ==
  /\ lease' = lease \union {i}
  /\ UNCHANGED <<row, execs>>
SweepOwners(i) ==
  /\ lease' = lease \union {i}
  /\ Reclaim(lease')

Sweep(i) ==
  /\ phase[i] = "up"
  /\ SweepOwners(i)
  /\ UNCHANGED <<claims, slot, phase, operators>>

Start(i) ==
  /\ phase[i] = "off" \/ (phase[i] = "stopped" /\ i \in Restarting)
  /\ phase' = [phase EXCEPT ![i] = "up"]
  /\ SweepOwners(i)
  /\ UNCHANGED <<claims, slot, operators>>

\* stop() clears the heartbeat timer, then waits for the handlers in flight.
Stop(i) ==
  /\ phase[i] = "up" /\ i \in Stopping
  /\ phase' = [phase EXCEPT ![i] = "draining"]
  /\ UNCHANGED <<row, claims, execs, slot, lease, operators>>

\* Nothing in flight: the owner row is dropped.  The drain deadline passed:
\* what still runs is aborted and its worker closed, and the lease decides.
StopEnds(i) ==
  /\ phase[i] = "draining"
  /\ phase' = [phase EXCEPT ![i] = "stopped"]
  /\ lease' = IF \A j \in Job : slot[i][j] = 0 THEN lease \ {i} ELSE lease
  /\ execs' = {IF x.inst = i
               THEN [x EXCEPT !.told = @ \/ slot[i][x.job] = x.run, !.open = FALSE]
               ELSE x : x \in execs}
  /\ slot' = [slot EXCEPT ![i] = [j \in Job |-> 0]]
  /\ UNCHANGED <<row, claims, operators>>

\* The process dies, its handlers with it.  Its rows wait for the lease.
Crash(i) ==
  /\ phase[i] \notin {"off", "dead"} /\ i \in Crashing
  /\ phase' = [phase EXCEPT ![i] = "dead"]
  /\ execs' = {x \in execs : x.inst # i}
  /\ slot' = [slot EXCEPT ![i] = [j \in Job |-> 0]]
  /\ UNCHANGED <<row, claims, lease, operators>>

\* A handler blocks the event loop, or the machine suspends the process.
Stall(i) ==
  /\ phase[i] = "up" /\ i \in Stalling
  /\ phase' = [phase EXCEPT ![i] = "stalled"]
  /\ UNCHANGED <<row, claims, execs, slot, lease, operators>>
Wake(i) ==
  /\ phase[i] = "stalled"
  /\ phase' = [phase EXCEPT ![i] = "up"]
  /\ UNCHANGED <<row, claims, execs, slot, lease, operators>>

\* seen_at falls behind now - lease: only where no timer renews it.
Expire(i) ==
  /\ i \in lease /\ phase[i] \in {"stalled", "draining", "stopped", "dead"}
  /\ lease' = lease \ {i}
  /\ UNCHANGED <<row, claims, execs, slot, phase, operators>>

-----------------------------------------------------------------------------
(* Cancel, retry, cleanup and the operator verbs                           *)

\* The row keeps its owner_id; only this process's worker can be told here.
Cancel(i, j) ==
  /\ "cancel" \in Verbs /\ phase[i] \notin {"stalled", "dead"}
  /\ row[j].status \in Live
  /\ row' = [row EXCEPT ![j].status = "cancelled"]
  /\ execs' = {IF x.job # j THEN x
               ELSE [x EXCEPT !.fate = IF @ = "held" THEN "cancel" ELSE @,
                              !.told = @ \/ (x.inst = i /\ x.open /\ slot[i][j] = x.run)]
               : x \in execs}
  /\ UNCHANGED <<claims, slot, phase, lease, operators>>

\* On a key some live row holds, the index refuses the update and retry throws.
RetryAnyKey(j) ==
  /\ "retry" \in Verbs /\ row[j].status \in {"dead", "cancelled"}
  /\ row' = [row EXCEPT ![j] = [@ EXCEPT !.status = "pending", !.tries = 0]]
  /\ UNCHANGED <<claims, execs, slot, phase, lease, operators>>
RetryTerminal(j) ==
  /\ "retry" \in Verbs /\ row[j].status \in Terminal /\ KeyFree(j)
  /\ row' = [row EXCEPT ![j] = [@ EXCEPT !.status = "pending", !.tries = 0]]
  /\ UNCHANGED <<claims, execs, slot, phase, lease, operators>>
Retry(j) ==
  /\ "retry" \in Verbs /\ row[j].status \in {"dead", "cancelled"} /\ KeyFree(j)
  /\ row' = [row EXCEPT ![j] = [@ EXCEPT !.status = "pending", !.tries = 0]]
  /\ UNCHANGED <<claims, execs, slot, phase, lease, operators>>

\* The hourly sweep deletes a terminal row older than cleanupAfter.
Cleanup(j) ==
  /\ "cleanup" \in Verbs /\ \E i \in Instance : phase[i] \in {"up", "draining"}
  /\ row[j].status \in Terminal
  /\ row' = [row EXCEPT ![j] = NoRow]
  /\ UNCHANGED <<claims, execs, slot, phase, lease, operators>>

Purge(s) ==
  /\ "purge" \in Verbs
  /\ row' = [j \in Job |-> IF row[j].status = "pending" /\ InScope(j, s)
                           THEN NoRow ELSE row[j]]
  /\ UNCHANGED <<claims, execs, slot, phase, lease, operators>>

OwnPause(s) == {p \in pauses : p.queue = s}

Pause(s, h) ==
  /\ "pause" \in Verbs
  /\ OwnPause(s) = {}
  /\ pauses' = pauses \union {[queue |-> s, holder |-> h]}
  /\ UNCHANGED <<row, claims, execs, slot, phase, lease, drains, quiet>>

Resume(s, h) ==
  /\ \E p \in OwnPause(s) : h = Null \/ p.holder = h
  /\ pauses' = pauses \ OwnPause(s)
  /\ quiet' = quiet \ {s}
  /\ UNCHANGED <<row, claims, execs, slot, phase, lease, drains>>

\* drain() pauses, unless a pause stands, and waits.  It never reads the pause
\* again: a resume leaves it waiting.
Drain(s, h) ==
  /\ "drain" \in Verbs
  /\ drains' = drains \union {s}
  /\ pauses' = IF OwnPause(s) # {} THEN pauses
               ELSE {[queue |-> s, holder |-> h]} \union pauses
  /\ UNCHANGED <<row, claims, execs, slot, phase, lease, quiet>>

\* The count that reads zero.  Another call may go on waiting on the scope.
DrainReports(s) ==
  /\ s \in drains /\ drains' \in {drains, drains \ {s}}
  /\ \A j \in Job : InScope(j, s) => row[j].status # "running"
  /\ quiet' = IF OwnPause(s) # {} THEN quiet \union {s} ELSE quiet
  /\ UNCHANGED <<row, claims, execs, slot, phase, lease, pauses>>

\* The drain's timeout, or the end of its process.
DrainGivesUp(s) ==
  /\ s \in drains /\ drains' = drains \ {s}
  /\ UNCHANGED <<row, claims, execs, slot, phase, lease, pauses, quiet>>

-----------------------------------------------------------------------------
Attempt(x) == Finish(x) \/ TimeOut(x) \/ OrphanEnds(x)

Lifecycle(i) ==
  Start(i) \/ Sweep(i) \/ Stop(i) \/ StopEnds(i) \/ Crash(i) \/ Stall(i) \/ Wake(i) \/ Expire(i)

Operate(s) ==
  \/ Purge(s)
  \/ DrainReports(s) \/ DrainGivesUp(s)
  \/ \E h \in Holder \union {Null} : Pause(s, h) \/ Resume(s, h) \/ Drain(s, h)

Next ==
  \/ \E j \in Job : Dispatch(j) \/ Retry(j) \/ Cleanup(j)
  \/ \E i \in Instance, j \in Job : Poll(i, j) \/ Cancel(i, j)
  \/ \E i \in Instance, q \in Queue : PollIdle(i, q)
  \/ \E i \in Instance : Lifecycle(i)
  \/ \E x \in execs : Attempt(x)
  \/ \E s \in Scope : Operate(s)

Spec == Init /\ [][Next]_vars

-----------------------------------------------------------------------------
(* What must hold                                                          *)

\* Every variable stays in its type.
TypeOK ==
  /\ row \in [Job -> Row]
  /\ claims \in [Job -> Nat]
  /\ execs \subseteq Exec
  /\ slot \in [Instance -> [Job -> Nat]]
  /\ phase \in [Instance -> Phase]
  /\ lease \subseteq Instance
  /\ pauses \subseteq [queue: Scope, holder: Holder \union {Null}]
  /\ drains \subseteq Scope /\ quiet \subseteq Scope

\* "Do not queue this twice at once": at most one live row per unique key,
\* whichever of dispatch, reclaim, the retry ladder or an operator's retry
\* made it live (jobs_unique_live).
UniqueLive ==
  \A j, k \in Job :
    j # k /\ KeyOf[j] # Null /\ KeyOf[j] = KeyOf[k]
      => ~(row[j].status \in Live /\ row[k].status \in Live)

\* Once a drain has reported a scope drained with its pause in force, nothing in
\* it starts until that pause is lifted, whatever dispatch, reclaim or other
\* instances do: the pause is inside the claim statement and not a check before
\* it.  A drain whose pause was lifted while it waited reports all the same, and
\* then nothing is promised.
DrainedStaysQuiet ==
  \A s \in quiet, j \in Job : InScope(j, s) => row[j].status # "running"

\* job_owners: "a row whose owner is heartbeating belongs to somebody still
\* executing it", by the handler its latest claim invoked.
RunningIsExecuted ==
  \A j \in Job :
    row[j].status = "running" /\ phase[row[j].owner] \in {"up", "stalled", "draining"}
      => \E x \in execs : /\ x.job = j /\ x.inst = row[j].owner /\ x.run = claims[j]
                          /\ x.open /\ x.fate # "timeout"

\* An attempt that has not timed out, been cancelled or been reclaimed still
\* holds its row: no other attempt's late completion has taken it away.
HeldOwnsRow ==
  \A x \in execs : x.fate = "held" => Holds(x.inst, x.job) /\ x.run = claims[x.job]

\* FJS-294: two handlers run one job at once only if one of them has timed out,
\* been cancelled, or runs in an instance that let its lease lapse.  An instance
\* that is up, and has not stalled, renews it.
Entitled(x) == x.fate = "held" \/ (x.fate = "lease" /\ phase[x.inst] = "up")
NoDoubleRun ==
  \A x, y \in execs : x.job = y.job /\ Entitled(x) /\ Entitled(y) => x = y

\* README: a running row whose owner was not heard from within the lease "is
\* work nothing is doing".  A draining instance is still doing it.
DrainKeepsItsRows ==
  \A x \in execs : phase[x.inst] = "draining" => x.fate # "lease"

\* A terminal row is never overwritten: it is deleted, or, dead or cancelled,
\* requeued by an operator with its attempts back at zero.
TerminalIsFinal ==
  [][\A j \in Job :
       row[j].status \in Terminal /\ row'[j].status # row[j].status
         => \/ row'[j].status = "absent"
            \/ row[j].status # "done" /\ row'[j].status = "pending" /\ row'[j].tries = 0]_vars

\* worker.ts: the owner guard keeps a late completion "off the attempt that
\* replaced it".  An attempt that settles and changes its job's row is the
\* attempt the row was claimed for.
Settled(x) ==
  ~ \E y \in execs' : y.job = x.job /\ y.run = x.run /\ y.fate # "timeout"
LandsOnOwnAttempt ==
  [][\A x \in execs :
       Settled(x) /\ x.fate # "timeout" /\ row'[x.job] # row[x.job]
         => x.run = claims[x.job]]_vars

\* concurrency is a queue's limit in one process: of the handlers a worker has
\* begun and not given up on, no more than that run at once, though a poll
\* counts entries of _running and never handlers.
Working(i, q) ==
  {x \in execs : x.inst = i /\ QueueOf[x.job] = q /\ x.open /\ x.fate # "timeout"}
WithinConcurrency ==
  \A i \in Instance, q \in Queue : Cardinality(Working(i, q)) <= Concurrency

\* The claim counts attempts and never compares them with the limit, so the one
\* way a job that has had all its attempts is queued again is a reclaim: no
\* completion, of whichever attempt, does it while the owner keeps its lease.
PastLimitByReclaim ==
  [][\A j \in Job :
       /\ row[j].status = "running" /\ row[j].tries >= MaxAttempts
       /\ row'[j].status = "pending"
       => row[j].owner \notin lease']_vars

-----------------------------------------------------------------------------
(* Liveness.  Timers fire (the sweep, the poll, a declared timeout, the     *)
(* drain deadline) and time passes.  No handler is assumed to finish.       *)

Fairness ==
  /\ \A i \in Instance :
       /\ WF_vars(phase[i] = "off" /\ Start(i))
       /\ WF_vars(Sweep(i))
       /\ WF_vars(StopEnds(i))
       /\ WF_vars(Expire(i))
  /\ \A i \in Instance, q \in Queue :
       /\ WF_vars(\E j \in Job : QueueOf[j] = q /\ Poll(i, j))
       /\ WF_vars(PollIdle(i, q))
  /\ \A i \in Instance, j \in Job :
       WF_vars(\E x \in execs : x.inst = i /\ x.job = j /\ TimeOut(x))

FairSpec == Spec /\ Fairness

\* Every queued job ends or is cancelled, though instances crash and drain and
\* handlers hang, as long as one instance that serves its queue stays up and
\* every handler of the queue declares a timeout.  One that declares none and
\* hangs holds its slot for ever, and Concurrency of them hold the queue; it
\* takes nothing from other queues.
Bounded(q) == \A k \in Job : QueueOf[k] = q => k \in Timed
Settles ==
  \A j \in Job :
    Bounded(QueueOf[j]) => (row[j].status = "pending") ~> (row[j].status \notin Live)

\* FJS-2885: an attempt whose row was cancelled or reclaimed, wherever that was
\* done, hears its ctx.signal or ends.
Unheard(j, n) ==
  \E x \in execs : /\ x.job = j /\ x.run = n /\ x.open /\ ~x.told
                   /\ x.fate \in {"cancel", "lease"}
LostIsTold == \A j \in Job, n \in 1..MaxClaims : Unheard(j, n) ~> ~Unheard(j, n)

-----------------------------------------------------------------------------
(* What a dispatcher is promised                                           *)

Life == INSTANCE JobLife WITH status <- [j \in Job |-> row[j].status]
ImplementsJobLife == Life!Spec
=============================================================================
