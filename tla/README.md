# FrontierJS in TLA+

Models, model checks and proofs of the parts of the FrontierJS monorepo
(`src/packages/*`) whose correctness depends on interleavings, crashes, leases
and retries: **Caravan**, the job queue everything else hands its deferred work
to; the **outbox** of Junction, which hands it work that must survive a crash;
the runs of **Orion**, the workflow engine, which are jobs that suspend and are
resumed; and a **call** from one service to another, through Conduit's breaker and
retries to Junction's idempotency keys.

## 1. The system

| Part (`packages/…`) | State it keeps | Operations and how it meets the others | What makes it hard, and what must hold |
|---|---|---|---|
| **caravan** `db.ts`, `worker.ts`, `index.ts` | SQLite tables `jobs`, `job_owners`, `queue_pauses`; per process the workers' in-flight ids and abort controllers | dispatch, poll/claim, outcome writes, timeout, owner sweep (heartbeat, reclaim), start/stop, cancel, retry, cleanup, pause/resume/drain/purge. Every other part dispatches into it | several processes share one file; leases; timeouts that cannot stop a handler; late writes. One handler to a job, an outcome on its own attempt, unique keys, quiet after drain, every job settles that no hanging handler holds up |
| **caravan** `cron.ts` | last wall-clock minute per schedule | tick, walk, fire → dispatch under an occurrence id | DST, clock corrections, N instances: each occurrence once |
| **conduit** `resilience.ts` | per target: failures, openedAt, halfOpen, inFlight, what it declared | admit, release, forget, setResilience, around every outbound call | requests that outlive the breaker's state, terms that change under them. Slots are the sends in flight; one trial at a time; never wedged half-open |
| **conduit** `index.ts`, `transports/http.ts` | a send: its deadline, the retries left to it | send: admit, look the target up, attempts with a timer each, sleep and replay, release; deregister | a timeout leaves a request behind that may still be applied. What is retryable may be sent again; every send is answered |
| **conduit** `receive.ts` | receipts (received, applied) | accept, land | redelivery while applying; crash between apply and mark |
| **junction** `plugins/outbox` | outbox rows: delivered, claimed, attempts, next attempt | enqueue in the caller's transaction; relay pass: read, compare-and-set claim, dispatch to caravan, mark; release/drop after a restore | overlapping passes, a crash between dispatch and mark, stale claims: each row handed over, one job per row |
| **junction** `scheduler` | in-memory timers | every, cron, once, pause, resume, stop | re-aligned ticks, overlap |
| **junction** `core/idempotency.ts`, `core/service.ts` | cache entry per key: pending/done | claim, method, settle, around one service call | an entry that lapses, is evicted or is freed behind a committed row; late settles. One row for each entry lost at most |
| **junction** `plugins/commitments` | commitment rows | fire, settle → outbox | races of clock and settlement |
| **junction** core, hooks, services, transports, client | request-local | the request pipeline | one call at a time; state is the database's |
| **orion** `runner.ts`, `store.ts` | Run rows (status, checkpoint, heartbeat), Wait rows | start, inline start, run, suspend, resume, expire, cancel, sweep; runs and resumes are caravan jobs under ids made from the run's and the wait's | resume, deadline and cancel race for one wait; a sweep takes a run over whose process is alive; attempts die between statements. One ends the wait; an ended run stays ended; no two attempts in one run |
| **litestone** | SQLite files, tenant registry | transactions used as atomic steps by all of the above | assumed, not modelled |
| auth, notifications | rows of the app's database | sign-in, fan-out of notifications as jobs | mostly request-local |
| mesa, sierra, ui, css, kits | none shared | compile, render | pure translation |
| cli, workbench, outpost, mcp, testing, … | none | developer tools | none |

`PROJECT.json` lists each with its status, and every hazard with its line.

## 2. Modules

| Module | What it is |
|---|---|
| `JobLife` | the abstract queue: what one job's status may do, for whoever dispatches |
| `Caravan` | the instances, workers, leases and operators over the shared tables |
| `MCCaravan` | values for TLC |
| `CaravanProofs` | theorems without further assumptions |
| `CaravanFencing` | theorems that need an assumption on what may go wrong (section 5) |
| `CaravanLimits` | theorems about concurrency and `maxAttempts`, under the same assumption |
| `Handover` | the abstract outbox: what the writer of a row is promised |
| `Outbox` | relay passes over the outbox rows of one database, with `JobLife` as the queue (`INSTANCE`) |
| `MCOutbox` | values for TLC |
| `OutboxProofs` | theorems about the outbox |
| `OutboxRefines` | proof that it implements `Handover` |
| `RunLife` | the abstract run: the moves the Run model declares (`@@transitions` in `orion.lite`), and the keys that go with them |
| `Orion` | the runs of one flow and everything that acts on them, with `JobLife` as the queue |
| `MCOrion` | values for TLC |
| `OrionProofs` | theorems about runs and waits |
| `OrionRefines` | proof that Orion implements `RunLife` |
| `Breaker` | the breaker and cap of one conduit target, method by method |
| `Keys` | the cache entries of Junction's idempotency keys: claim and settle |
| `Calls` | sends of one conduit to one app: `Breaker` before them, the retry ladder under them, the app's service calls with `Keys` at the other end |
| `MCCalls` | values for TLC |
| `CallsProofs` | theorems about the composition |

`Outbox` and `Orion` see the queue through `JobLife`: by construction, every change of a job in
them is written as an action of `JobLife`, and `CaravanProofs!QueueKeepsItsPromise` is the
proof that Caravan makes no move that is none. So what holds in them holds over any
queue that moves its jobs so. Two things are asked of the queue beyond it: `OneJobPerRow`
and `ImplementsHandover` need its memory (below, under `Outbox`), and the liveness
properties that it begins the jobs it holds or settles what it is asked (section 3).

`Handover` and `RunLife` say the same for the parts above the queue: what a caller may
rely on without knowing of claims, passes, attempts or sweeps. `RunLife` promises nothing more
of a run that came *loose* (two attempts were inside it, or a cancel ended it on a stale
reading), and says what is left even then: keys are drawn once, and no other run is touched.
`Breaker` and
`Keys` have no specification of their own: what a breaker or a key does between
two of its operations is decided by the sends and the service calls, which is
what `Calls` composes.

### How `Caravan` reads the code

* **Atomicity.** Each SQL statement is one step (the claim is one statement in
  `BEGIN IMMEDIATE`). What a JavaScript function does between two `await`s is
  one step: the poll's `_abortLost`, its claim and the call of the handler are
  one action (`Poll`), a completion is the guarded write plus the `finally`
  block (`Finish`). A poll that takes several rows is several `Poll` steps; no
  other step of that process could come between, other processes' could.
* **State.** `row` is the `jobs` table (status, owner, attempts); a job without a
  row is `absent`. `lease` is the set of owners whose `seen_at` is within the
  lease. `phase` is a process: `off`, `up`, `stalled` (blocked event loop),
  `draining` (in `stop()`), `stopped`, `dead`. `execs` are handler invocations;
  `slot[i][j]` is the entry of `_running`/`_aborts` for job j and the run it is
  about. `fate` is a history field: whether an attempt timed out, or lost its row
  to a cancel or to a reclaim. `claims` and `quiet` are history too: no guard
  reads them but the bound `MaxClaims`, and `run` numbers the claims.
* **Time** is not a clock. A lease may expire whenever no timer renews it
  (`Expire`: stalled, draining, stopped, dead); a pending row is due at any
  poll, so `run_at`, the retry ladder's delays, jitter and priority order nothing.
  A timer of a job that declares a timeout may fire at any moment.
* **Failure.** `Crash` drops a process with its handlers; `Refused` lets SQLite
  refuse a completion write, which `_write` swallows; `Stall` stops a process's
  timers while its handlers' side effects go on. A heartbeat SQLite refuses
  while the process is up is not modelled on its own: it reads as a stall.
* **Draining.** `drain()` writes its pause once and then only counts, so `Drain` begins a wait
  (`drains`), `DrainReports` is a count that read zero, whatever became of the pause, and
  `DrainGivesUp` is its timeout. `quiet` records the reports made with the scope's own pause in
  force: of the others there is nothing to promise.
* **Left out.** Progress, correlation ids, `queue_events`, migrations, `list` and
  `stats` (reads), and `releaseClaim`, which the claim's name filter makes
  unreachable. `Retry` on a key another row holds throws a raw constraint error
  in the code; here it is not enabled, and the table is the same.

### How `Outbox` reads the code

* **Atomicity.** `deliverFrom` awaits every statement, so each is a step: the read
  of what is owed (`Read`), the compare-and-set update (`Claim`, or `Skip` when it
  matches no row), the dispatch (`Dispatch`), the delivered mark (`Mark`) and the
  catch block's update (`ReleaseClaim`). Other passes run between any two. `Enqueue` is the
  commit of the caller's transaction; before it nobody sees the row.
* **State.** `box` is the table: `state` folds `deliveredAt` and the row's presence,
  `claim` is `claimedAt`, `tries` is `attempts`, `resting` is a `nextAttemptAt` ahead.
  `pass[p]` is one run of `deliverFrom`: where it stands, its `now`, the rows it read and
  has not come to (with the claim and attempts it read) and the row it has in hand.
  `held` is the set of rows `heldBefore` keeps back. `taken`, `handed`, `made` and
  `overran` are history and guard nothing.
* **Passes.** A pass is begun by a timer or by the kick after a commit. `running`
  keeps one process's timer from overlapping itself and nothing else: kicks, timers of
  other processes and `deliver()` do overlap.
* **Time.** A claim's time is its pass's `now`, as a rank. `Lapse` moves one more rank
  behind `claimTimeoutMs`, whether or not its pass is over, so a pass can work a long
  list on a claim that is stale when it is made.
* **Failure.** `Refuse` is a dispatch or a mark that throws; `End` from `fail` is the
  catch block's own update throwing, which ends the pass; `Crash` ends it anywhere.
* **Restore.** `Init` lets any of `Held` be an owed row of a backup whose job may be
  done already; `Release` and `Drop` are the operator's two verbs.
* **The queue's memory.** `QueueMoves` lets Caravan forget a job only once its row is
  settled and in nobody's hands. Caravan keeps finished jobs for days, so this assumes
  no relay is down for longer than that between a hand-over and its mark, and that no operator purges or
  cleans up a job in that window. `OneJobPerRow` depends on it.
* **Left out.** Batch size and order (a batch is every owed row, in any order), the walk
  over tenant databases (each is its own instance), payload, actor, tenant, counts,
  how long a backoff is.

### How `Orion` reads the code

* **Atomicity.** Every statement, and every transaction, is one step; what an
  attempt read before is kept in `exec` and may be stale. `Find` and `Consume` are
  the read and the transaction of `store.resume`, `CancelRead` and `Cancel` those of
  `store.cancel`, which acts on the status it read (`quit`).
* **State.** A row of `run` has its status, how many stages its checkpoint has
  behind it (`stage`), the stage it waits at (`on`, the code's `waitingOn`) and its
  heartbeat: none, fresh, or older than `lostAfter`. The context column is set exactly
  while the status is running or waiting. A `wait` row is open until it is deleted. `job` is
  the queue's status of "run:<id>" and "resume:<key>"; `owed` are dispatches a caller or a
  sweep has decided on and not made. `exec[w]` is what a worker, in any process,
  is executing: a job's attempt, or an inline run (no job). `again` is a later attempt of a
  resume job that found the run running; `held` is whether the job is still its own.
* **Stages.** The flow's stages are 1..`Last`, and those in `Waits` end in a `flow.wait`. What
  nodes do is left out but for how it ends: a stage settles, the run fails or is over.
* **A resume job that finds no context** when it goes on from a checkpoint (the run has ended since it
  was looked at) returns; a run job begins from the start (`Load`).
* **Time** is not a clock: an open wait may be due, and a pending run old enough to
  be lost, at any moment.
* **Failure.** `Die` (a process stops, or the record's write is refused), `Lapse` (the
  queue's lease runs out under an attempt that goes on), `Stall` (an inline run's beats stop
  while it executes), `Drop` (a decided dispatch is never made) and `Meddle` (an
  operator cancels, retries or cleans up a job) each spend one of `MaxFaults`.
* **History.** `wins` counts how often a key's wait was ended; `undercut` are runs a cancel
  ended waiting that had read them otherwise; `doubled` are runs two workers were inside at
  once; `sync` are runs begun inline. They guard nothing but `Start`, which does not
  start a second time, as a job, what began inline.
* **Left out.** Node contents and their retries, the expression language, triggers and
  activation, the runs-per-minute cap (its own comment says it counts and does not
  reserve), dry runs (no rows), key-value entries, tenants.

### How `Calls` reads the code

* **Atomicity.** Each breaker method is synchronous, one step. A claim runs from the
  cache's `get` to its `set` without an `await`, one step; the settle, after the method, is
  another. The method's write is a third: whatever happens between is the model's. That the
  claim is one step is true of one app process with the memory cache; two processes
  over one file-backed SQLite cache have a gap between `get` and `set`, which is not modelled.
* **A copy** is one request on the wire and the service call it becomes. A client that
  stops listening (its timer, a broken connection, the caller gone) stops
  nothing at the other end: the copy goes on, and may be applied later.
* **A send** is idle, admitted, out, sleeping before a replay (`wait`), or what
  its caller was told: ok, permanent, retryable, or that it cannot be known (`unknown`, Conduit's
  non-retryable answer to an unkeyed write that may have been applied). The
  caller is a Caravan job: what is retryable it sends again, the rest it does not.
* **The breaker's terms** are the threshold and the cap a target declared, or the conduit's own
  (`Standard`) when it declared none or was forgotten. `Learns` is `setResilience`: `put` calls
  it before the store has the descriptor and the router after reading one, so neither is
  ordered with a deregistration, and terms change whatever is in flight. `inFlight` may
  therefore exceed the cap, and a threshold of 0 turns the breaker off under a trial.
* **The breaker's time** is its circuit: closed, open, or `due`, open for longer than the
  reset window (`Elapse`).
* **Impatient** calls have a timeout shorter than the one the target declares, so
  outlasting it says nothing of the target (outcome "other").
* **The app** may refuse before it reads (429, 503), lose the copy, fail with or without its
  write taken back, commit and then fail in a hook or in the announcement
  (`FailCommitted`, `Escape`), die with its calls and its memory cache (`Restart`), and its
  entries may expire or be evicted (`Expire`).
* **History.** `rows` and `made` count rows by call and by key, `lost` the entries lost behind
  a row or a running method; `trial` are the sends admitted half-open; `crossed` says that somebody
  else's release, or a deregistration, cleared the flag under a trial; `forgot` that the target
  was forgotten under its sends; `muted` that a trial was released with the breaker turned off. `MaxLosses` is the only bound that reads history.
* **Assumed.** A call that commits and then fails is not answered `paced`: a hook that throws a
  429 after the commit would have the call sent again even without a key, and `AppliedOnce` does not hold of it. A declared timeout
  (`Impatient`) and retry limit do not change while their target lives.
* **Left out.** Addresses and redirects, origins (each
  key is a breaker of its own), credentials and their renewal, a 2xx whose body does
  not parse (permanent, as a 4xx is), streams and sockets, anonymous callers (their
  key is ignored: they are unkeyed calls), a caller that crashes (that is `Caravan`'s model).

## 3. Runs

| Run | Question | Instance, and why it is enough |
|---|---|---|
| `fenced` | do leases and the owner guard keep one handler to a job and each outcome on its own attempt, a worker within its concurrency, and a job within its attempts but for reclaims? | 2 processes that crash or drain past their lease, 2 jobs (one times out), 2 claims each: every pair of attempts of a job can overlap, in one process or two |
| `rows` | do rows move only as the queue promises, whatever goes wrong? | 2 jobs on one unique key, every verb, crash, stall, restart, refused writes; 3 claims so that a job is reclaimed, retried and claimed again |
| `drain` | is a scope quiet that was reported drained under its pause? | 2 queues and `*`, a holder and none, drains that wait while pauses are lifted and set again, a crash under a pause (974,744 states) |
| `live` | does every job end whose queue's handlers all declare a timeout, and is every lost attempt told? | two jobs with a timeout share the one slot of a queue, their handlers may hang until it; a third, without one, may hang for ever on a queue of its own. One process crashes or drains at any moment, the other stays up; one failed attempt ends a job, and what brings it back is a reclaim. `MaxClaims` is never reached, so it cuts nothing (34,437 states) |
| `late` | (finding) an outcome lands on another attempt | |
| `drainlease` | (finding) the lease lapses under a running handler of a draining process | |
| `refused` | (finding) a running row of a live owner that nobody executes | |
| `outbox` | is each row handed over by one relay at a time, as one job, marked only when accepted and once, never while held, and never forgotten? | one row, fresh or restored, a timer and a kick, 2 attempts, a crash, any number of refusals. Rows do not interact but through a pass's list, whose slowness `Lapse` gives; 6 passes are more than the row's attempts, a crash and the overlapping kick can use, or `NoneForgotten` would fail at the bound (700,531 states) |
| `taken` | (finding) a row taken twice and counted once | |
| `orion` | is each wait ended once, does a resume key exist exactly while its run waits, does an ended run stay so, is every move one the Run model declares, is no run executed twice without a fault, and is a lost start found? | one run of three stages, the second of which waits, so that a run suspends after a checkpoint and completes after a resume; two workers, so that a resume, a second attempt or a sweep's job overlaps any step of the first; one fault of any kind anywhere (548,012 states) |
| `orion_revived` | (finding) a cancelled run brought back | one worker, no fault |
| `calls` | is nothing unkeyed applied twice and no key applied twice without a lost entry, does ok mean applied, are slots the sends in flight, does the breaker neither wedge nor stampede, is every send answered? | two calls, one keyed and impatient, one retry, two copies at once (one forgotten by its client beside the one it hears), terms that change between a threshold of 1 with a cap of 2 and no breaker with a cap of 1, one entry lost (408,454 states under the symmetry of copies) |

`CHECK_DEADLOCK FALSE` in every run but `calls`: with every job terminal and every
process stopped or dead, nothing is left to do. In `calls` a target may always be
registered or deregistered.

`Settles` promises nothing for a queue with a handler that declares no timeout: one that hangs
holds its slot for ever, as many of them as the concurrency hold the queue, and jobs with
timeouts wait behind them, in the code as in the model. Nor does a finite set of jobs show
what a stream of higher-priority jobs without end would do to a low one. `live` was also run
with the first two jobs alone and two attempts each (46,916 states).

The names of copies are arbitrary in `calls`: no property and no fairness condition tells one
from another, so a step and its image under a permutation of copies are alike to all of them, the
liveness property included, and `SYMMETRY AnyCopy` is sound though TLC warns of symmetry
with liveness in general. The same run with copies numbered and the lowest free one
taken, so without symmetry, passes as well (783,692 states).

An earlier form of `orion` was also run with two stages of which the first or the second waits (498,864 and
409,308 states), and earlier forms of `orion` (without `ImplementsRunLife`) and
`calls` (with terms that do not change) with larger bounds, no property failing:
two keys and both stages waiting with one fault (2.3 million states under symmetry),
two keys and no fault; two calls that share a key, and three calls of which two
share one, with one copy and no retry (541,436 and 586,744 states).

**Fairness** (`FairSpec`, run `live`): timers fire. The owner sweep, each
queue's poll, a declared timeout and the drain deadline are `setInterval`/`setTimeout`
callbacks; an expiry is time passing; a process that is off is started. No
handler is assumed to return, and nothing is assumed of dispatchers or operators.
In `outbox`: the relay's interval fires (only the timer's `Read` is fair, a kick is
never owed), every await of a pass settles one way or the other, claims age and
backoffs elapse. The queue is not assumed ever to accept: a row may also end dead.
In `orion`: Caravan begins the jobs it holds (`Begin`), what an attempt awaits
settles (`Step`), a decided dispatch is made, the sweep's cron comes round every
minute (`SweepLost`), and a heartbeat nobody renews grows old (`GoStale`). No caller, deadline,
operator or kill switch is assumed to act. In `calls`: the store answers, the
transport dispatches or fails, and the attempt's timer fires (`Advance`); nothing is
asked of the network, the app or the caller.

## 4. Findings

* **A late outcome lands on a later attempt** (`late`). The guard of `markDone` and
  `markFailed` is the owner, and the owner is the process. Cancel, retry and a new
  claim by the same process put attempt 2 under the guard attempt 1 passes; the
  `finally` block removes attempt 2's entries as well, so it is no longer counted
  or told. The same happens to a stalled process that wakes after its row was
  reclaimed and returned to it.
* **A slow drain loses its lease** (`drainlease`). `stop()` clears the heartbeat
  before waiting; lease and drain deadline are both 30 s by default, and the last
  beat may already be one heartbeat old.
* **A refused outcome strands its row** (`refused`): running, owned by a live
  process, executed by nobody, until that process ends.
* **A row taken twice and counted once** (`taken`). The relay's claim compares
  `claimedAt` with what the pass read, which is null again after another pass has
  claimed the row, been refused and let it go. The second pass then takes the row inside the
  backoff just set, and writes `attempts` from its own read, so the first attempt is
  lost: a refusing queue is asked sooner, and a row more often than `maxAttempts`.

* **A cancelled run comes back** (`orion_revived`). `cancel` reads the run outside its
  transaction. When it read `running` and the run suspends before it commits, it ends the run
  and leaves the Wait. A resume that had read the run waiting then deletes that Wait and
  updates the run by id alone, so it is `running` again with its context restored. This
  is why `KeyWhileWaiting` and `EndedIsFinal` except the runs in `undercut`.

Seen while modelling, with no run of their own. *Orion*: an attempt that lost its job and the
one that replaced it can leave a run `running` with no job, which the sweep does not look
for (no heartbeat); an inline run that suspended keeps its stale heartbeat until
its resume clears it, so the sweep can dispatch its run job in between, with no fault at all (hence `sync` in
`NeverTwice`); the sweep's dispatch does nothing while the run's job row is dead or done.
*Conduit and Junction*: the breaker's "exactly one trial request" holds only until a request from
before the trip releases and clears the flag (hence `crossed` in `OneTrial`); a target registered again with `failure_threshold` 0 under
its trial keeps the half-open flag, because that trial's release returns before the line whose comment says it
"must still clear a trial flag, or the breaker would wedge half-open forever"
(`resilience.ts:170-172`), and a threshold declared after that wedges it (hence `muted` in `NeverWedged`); Junction's 409 for a
key still running, which it calls retryable, is a permanent error to Conduit; a call
that commits and then fails frees its key, so the retry its 500 invites writes a second
row (hence `lost` in `OncePerLoss`); an announcement that throws leaves the key pending
until `pendingTtl`. *Caravan*: the claim does not compare
attempts with the limit, so a job that kills its process is reclaimed for ever
(`PastLimitByReclaim`: nothing else queues it past its limit);
a drain never looks at its pause again: resumed while it waits, it goes on waiting and reports drained a
scope whose next poll starts a job (hence "under its pause" in `DrainedStaysQuiet`);
a timed-out orphan runs beside its retry (documented); a drain reports quiet while
cancelled handlers still run (`running` counts rows); `cancel` leaves `owner_id`
set though the schema comment says it is cleared on leaving `running`.

## 5. Proofs

`CaravanProofs` proves, for any sets of instances, jobs and queues and any bounds,
assuming only `CaravanAssumption` (types of the constants):

* `TypeCorrect`; `UniqueKeyHeldOnce`; `DrainHolds` (strengthened with the fact
  that every quiet scope has a pause of its own, which only `Resume` takes away, and that
  with the scope's quiet); `TerminalRowsStay`;
* `QueueKeepsItsPromise`: `Spec => Life!Spec`. Each action is first shown to be one
  of a few `Moves` of the statuses (`EveryMove`); each move is a JobLife step or a
  stutter.

`CaravanFencing` assumes `Fenced`: no process stalls, and no operator brings back a lost row
(`retry`) or deletes it (`cleanup`). The run `late` and the stall above show why. A process may
crash, drain past its lease, and start again under the owner id it had. The inductive
invariant `FencedInv` says that a process that is up holds its lease (`Beating`),
attempts come from claims (`Claimed`, `RunsDiffer`), `stop()` leaves no attempt with an
open worker (`Closed`), and that what an attempt lost its row to is still so: the row stays
cancelled (`CancelStays`), or, while the attempt's worker is open, its process is not up and the
row is another's (`LapseStays`). An instance that starts again has come through `stop()`, which
closed its old workers, so an outcome of theirs reaches no row even if the new ones claim it.
From these an outcome that lands belongs to a held attempt, which is the step
the owner guard alone does not give. It yields `HeldRowsAreKept` and `LateCompletionsMiss`.
`NoHandlerRunsTwice` assumes besides that nobody restarts, since an orphan of the old
worker may run beside the new one's handler; `HeartbeatingOwnersExecute` needs instead
that SQLite refuses no outcome and nobody restarts (`Recorded`).

`CaravanLimits` proves, under `Fenced`:

* `ConcurrencyIsKept`: a worker never has more attempts under way than its concurrency. The
  code does not count attempts but ids in `_running`, so `LimitsInv` says that an entry is
  about the attempt under way (`Entries`) and that the ids are within the limit (`Roomy`). Without
  fencing `Entries` fails: in `late`, another attempt's `finally` deletes the entry;
* `LimitPassedOnlyByReclaim`: a completion compares the attempts of the record its claim
  returned, and that is the row's own count while the attempt is entitled to it (`Counted`).

`OutboxProofs` proves, for any rows, passes and bounds, from `OutboxAssumption`
(types of the constants):

* `OutboxTypeCorrect`, with the fact that a pass with a row in hand has one (`HasRow`);
* `OneRelay`. `OneRelayPerRow` is not inductive: two passes that have one row in hand must be
  shown to contradict each other through the row's one claim. `OwnInv` says that passes
  have different times (`Times`), that a claim a pass read was null or stale when read and so is
  still (`Walked`), and that a pass whose claim is fresh finds it on the row
  (`HandOwns`). A claim that matches what was read is then not over a fresh one. The
  unguarded release is harmless to fresh claims because of the theorem itself;
* `OneJob`: a job once made is in the queue until its row is settled and out of
  every pass's hands (`JobInv`), so a second hand-over finds it;
* `MarkIsTrue` and `HeldUntilReleased`, the latter with the fact that no pass has
  a held row on its list.

`OutboxRefines` proves `HandedOverAsPromised` (`Spec => ImplementsHandover`). A row is *accepted* when it is owed and has been handed over: no column
says so, and a relay that crashes before its mark leaves it so. The refinement needs `OverInv`: what a pass
has in hand is owed or was handed over already (else a late dispatch would accept a
row that is gone), nothing held is in hand or handed over, and a job is in the queue until
the row it was made for is settled (else a second dispatch would make a second one).

`OrionProofs` proves, for any runs, keys, workers, stages and number of faults, from
`OrionAssumption`:

* `OrionTypes`, with what each worker's position says of its job, run and stage (`Named`)
  and which worker a running job belongs to (`Owned`): together `Typed`;
* `OneWinner`: a key that has been won has no open wait (`Spent`), and nothing opens one again;
* `KeyExactlyWhileWaiting` and `EndedFinal`. `KeyWhileWaiting` is not inductive: what an
  attempt is about to write rests on nobody else being inside its run. `AllGood` says, of
  every run that is not undercut or doubled, that at most one worker is inside it, none
  while it waits, and that it waits exactly while one open wait, of the stage it waits at, is its;
  so a checkpoint, a suspension or a record finds no wait to contradict, and from the same
  invariant no step moves a run that has ended;
* `TwiceOnlyByFault`: with no fault so far (`Faultless`) a job is held by its one attempt from
  beginning to end (`Held`), and of the jobs of a run at most one has still to enter
  it, and then nobody is inside (`OneTurn`); so only runs begun inline are ever doubled.

`OrionRefines` proves, from the same assumption:

* `RunsLiveAsDeclared` (`Spec => ImplementsRunLife`): each action is one move of one run. The
  code writes statuses by id, whatever the row says, so each move needs the invariant that
  says what the row says: `AllGood` for the waits, and `AllGoing` for the rest, that a
  worker past a checkpoint, or about to record a completion, has a run that is no
  longer pending (which rests on no run being pending twice, `NotAgain`). A run that is undercut
  or doubled is loose, and its steps are shown to be `Stray`.

`CallsProofs` proves, for any calls, keys, copies, terms and retries, from
`CallsAssumption`:

* `CallsTypes`, with the fact that a client that is out listens to its own copy
  (`Listening`, `AnswersHeard`);
* `SlotsAreSends`, `Unwedged` and `OneTrialAtATime`. `BreakerSteps` first reduces every action to what
  it does to the breaker: an admission, an overload, a release, new terms, a forget, or nothing. The flag is then
  held by a trial in flight unless one was muted (`FlagHeld`), and while it is not crossed a trial in flight
  holds the flag (`TrialFlagged`), so another is not admitted;
* `AppliedAtMostOnce`. The bound on rows is not inductive: a call is safe to send again only
  because no copy of it is left anywhere. `Single` relates what the caller was told,
  the copies of the call and its rows;
* `RowsPerLoss`: under a key, the rows made and the methods still running are at most
  the entries lost, and one more while there is an entry (`Covered`);
* `OkIsApplied`: an entry that is done, a copy that answers ok and a caller told ok each
  have the call's own row behind them (`Backed`).

Only model-checked: the liveness properties (`Settles`, `LostIsTold`, `NoneForgotten`,
`LostStartIsFound`, `Answered`: fairness and ENABLED are outside the prover) and the findings.

## 6. Not modelled, and what comes next

* **Caravan cron**: the forward walk over wall-clock minutes on several instances. Its
  hard part is arithmetic over a time-zone database; the part worth a model is the
  occurrence id that keeps N instances to one job, with clocks that step back.
* **Conduit receipts** (`receive.ts`): receipt, apply, mark, over a store the app supplies. A
  repeated delivery during the first apply, and a crash before the mark, both apply
  twice by design; a model would state what the app's handler must then promise.
* **Junction scheduler and commitments**: in-memory timers with an overlap guard; a
  commitment that a clock and a settlement race for, over the outbox.
* **Proofs** still worth having: an abstract promise of a call (applied so often, told
  what) that `Calls` implements; `NeverTwice` for a bounded number of faults rather than none; and
  what is left of Caravan's limits when processes stall.
* **Outside a model's reach or interest**: the compilers and renderers (mesa, sierra,
  css, kits) are pure translations of their input; litestone is a schema compiler and
  query builder whose transactions are the atomic steps assumed here; auth is
  request-local over the app's database, and its cryptography is not TLC's business;
  notifications fan out as jobs and add no protocol of their own; the tools keep no shared state.
