------------------------------- MODULE Orion -------------------------------
(***************************************************************************)
(* The runs of one flow in packages/orion: their rows, the Wait rows that  *)
(* resume them, and everything that acts on them at once: the attempts of  *)
(* the run and resume jobs, runs executed inline, callers who start,       *)
(* resume and cancel, and the sweep.  Every statement or transaction is    *)
(* one atomic step; the job queue is another database, and is JobLife.     *)
(*                                                                         *)
(* A run's `stage` counts the stages its checkpoint has behind it, and     *)
(* `on` is its waitingOn: the stage of the node it waits at, or 0.  The    *)
(* context column is set exactly while the status is running or waiting.   *)
(* Deadlines and ages are not kept: a wait may be due, and a pending run   *)
(* old enough to be lost, at any moment.                                   *)
(***************************************************************************)
EXTENDS Naturals, FiniteSets

CONSTANTS
  Run, Null,
  Key,         \* resume keys: each is drawn by one wait, and never again
  Worker,      \* what may be executing at once, in every process together
  Last,        \* the flow's stages are 1..Last
  Waits,       \* those that end in a flow.wait
  MaxFaults    \* bound: attempts that die or lapse, lost calls, operator's moves

WaitRow == [run: Run, stage: 1..Last, open: BOOLEAN]

ASSUME OrionAssumption ==
  /\ Null \notin Run \union Key \union WaitRow /\ Run \cap Key = {}
  /\ Last \in Nat \ {0} /\ Waits \subseteq 1..Last /\ MaxFaults \in Nat

VARIABLES
  run,       \* the Run rows
  wait,      \* the Wait rows, open until they are deleted
  active,    \* whether the flow's status is active
  job,       \* the status of each job in the queue
  began,     \* the jobs whose row counts an attempt
  owed,      \* the dispatches somebody has decided on and not yet made
  exec,      \* what each worker is doing
  quit,      \* the status a cancel has read, before its transaction
  faults,
  wins,      \* history: how many times each key's wait has been ended
  undercut,  \* history: runs a cancel ended waiting that had read them otherwise
  doubled,   \* history: runs two workers have been inside at once
  sync       \* history: runs begun inline

history == <<wins, undercut, doubled, sync>>
flow == <<active, quit, faults>>
queue == <<job, began, owed>>
vars == <<run, wait, queue, exec, flow, history>>

\* The jobs "run:<id>" and "resume:<key>".
Job == Run \union Key

Queue == INSTANCE JobLife WITH KeyOf <- [j \in Job |-> Null], status <- job

JobStatus == {"absent", "pending", "running", "done", "dead", "cancelled"}
Terminal == {"completed", "failed", "cancelled"}
RunRow == [status: {"absent", "pending", "running", "waiting"} \union Terminal,
           stage: 0..Last, on: 0..Last, beat: {"none", "fresh", "stale"}]
Inside == {"load", "work", "save", "suspend", "record"}
Task == [at: {"idle", "look", "resume", "consume", "over"} \union Inside,
         job: Job \union {Null}, run: Run \union {Null}, again: BOOLEAN, held: BOOLEAN,
         beating: BOOLEAN, stage: 0..Last, wrote: BOOLEAN, end: Terminal]

Idle == [at |-> "idle", job |-> Null, run |-> Null, again |-> FALSE, held |-> FALSE,
         beating |-> FALSE, stage |-> 0, wrote |-> FALSE, end |-> "failed"]

Init ==
  /\ run = [r \in Run |-> [status |-> "absent", stage |-> 0, on |-> 0, beat |-> "none"]]
  /\ wait = [k \in Key |-> Null]
  /\ active = TRUE
  /\ job = [j \in Job |-> "absent"] /\ began = {} /\ owed = {}
  /\ exec = [w \in Worker |-> Idle]
  /\ quit = [r \in Run |-> "no"] /\ faults = 0
  /\ wins = [k \in Key |-> 0] /\ undercut = {} /\ doubled = {} /\ sync = {}

Live(r) == run[r].status \in {"pending", "running", "waiting"}
HasContext(r) == run[r].status \in {"running", "waiting"}
Open(k) == wait[k] # Null /\ wait[k].open
In(w, r) ==
  /\ exec[w].run = r
  /\ exec[w].at \in Inside \/ (exec[w].at \in {"resume", "consume"} /\ exec[w].again)
Inline(w) == exec[w].at # "idle" /\ exec[w].job = Null

-----------------------------------------------------------------------------
(* Callers: start, resume, cancel, and the operator's kill switch          *)

\* A start under a stated id finds the run the first one made.
Start(r) ==
  /\ active /\ r \notin sync
  /\ run' = IF run[r].status = "absent" THEN [run EXCEPT ![r].status = "pending"] ELSE run
  /\ owed' = owed \union {r}
  /\ UNCHANGED <<wait, job, began, exec, flow, history>>

StartInline(r, w) ==
  /\ active /\ run[r].status = "absent" /\ exec[w].at = "idle"
  /\ run' = [run EXCEPT ![r] = [@ EXCEPT !.status = "pending", !.beat = "fresh"]]
  /\ exec' = [exec EXCEPT ![w] = [Idle EXCEPT !.at = "work", !.run = r]]
  /\ sync' = sync \union {r}
  /\ UNCHANGED <<wait, queue, flow, wins, undercut, doubled>>

ResumeCall(k) ==
  /\ Open(k) /\ active
  /\ owed' = owed \union {k}
  /\ UNCHANGED <<run, wait, job, began, exec, flow, history>>

DispatchFresh(j) ==
  /\ j \in owed /\ owed' = owed \ {j}
  /\ IF job[j] \in {"absent", "done"}
     THEN job' = [job EXCEPT ![j] = "pending"] ELSE UNCHANGED job
  /\ UNCHANGED <<run, wait, began, exec, flow, history>>
\* Under the job's own id: a row of that id, in any state, is the job.
Dispatch(j) ==
  /\ j \in owed /\ owed' = owed \ {j}
  /\ IF job[j] = "absent" THEN Queue!Enter(j) ELSE UNCHANGED job
  /\ UNCHANGED <<run, wait, began, exec, flow, history>>

Pause ==
  /\ active' = ~active
  /\ UNCHANGED <<run, wait, queue, exec, quit, faults, history>>

\* LitestoneExecutionStore.cancel reads the run, and then its transaction acts
\* on the status it read.
CancelRead(r) ==
  /\ quit[r] = "no" /\ Live(r)
  /\ quit' = [quit EXCEPT ![r] = IF run[r].status = "waiting" THEN "waiting" ELSE "other"]
  /\ UNCHANGED <<run, wait, queue, exec, active, faults, history>>

WaitsOf(r) == {k \in Key : Open(k) /\ wait[k].run = r}
Close(S) == wait' = [k \in Key |-> IF k \in S THEN [wait[k] EXCEPT !.open = FALSE] ELSE wait[k]]
Won(S) == wins' = [k \in Key |-> IF k \in S THEN wins[k] + 1 ELSE wins[k]]

\* writeTerminal clears the context; it writes nothing when the run has ended.
EndRun(r, s) ==
  run' = IF Live(r) THEN [run EXCEPT ![r] = [@ EXCEPT !.status = s, !.stage = 0, !.on = 0]]
         ELSE run

CancelLost(r) ==
  /\ quit[r] = "waiting" /\ WaitsOf(r) = {}
  /\ quit' = [quit EXCEPT ![r] = "no"]
  /\ UNCHANGED <<run, wait, queue, exec, active, faults, history>>
CancelKeepingWaits(r) ==
  /\ quit[r] = "waiting" /\ WaitsOf(r) # {}
  /\ EndRun(r, "cancelled")
  /\ quit' = [quit EXCEPT ![r] = "no"]
  /\ UNCHANGED <<wait, queue, exec, active, faults, history>>
CancelWaiting(r) ==
  /\ quit[r] = "waiting" /\ WaitsOf(r) # {}
  /\ Close(WaitsOf(r)) /\ Won(WaitsOf(r)) /\ EndRun(r, "cancelled")
  /\ quit' = [quit EXCEPT ![r] = "no"]
  /\ UNCHANGED <<queue, exec, active, faults, undercut, doubled, sync>>
CancelOther(r) ==
  /\ quit[r] = "other"
  /\ EndRun(r, "cancelled")
  /\ undercut' = IF run[r].status = "waiting" THEN undercut \union {r} ELSE undercut
  /\ quit' = [quit EXCEPT ![r] = "no"]
  /\ UNCHANGED <<wait, queue, exec, active, faults, wins, doubled, sync>>

Cancel(r) == CancelLost(r) \/ CancelWaiting(r) \/ CancelOther(r)

-----------------------------------------------------------------------------
(* An attempt of the run job, and a run executed inline                    *)

RunOf(j) == IF j \in Run THEN j ELSE wait[j].run

Begin(w, j) ==
  /\ exec[w].at = "idle" /\ Queue!Begin(j)
  /\ exec' = [exec EXCEPT ![w] = [Idle EXCEPT !.at = "look", !.job = j, !.run = RunOf(j),
                                              !.again = (j \in began), !.held = TRUE]]
  /\ began' = began \union {j}
  /\ UNCHANGED <<run, wait, owed, flow, history>>

\* Worker w is inside its run from here on.
Entering(w) ==
  doubled' = IF \E v \in Worker \ {w} : In(v, exec[w].run)
             THEN doubled \union {exec[w].run} ELSE doubled

\* Nothing of what the worker knew is used again.
Leaving(w) == [Idle EXCEPT !.at = "over", !.job = exec[w].job, !.run = exec[w].run,
                           !.held = exec[w].held]
Leave(w) == exec' = [exec EXCEPT ![w] = IF @.job = Null THEN Idle ELSE Leaving(w)]

\* runJob reads the run.  Whether there was a heartbeat to clear stays with the
\* attempt, and so does `again`: whether it may go on from a checkpoint.
Turn(w, to, again) ==
  exec' = [exec EXCEPT ![w] = [@ EXCEPT !.at = to, !.again = again,
                                        !.beating = (run[exec[w].run].beat # "none")]]

\* The run has ended, or waits for a key this job does not hold.
LeaveIt(w) ==
  /\ exec[w].at = "look"
  /\ \/ run[exec[w].run].status \in Terminal
     \/ run[exec[w].run].status = "waiting" /\ (~active \/ exec[w].job \in Run)
  /\ Leave(w)
  /\ UNCHANGED <<run, wait, queue, flow, history>>
\* The flow is not active: the run ends cancelled, unrun.
CallOff(w) ==
  /\ exec[w].at = "look" /\ ~active
  /\ run[exec[w].run].status \in {"pending", "running"}
  /\ exec' = [exec EXCEPT ![w] = [@ EXCEPT !.at = "record", !.again = FALSE, !.end = "cancelled"]]
  /\ Entering(w)
  /\ UNCHANGED <<run, wait, queue, flow, wins, undercut, sync>>
\* A later attempt of a resume job that finds the run running may go on from
\* its checkpoint: an earlier one may have consumed the key and died.
MayGoOn(w) == exec[w].again /\ run[exec[w].run].status = "running"
ByKey(w) ==
  /\ exec[w].at = "look" /\ active /\ exec[w].job \in Key /\ Live(exec[w].run)
  /\ Turn(w, "resume", MayGoOn(w))
  /\ IF MayGoOn(w) THEN Entering(w) ELSE UNCHANGED doubled
  /\ UNCHANGED <<run, wait, queue, flow, wins, undercut, sync>>
ByRun(w) ==
  /\ exec[w].at = "look" /\ active /\ exec[w].job \in Run
  /\ run[exec[w].run].status \in {"pending", "running"}
  /\ Turn(w, "load", FALSE) /\ Entering(w)
  /\ UNCHANGED <<run, wait, queue, flow, wins, undercut, sync>>

Look(w) == LeaveIt(w) \/ CallOff(w) \/ ByKey(w) \/ ByRun(w)

\* getContext.  A checkpoint made after a stage makes the scheduler write it
\* again before it goes on; one made by a resume does not.  A resume job that
\* finds none returns: the run has ended since it was looked at.
Load(w) ==
  /\ exec[w].at = "load"
  /\ LET r == exec[w].run
         done == IF HasContext(r) THEN run[r].stage ELSE 0
         resumed == done \in Waits /\ run[r].status = "running"
     IN IF exec[w].job \in Key /\ ~HasContext(r) THEN Leave(w)
        ELSE exec' = [exec EXCEPT ![w] =
               [@ EXCEPT !.at = IF done = 0 \/ resumed THEN "work" ELSE "save", !.stage = done]]
  /\ UNCHANGED <<run, wait, queue, flow, history>>

\* store.resume answered nothing.
KeyGone(w) ==
  \/ exec[w].again /\ exec' = [exec EXCEPT ![w] = [@ EXCEPT !.at = "load", !.again = FALSE]]
  \/ ~exec[w].again /\ Leave(w)

\* store.resume reads the wait and the run's context ...
Waiting(k) ==
  /\ Open(k)
  /\ run[wait[k].run].status = "waiting" /\ run[wait[k].run].on = wait[k].stage
Find(w) ==
  /\ exec[w].at = "resume"
  /\ \/ /\ Waiting(exec[w].job)
        /\ exec' = [exec EXCEPT ![w] = [@ EXCEPT !.at = "consume",
                                                 !.stage = run[exec[w].run].stage]]
     \/ ~Waiting(exec[w].job) /\ KeyGone(w)
  /\ UNCHANGED <<run, wait, queue, flow, history>>

Resumed(w) ==
  /\ run' = [run EXCEPT ![exec[w].run] =
               [@ EXCEPT !.status = "running", !.stage = exec[w].stage, !.on = 0]]
  /\ exec' = [exec EXCEPT ![w] = [@ EXCEPT !.at = "work", !.again = FALSE, !.wrote = TRUE]]
  /\ Entering(w)

\* ... and in a transaction deletes the wait and, if it was there, moves the run
\* to running, whatever the run's status is by then.
ConsumeUncounted(w) ==
  /\ exec[w].at = "consume"
  /\ Close({exec[w].job}) /\ Won({exec[w].job})
  /\ Resumed(w)
  /\ UNCHANGED <<queue, flow, undercut, sync>>
Consume(w) ==
  /\ exec[w].at = "consume"
  /\ \/ /\ Open(exec[w].job)
        /\ Close({exec[w].job}) /\ Won({exec[w].job})
        /\ Resumed(w)
     \/ /\ ~Open(exec[w].job)
        /\ KeyGone(w) /\ UNCHANGED <<run, wait, wins, doubled>>
  /\ UNCHANGED <<queue, flow, undercut, sync>>

ClearBeat(w) ==
  /\ exec[w].at \in {"work", "save"} /\ exec[w].beating
  /\ run' = [run EXCEPT ![exec[w].run].beat = "none"]
  /\ exec' = [exec EXCEPT ![w].beating = FALSE]
  /\ UNCHANGED <<wait, queue, flow, history>>

Goes(w, to, stage) == exec' = [exec EXCEPT ![w] = [@ EXCEPT !.at = to, !.stage = stage]]

\* On the way to saveRecord, which needs no more than how the run ended.
Ends(w, end) ==
  exec' = [exec EXCEPT ![w] = [@ EXCEPT !.at = "record", !.stage = 0, !.wrote = FALSE,
                                        !.beating = FALSE, !.end = end]]

WorkPastLast(w) ==
  /\ exec[w].at = "work" /\ ~exec[w].beating
  /\ LET next == exec[w].stage + 1 IN
       \/ next > Last + 1 /\ Ends(w, "completed")
       \/ next \in 1..(Last + 1) \ Waits /\ Goes(w, "save", next)
       \/ next \in Waits /\ Goes(w, "suspend", next)
  /\ UNCHANGED <<run, wait, queue, flow, history>>
\* The nodes of the next stage settle; or the owner cannot be acted as.
Work(w) ==
  /\ exec[w].at = "work" /\ ~exec[w].beating
  /\ LET next == exec[w].stage + 1 IN
       \/ next > Last /\ Ends(w, "completed")
       \/ Ends(w, "failed")
       \/ next \in 1..Last \ Waits /\ Goes(w, "save", next)
       \/ next \in Waits /\ Goes(w, "suspend", next)
  /\ UNCHANGED <<run, wait, queue, flow, history>>

\* The checkpoint after a stage.  The status goes with it once per attempt.
Save(w) ==
  /\ exec[w].at = "save" /\ ~exec[w].beating /\ Live(exec[w].run)
  /\ run' = [run EXCEPT ![exec[w].run] =
               [@ EXCEPT !.status = IF exec[w].wrote THEN run[exec[w].run].status ELSE "running",
                         !.stage = exec[w].stage, !.on = 0]]
  /\ exec' = [exec EXCEPT ![w] = [@ EXCEPT !.at = "work", !.wrote = TRUE]]
  /\ UNCHANGED <<wait, queue, flow, history>>

SuspendKeepingStatus(w) ==
  /\ exec[w].at = "suspend" /\ Live(exec[w].run)
  /\ \E k \in Key :
       /\ wait[k] = Null
       /\ wait' = [wait EXCEPT ![k] = [run |-> exec[w].run, stage |-> exec[w].stage, open |-> TRUE]]
  /\ run' = [run EXCEPT ![exec[w].run] =
               [@ EXCEPT !.status = IF exec[w].wrote THEN run[exec[w].run].status ELSE "waiting",
                         !.stage = exec[w].stage, !.on = exec[w].stage]]
  /\ Leave(w)
  /\ UNCHANGED <<queue, flow, history>>
\* The checkpoint that suspends, and its Wait row, in one transaction.
Suspend(w) ==
  /\ exec[w].at = "suspend" /\ Live(exec[w].run)
  /\ \E k \in Key :
       /\ wait[k] = Null
       /\ wait' = [wait EXCEPT ![k] = [run |-> exec[w].run, stage |-> exec[w].stage, open |-> TRUE]]
  /\ run' = [run EXCEPT ![exec[w].run] =
               [@ EXCEPT !.status = "waiting", !.stage = exec[w].stage, !.on = exec[w].stage]]
  /\ Leave(w)
  /\ UNCHANGED <<queue, flow, history>>

\* A checkpoint throws: the run has ended (RunEnded), or the write is refused.
Throw(w) ==
  /\ exec[w].at \in {"save", "suspend"} /\ ~exec[w].beating
  /\ Ends(w, "failed")
  /\ UNCHANGED <<run, wait, queue, flow, history>>

\* saveRecord.
RecordOver(w) ==
  /\ exec[w].at = "record"
  /\ run' = [run EXCEPT ![exec[w].run] = [@ EXCEPT !.status = exec[w].end, !.stage = 0, !.on = 0]]
  /\ Leave(w)
  /\ UNCHANGED <<wait, queue, flow, history>>
Record(w) ==
  /\ exec[w].at = "record"
  /\ EndRun(exec[w].run, exec[w].end)
  /\ Leave(w)
  /\ UNCHANGED <<wait, queue, flow, history>>

\* The attempt returns: its job is done, unless it is another attempt's by now.
Return(w) ==
  /\ exec[w].at = "over"
  /\ IF exec[w].held THEN Queue!Move({exec[w].job}, {"running"}, "done") ELSE UNCHANGED job
  /\ exec' = [exec EXCEPT ![w] = Idle]
  /\ UNCHANGED <<run, wait, began, owed, flow, history>>

Step(w) ==
  \/ Look(w) \/ Load(w) \/ Find(w) \/ Consume(w) \/ ClearBeat(w) \/ Work(w)
  \/ Save(w) \/ Suspend(w) \/ Throw(w) \/ Record(w) \/ Return(w)

-----------------------------------------------------------------------------
(* The sweep, the heartbeat, the queue, and what may go wrong              *)

SweepSilent(r) ==
  /\ run[r].status \in {"pending", "running"} /\ run[r].beat = "stale"
  /\ owed' = owed \union {r}
  /\ UNCHANGED <<run, wait, job, began, exec, flow, history>>
SweepLost(r) ==
  /\ \/ run[r].status = "pending" /\ run[r].beat = "none"
     \/ run[r].status \in {"pending", "running"} /\ run[r].beat = "stale"
  /\ owed' = owed \union {r}
  /\ UNCHANGED <<run, wait, job, began, exec, flow, history>>

\* store.expire's transaction: it deletes the wait and, if it was there, ends the
\* run.  What it read before only spares it the wait of a run that had ended.
Expire(k) ==
  /\ Open(k)
  /\ Close({k}) /\ Won({k}) /\ EndRun(wait[k].run, "failed")
  /\ UNCHANGED <<queue, exec, flow, undercut, doubled, sync>>

Beat(w) ==
  /\ Inline(w)
  /\ run' = [run EXCEPT ![exec[w].run].beat = "fresh"]
  /\ UNCHANGED <<wait, queue, exec, flow, history>>

Beating(r) == \E w \in Worker : Inline(w) /\ exec[w].run = r
Silent(r) == run[r].beat = "fresh" /\ run' = [run EXCEPT ![r].beat = "stale"]

\* lostAfter goes by with no beat, because nobody is left to beat.
GoStale(r) ==
  /\ ~Beating(r) /\ Silent(r)
  /\ UNCHANGED <<wait, queue, exec, flow, history>>

Fault ==
  /\ faults < MaxFaults /\ faults' = faults + 1
  /\ UNCHANGED <<wait, active, quit, history>>

\* ... or because the process is stalled, and still executing.
Stall(r) == Fault /\ Beating(r) /\ Silent(r) /\ UNCHANGED <<queue, exec>>

\* A worker's process dies, or saveRecord throws: the queue gives the job
\* another attempt or calls it dead.
Die(w) ==
  /\ Fault /\ exec[w].at # "idle"
  /\ IF exec[w].held
     THEN \E s \in {"pending", "dead"} : Queue!Move({exec[w].job}, {"running"}, s)
     ELSE UNCHANGED job
  /\ exec' = [exec EXCEPT ![w] = Idle]
  /\ UNCHANGED <<run, began, owed>>

\* The lease lapses under an attempt that goes on.
Lapse(w) ==
  /\ Fault /\ exec[w].held
  /\ Queue!Move({exec[w].job}, {"running"}, "pending")
  /\ exec' = [exec EXCEPT ![w].held = FALSE]
  /\ UNCHANGED <<run, began, owed>>

\* A caller or a sweep dies with a dispatch still to make.
Drop(j) ==
  /\ Fault /\ j \in owed /\ owed' = owed \ {j}
  /\ UNCHANGED <<run, job, began, exec>>

\* An operator cancels a job, or brings it back; or its row's retention ends.
Meddle(j) ==
  /\ Fault
  /\ \/ Queue!Cancel(j) /\ UNCHANGED began
     \/ job[j] # "absent" /\ Queue!Enter(j) /\ began' = began \ {j}
     \/ Queue!Forget(j) /\ began' = began \ {j}
  /\ exec' = [w \in Worker |-> IF exec[w].job = j THEN [exec[w] EXCEPT !.held = FALSE] ELSE exec[w]]
  /\ UNCHANGED <<run, owed>>

Next ==
  \/ Pause
  \/ \E r \in Run :
       \/ Start(r) \/ CancelRead(r) \/ Cancel(r) \/ SweepLost(r) \/ GoStale(r) \/ Stall(r)
       \/ \E w \in Worker : StartInline(r, w)
  \/ \E k \in Key : ResumeCall(k) \/ Expire(k)
  \/ \E j \in Job : Dispatch(j) \/ Drop(j) \/ Meddle(j) \/ \E w \in Worker : Begin(w, j)
  \/ \E w \in Worker : Step(w) \/ Beat(w) \/ Die(w) \/ Lapse(w)

Spec == Init /\ [][Next]_vars

\* Caravan runs what it holds, what is awaited settles, time passes, and the
\* sweep's cron comes round every minute.
Fairness ==
  /\ \A w \in Worker : WF_vars(Step(w))
  /\ \A j \in Job : WF_vars(Dispatch(j)) /\ WF_vars(\E w \in Worker : Begin(w, j))
  /\ \A r \in Run : WF_vars(SweepLost(r)) /\ WF_vars(GoStale(r))

FairSpec == Spec /\ Fairness

-----------------------------------------------------------------------------
(* What must hold                                                          *)

TypeOK ==
  /\ run \in [Run -> RunRow]
  /\ wait \in [Key -> WaitRow \union {Null}]
  /\ active \in BOOLEAN
  /\ job \in [Job -> JobStatus]
  /\ began \subseteq Job /\ owed \subseteq Job
  /\ exec \in [Worker -> Task]
  /\ quit \in [Run -> {"no", "waiting", "other"}]
  /\ faults \in Nat
  /\ wins \in [Key -> Nat]
  /\ undercut \subseteq Run /\ doubled \subseteq Run /\ sync \subseteq Run

Undisturbed == Run \ (undercut \union doubled)

\* "A resume and a timeout racing for one run cannot both win": of the resumes,
\* deadlines and cancels that reach for a wait, one ends it.
OneWinnerPerWait == \A k \in Key : wins[k] <= 1

\* "A resume key exists exactly while its run is waiting", for a run that no two
\* attempts were inside at once and no cancel ended on a stale reading.
KeyWhileWaiting ==
  \A r \in Undisturbed :
    /\ run[r].status = "waiting" => \E k \in Key : Waiting(k) /\ wait[k].run = r
    /\ \A k \in WaitsOf(r) : Waiting(k)

\* The same runs, once ended, have ended: no stage's write, resume, deadline or
\* second attempt moves them on.
EndedIsFinal ==
  [][\A r \in Undisturbed : run[r].status \in Terminal => run'[r].status = run[r].status]_vars

\* However starts, resumes and sweeps repeat a dispatch, two attempts are inside
\* one run only after a fault, or when the run began inline.
NeverTwice == \A r \in doubled : r \in sync \/ faults > 0

\* A run whose dispatch was lost, or whose process stopped before its first
\* checkpoint, is taken up, unless its job was called dead or cancelled.
LostStartIsFound ==
  \A r \in Run :
    run[r].status = "pending" ~> (run[r].status # "pending" \/ job[r] \in {"dead", "cancelled"})

\* "Every run-path write is conditioned on the run not having ended": a run that
\* has ended stays as it ended.
EndedStaysEnded ==
  [][\A r \in Run : run[r].status \in Terminal => run'[r].status = run[r].status]_vars

-----------------------------------------------------------------------------
(* What a flow's author is promised                                        *)

Life == INSTANCE RunLife WITH
  status <- [r \in Run |-> run[r].status],
  holder <- [k \in Key |-> IF Open(k) THEN wait[k].run ELSE Null],
  drawn <- {k \in Key : wait[k] # Null},
  loose <- undercut \union doubled
ImplementsRunLife == Life!Spec
=============================================================================
