---------------------------- MODULE OrionProofs ----------------------------
(* Theorems about Orion, for any runs, keys, workers, stages and bounds.   *)
EXTENDS Orion, TLAPS

-----------------------------------------------------------------------------
(* Types, and who works on what                                            *)

\* A worker has a run that exists, and its job is one of that run's.
Owned(w) ==
  exec[w].at # "idle" =>
    /\ exec[w].run \in Run /\ run[exec[w].run].status # "absent"
    /\ exec[w].job \in Run => exec[w].job = exec[w].run
    /\ exec[w].job \in Key =>
         wait[exec[w].job] # Null /\ wait[exec[w].job].run = exec[w].run
    /\ exec[w].at \in {"resume", "consume"} => exec[w].job \in Key
    /\ exec[w].at = "suspend" => exec[w].stage \in 1..Last

\* Only what exists is waited for, dispatched or queued.
Named ==
  /\ \A k \in Key : wait[k] # Null => run[wait[k].run].status # "absent"
  /\ \A k \in Key : job[k] # "absent" \/ k \in owed => wait[k] # Null
  /\ \A r \in Run : job[r] # "absent" \/ r \in owed => run[r].status # "absent"

Typed == TypeOK /\ Named /\ \A w \in Worker : Owned(w)

\* Runs and waits, once they exist, go on existing, and a wait is its run's.
Grows ==
  /\ \A r \in Run : run'[r].status = "absent" => run[r].status = "absent"
  /\ \A k \in Key : wait[k] # Null => wait'[k] # Null /\ wait'[k].run = wait[k].run

LEMMA IdleTask == Idle \in Task /\ Idle.at = "idle"
BY OrionAssumption DEF Idle, Task, Terminal

LEMMA TypedInit == Init => Typed
<1> SUFFICES ASSUME Init PROVE Typed
  OBVIOUS
<1>1. run \in [Run -> RunRow] /\ \A r \in Run : run[r].status = "absent"
  BY OrionAssumption DEF Init, RunRow
<1>2. exec \in [Worker -> Task] /\ \A w \in Worker : Owned(w)
  BY IdleTask DEF Init, Owned
<1>3. job \in [Job -> JobStatus] /\ Named
  BY DEF Init, JobStatus, Job, Named
<1> QED
  BY <1>1, <1>2, <1>3 DEF Init, Typed, TypeOK

\* What setting one run, or one worker, does to all of them.
LEMMA RunSet ==
  ASSUME TypeOK, NEW r \in Run, NEW x \in RunRow, run' = [run EXCEPT ![r] = x]
  PROVE  run' \in [Run -> RunRow] /\ \A q \in Run : run'[q] = IF q = r THEN x ELSE run[q]
BY DEF TypeOK

LEMMA ExecSet ==
  ASSUME TypeOK, NEW w \in Worker, NEW x \in Task, exec' = [exec EXCEPT ![w] = x]
  PROVE  exec' \in [Worker -> Task] /\ \A v \in Worker : exec'[v] = IF v = w THEN x ELSE exec[v]
BY DEF TypeOK

\* saveRecord's write, and the terminal write of a cancel or a deadline.
LEMMA EndRunTypes ==
  ASSUME TypeOK, NEW r \in Run, NEW s \in Terminal, EndRun(r, s)
  PROVE  /\ run' \in [Run -> RunRow]
         /\ \A q \in Run : q # r => run'[q] = run[q]
         /\ run'[r].status = IF Live(r) THEN s ELSE run[r].status
<1>1. run[r] \in RunRow /\ 0 \in 0..Last
  BY OrionAssumption DEF TypeOK
<1> DEFINE x == [run[r] EXCEPT !.status = s, !.stage = 0, !.on = 0]
<1>2. x \in RunRow /\ x.status = s
  BY <1>1 DEF RunRow
<1>3. CASE Live(r)
  <2>1. run' = [run EXCEPT ![r] = x]
    BY <1>3 DEF EndRun
  <2> HIDE DEF x
  <2> QED
    BY <1>2, <1>3, <2>1, RunSet
<1>4. CASE ~Live(r)
  BY <1>4 DEF EndRun, TypeOK
<1> QED
  BY <1>3, <1>4

\* Deleting the waits of S, which are open.
LEMMA CloseTypes ==
  ASSUME TypeOK, NEW S \in SUBSET Key, \A k \in S : wait[k] # Null, Close(S)
  PROVE  /\ wait' \in [Key -> WaitRow \union {Null}]
         /\ \A k \in Key : wait'[k] = Null <=> wait[k] = Null
         /\ \A k \in Key : wait[k] # Null =>
              wait'[k].run = wait[k].run /\ wait'[k].stage = wait[k].stage
         /\ \A k \in Key : Open(k)' <=> Open(k) /\ k \notin S
         /\ \A k \in Key \ S : wait'[k] = wait[k]
<1>1. \A k \in Key : wait'[k] = IF k \in S THEN [wait[k] EXCEPT !.open = FALSE] ELSE wait[k]
  BY DEF Close
<1>2. \A k \in S : /\ wait[k] \in WaitRow /\ wait'[k] \in WaitRow
                   /\ wait'[k].run = wait[k].run /\ wait'[k].stage = wait[k].stage
                   /\ ~wait'[k].open
  BY <1>1 DEF TypeOK, WaitRow
<1>3. \A k \in S : wait'[k] # Null
  BY <1>2, OrionAssumption
<1>4. wait' \in [Key -> WaitRow \union {Null}]
  <2>1. \A k \in Key : wait'[k] \in WaitRow \union {Null}
    BY <1>1, <1>2 DEF TypeOK
  <2> QED
    BY <2>1 DEF Close
<1> QED
  BY <1>1, <1>2, <1>3, <1>4 DEF Open

\* A worker that keeps its run and its job, or becomes idle, is owned as before.
LEMMA OwnedKept ==
  ASSUME Typed, Grows, NEW w \in Worker, NEW x \in Task, exec' = [exec EXCEPT ![w] = x],
         x.at # "idle" => exec[w].at # "idle" /\ x.run = exec[w].run /\ x.job = exec[w].job,
         x.at \in {"resume", "consume"} => x.job \in Key,
         x.at = "suspend" => x.stage \in 1..Last
  PROVE  exec' \in [Worker -> Task] /\ (\A v \in Worker : Owned(v))'
<1>1. exec' \in [Worker -> Task] /\ \A v \in Worker : exec'[v] = IF v = w THEN x ELSE exec[v]
  BY ExecSet DEF Typed
<1>2. ASSUME NEW v \in Worker, exec[v].at # "idle"
      PROVE  /\ exec[v].run \in Run /\ run'[exec[v].run].status # "absent"
             /\ exec[v].job \in Run => exec[v].job = exec[v].run
             /\ exec[v].job \in Key =>
                  wait'[exec[v].job] # Null /\ wait'[exec[v].job].run = exec[v].run
  BY <1>2 DEF Typed, Owned, Grows
<1>3. ASSUME NEW v \in Worker, exec[v].at \in {"resume", "consume"} PROVE exec[v].job \in Key
  BY <1>3 DEF Typed, Owned
<1>5. ASSUME NEW v \in Worker, exec[v].at = "suspend" PROVE exec[v].stage \in 1..Last
  BY <1>5 DEF Typed, Owned
<1>4. ASSUME NEW v \in Worker PROVE Owned(v)'
  <2>1. CASE v = w
    BY <1>1, <1>2, <2>1 DEF Owned
  <2>2. CASE v # w
    BY <1>1, <1>2, <1>3, <1>5, <2>2 DEF Owned
  <2> QED
    BY <2>1, <2>2
<1> QED
  BY <1>1, <1>4

\* The same, when nobody's work changes.
LEMMA OwnedSame ==
  ASSUME Typed, Grows, UNCHANGED exec
  PROVE  (\A v \in Worker : Owned(v))'
BY DEF Typed, Owned, Grows, TypeOK

\* Nothing new is waited for, dispatched or queued.
LEMMA NamedKept ==
  ASSUME Typed, Grows, \A k \in Key : wait'[k] # Null => wait[k] # Null,
         \A j \in Job : job'[j] # "absent" => job[j] # "absent", owed' \subseteq owed
  PROVE  Named'
<1>1. ASSUME NEW k \in Key PROVE /\ wait'[k] # Null => run'[wait'[k].run].status # "absent"
                                 /\ job'[k] # "absent" \/ k \in owed' => wait'[k] # Null
  <2>1. CASE wait[k] # Null
    <3>1. wait[k].run \in Run
      BY <2>1 DEF Typed, TypeOK, WaitRow
    <3> QED
      BY <2>1, <3>1 DEF Typed, Named, Grows
  <2>2. CASE wait[k] = Null
    BY <2>2 DEF Typed, Named, Job
  <2> QED
    BY <2>1, <2>2
<1>2. ASSUME NEW r \in Run PROVE job'[r] # "absent" \/ r \in owed' => run'[r].status # "absent"
  BY DEF Typed, Named, Job, Grows
<1> QED
  BY <1>1, <1>2 DEF Named

\* Where a worker goes with its run: to another place inside the attempt, or out.
LEMMA LeaveTypes ==
  ASSUME Typed, NEW w \in Worker, exec[w].at # "idle", Leave(w)
  PROVE  \E x \in Task : /\ exec' = [exec EXCEPT ![w] = x]
                         /\ x.at \in {"idle", "over"}
                         /\ x.at # "idle" => x.run = exec[w].run /\ x.job = exec[w].job
<1>1. exec[w] \in Task
  BY DEF Typed, TypeOK
<1>2. Leaving(w) \in Task /\ Leaving(w).at = "over" /\ Leaving(w).run = exec[w].run
      /\ Leaving(w).job = exec[w].job
  BY <1>1, IdleTask DEF Leaving, Task
<1>3. CASE exec[w].job = Null
  BY <1>3, IdleTask DEF Leave, Typed, TypeOK
<1>4. CASE exec[w].job # Null
  BY <1>2, <1>4 DEF Leave, Typed, TypeOK
<1> QED
  BY <1>3, <1>4

\* A step of a worker changes its own record alone, and keeps its run and its job
\* while it has any.
Moves(w) ==
  \E x \in Task :
    /\ exec' = [exec EXCEPT ![w] = x]
    /\ x.at # "idle" => x.run = exec[w].run /\ x.job = exec[w].job
    /\ x.at \in {"resume", "consume"} => x.job \in Key
    /\ x.at = "suspend" => x.stage \in 1..Last

LEMMA KeyGoneMoves ==
  ASSUME Typed, NEW w \in Worker, exec[w].at # "idle", KeyGone(w)
  PROVE  Moves(w)
<1>1. exec[w] \in Task
  BY DEF Typed, TypeOK
<1>2. CASE ~exec[w].again /\ Leave(w)
  BY <1>2, LeaveTypes DEF Moves
<1>3. CASE exec[w].again /\ exec' = [exec EXCEPT ![w] = [@ EXCEPT !.at = "load", !.again = FALSE]]
  <2> DEFINE x == [exec[w] EXCEPT !.at = "load", !.again = FALSE]
  <2>1. x \in Task /\ x.at = "load" /\ x.run = exec[w].run /\ x.job = exec[w].job
    BY <1>1 DEF Task, Inside
  <2>2. exec' = [exec EXCEPT ![w] = x]
    BY <1>3 DEF Typed, TypeOK
  <2> HIDE DEF x
  <2> QED
    BY <2>1, <2>2 DEF Moves
<1> QED
  BY <1>2, <1>3 DEF KeyGone

LEMMA EndsMoves ==
  ASSUME Typed, NEW w \in Worker, NEW s \in Terminal, Ends(w, s)
  PROVE  Moves(w)
<1>1. exec[w] \in Task
  BY DEF Typed, TypeOK
<1> DEFINE x == [exec[w] EXCEPT !.at = "record", !.stage = 0, !.wrote = FALSE,
                                !.beating = FALSE, !.end = s]
<1>2. x \in Task /\ x.at = "record" /\ x.run = exec[w].run /\ x.job = exec[w].job
  <2>1. 0 \in 0..Last
    BY OrionAssumption
  <2>2. x \in Task
    BY <1>1, <2>1 DEF Task, Inside
  <2>3. x.at = "record"
    BY <1>1 DEF Task
  <2>4. x.run = exec[w].run /\ x.job = exec[w].job
    BY <1>1 DEF Task
  <2> QED
    BY <2>2, <2>3, <2>4
<1>3. exec' = [exec EXCEPT ![w] = x]
  BY DEF Ends, Typed, TypeOK
<1> HIDE DEF x
<1> QED
  BY <1>2, <1>3 DEF Moves

LEMMA GoesMoves ==
  ASSUME Typed, NEW w \in Worker, NEW n \in 0..Last, NEW a \in Inside, Goes(w, a, n),
         a = "suspend" => n \in 1..Last
  PROVE  Moves(w)
<1>1. exec[w] \in Task
  BY DEF Typed, TypeOK
<1> DEFINE x == [exec[w] EXCEPT !.at = a, !.stage = n]
<1>2. x \in Task /\ x.at = a /\ x.run = exec[w].run /\ x.job = exec[w].job /\ x.stage = n
  BY <1>1 DEF Task
<1>3. exec' = [exec EXCEPT ![w] = x]
  BY DEF Goes, Typed, TypeOK
<1>4. a \notin {"resume", "consume"}
  BY DEF Inside
<1> HIDE DEF x
<1> QED
  BY <1>2, <1>3, <1>4 DEF Moves

LEMMA LookMoves ==
  ASSUME Typed, NEW w \in Worker, Look(w)
  PROVE  Moves(w)
<1>1. exec[w] \in Task
  BY DEF Typed, TypeOK
<1>2. CASE LeaveIt(w)
  BY <1>2, LeaveTypes DEF LeaveIt, Moves
<1>3. CASE CallOff(w)
  <2> DEFINE x == [exec[w] EXCEPT !.at = "record", !.again = FALSE, !.end = "cancelled"]
  <2>1. x \in Task /\ x.at = "record" /\ x.run = exec[w].run /\ x.job = exec[w].job
    BY <1>1 DEF Task, Inside, Terminal
  <2>2. exec' = [exec EXCEPT ![w] = x]
    BY <1>3 DEF CallOff, Typed, TypeOK
  <2> HIDE DEF x
  <2> QED
    BY <2>1, <2>2 DEF Moves
<1>4. ASSUME NEW a \in {"resume", "load"}, NEW again \in BOOLEAN, Turn(w, a, again),
             a = "resume" => exec[w].job \in Key
      PROVE  Moves(w)
  <2> DEFINE beats == (run[exec[w].run].beat # "none")
  <2> DEFINE x == [exec[w] EXCEPT !.at = a, !.again = again, !.beating = beats]
  <2>1. beats \in BOOLEAN
    OBVIOUS
  <2>2. exec' = [exec EXCEPT ![w] = x]
    BY <1>4 DEF Turn, Typed, TypeOK
  <2> HIDE DEF beats
  <2>3. x \in Task /\ x.at = a /\ x.run = exec[w].run /\ x.job = exec[w].job
    BY <1>1, <2>1 DEF Task, Inside
  <2> HIDE DEF x
  <2> QED
    BY <1>4, <2>2, <2>3 DEF Moves
<1>5. CASE ByKey(w)
  <2>1. MayGoOn(w) \in BOOLEAN
    BY <1>1 DEF MayGoOn, Task
  <2> QED
    BY <1>4, <1>5, <2>1 DEF ByKey
<1>6. CASE ByRun(w)
  BY <1>4, <1>6 DEF ByRun
<1> QED
  BY <1>2, <1>3, <1>5, <1>6 DEF Look

LEMMA StepMoves ==
  ASSUME Typed, NEW w \in Worker, Step(w)
  PROVE  Moves(w) /\ exec[w].at # "idle"
<1>1. exec[w] \in Task /\ (exec[w].at # "idle" => exec[w].run \in Run)
  BY DEF Typed, TypeOK, Owned
<1>2. 0 \in 0..Last
  BY OrionAssumption
<1>3. CASE Look(w)
  BY <1>3, LookMoves DEF Look, LeaveIt, CallOff, ByKey, ByRun
<1>4. CASE Load(w)
  <2>1. run[exec[w].run] \in RunRow
    BY <1>1, <1>4 DEF Load, Typed, TypeOK
  <2> DEFINE done == IF HasContext(exec[w].run) THEN run[exec[w].run].stage ELSE 0
  <2>2. done \in 0..Last
    BY <1>2, <2>1 DEF RunRow
  <2>3. \/ Leave(w)
        \/ \E a \in {"work", "save"} : Goes(w, a, done)
    BY <1>4 DEF Load, Goes
  <2> HIDE DEF done
  <2>4. CASE Leave(w)
    BY <1>4, <2>4, LeaveTypes DEF Load, Moves
  <2>5. CASE \E a \in {"work", "save"} : Goes(w, a, done)
    BY <1>1, <1>4, <2>2, <2>5, GoesMoves DEF Load, Inside
  <2> QED
    BY <1>4, <2>3, <2>4, <2>5 DEF Load
<1>5. CASE Find(w)
  <2>1. exec[w].at = "resume"
    BY <1>5 DEF Find
  <2>2. run[exec[w].run] \in RunRow /\ exec[w].job \in Key
    BY <1>1, <2>1 DEF Typed, TypeOK, Owned
  <2> DEFINE x == [exec[w] EXCEPT !.at = "consume", !.stage = run[exec[w].run].stage]
  <2>3. x \in Task /\ x.at = "consume" /\ x.run = exec[w].run /\ x.job = exec[w].job
    BY <1>1, <2>2 DEF Task, RunRow
  <2>4. ASSUME exec' = [exec EXCEPT ![w] = [@ EXCEPT !.at = "consume",
                                                     !.stage = run[exec[w].run].stage]]
        PROVE  Moves(w)
    <3>1. exec' = [exec EXCEPT ![w] = x]
      BY <2>4 DEF Typed, TypeOK
    <3> HIDE DEF x
    <3> QED
      BY <2>2, <2>3, <3>1 DEF Moves
  <2> QED
    BY <1>5, <2>1, <2>4, KeyGoneMoves DEF Find
<1>6. CASE Consume(w)
  <2>1. exec[w].at = "consume"
    BY <1>6 DEF Consume
  <2> DEFINE x == [exec[w] EXCEPT !.at = "work", !.again = FALSE, !.wrote = TRUE]
  <2>2. x \in Task /\ x.at = "work" /\ x.run = exec[w].run /\ x.job = exec[w].job
    BY <1>1 DEF Task, Inside
  <2>3. ASSUME Resumed(w) PROVE Moves(w)
    <3>1. exec' = [exec EXCEPT ![w] = x]
      BY <2>3 DEF Resumed, Typed, TypeOK
    <3> HIDE DEF x
    <3> QED
      BY <2>2, <3>1 DEF Moves
  <2> QED
    BY <1>6, <2>1, <2>3, KeyGoneMoves DEF Consume
<1>7. CASE ClearBeat(w)
  <2> DEFINE x == [exec[w] EXCEPT !.beating = FALSE]
  <2>1. x \in Task /\ x.at = exec[w].at /\ x.run = exec[w].run /\ x.job = exec[w].job
    BY <1>1 DEF Task
  <2>2. exec' = [exec EXCEPT ![w] = x]
    BY <1>7 DEF ClearBeat, Typed, TypeOK
  <2> HIDE DEF x
  <2> QED
    BY <1>7, <2>1, <2>2 DEF Moves, ClearBeat
<1>8. CASE Work(w)
  <2>1. "completed" \in Terminal /\ "failed" \in Terminal /\ "save" \in Inside /\ "suspend" \in Inside
    BY DEF Terminal, Inside
  <2>2. Waits \subseteq 1..Last /\ 1..Last \subseteq 0..Last
    BY OrionAssumption
  <2> QED
    BY <1>8, <2>1, <2>2, EndsMoves, GoesMoves DEF Work
<1>9. CASE Save(w)
  <2> DEFINE x == [exec[w] EXCEPT !.at = "work", !.wrote = TRUE]
  <2>1. x \in Task /\ x.at = "work" /\ x.run = exec[w].run /\ x.job = exec[w].job
    BY <1>1 DEF Task, Inside
  <2>2. exec' = [exec EXCEPT ![w] = x]
    BY <1>9 DEF Save, Typed, TypeOK
  <2> HIDE DEF x
  <2> QED
    BY <1>9, <2>1, <2>2 DEF Moves, Save
<1>10. CASE Suspend(w) \/ Record(w)
  BY <1>10, LeaveTypes DEF Suspend, Record, Moves
<1>11. CASE Throw(w)
  BY <1>11, EndsMoves DEF Throw, Terminal
<1>12. CASE Return(w)
  BY <1>12, IdleTask DEF Return, Moves
<1> QED
  BY <1>3, <1>4, <1>5, <1>6, <1>7, <1>8, <1>9, <1>10, <1>11, <1>12 DEF Step

\* One run's new row, whatever its worker wrote in it.
LEMMA OneRunGrows ==
  ASSUME Typed, NEW r \in Run, NEW x \in RunRow, run' = [run EXCEPT ![r] = x],
         x.status = "absent" => run[r].status = "absent",
         \A k \in Key : wait[k] # Null => wait'[k] # Null /\ wait'[k].run = wait[k].run
  PROVE  run' \in [Run -> RunRow] /\ Grows
BY RunSet DEF Typed, Grows

LEMMA EndRunGrows ==
  ASSUME Typed, NEW r \in Run, NEW s \in Terminal, EndRun(r, s),
         \A k \in Key : wait[k] # Null => wait'[k] # Null /\ wait'[k].run = wait[k].run
  PROVE  run' \in [Run -> RunRow] /\ Grows
<1>1. /\ run' \in [Run -> RunRow]
      /\ \A q \in Run : q # r => run'[q] = run[q]
      /\ run'[r].status = IF Live(r) THEN s ELSE run[r].status
  BY EndRunTypes DEF Typed
<1> QED
  BY <1>1 DEF Grows, Terminal

\* What a worker's step writes in the runs and the waits.
LEMMA StepWrites ==
  ASSUME Typed, NEW w \in Worker, Step(w)
  PROVE  /\ run' \in [Run -> RunRow] /\ wait' \in [Key -> WaitRow \union {Null}]
         /\ wins' \in [Key -> Nat] /\ Grows
         /\ Suspend(w) \/ \A k \in Key : wait'[k] # Null => wait[k] # Null
<1>1. exec[w] \in Task /\ exec[w].run \in Run /\ run[exec[w].run] \in RunRow
      /\ run[exec[w].run].status # "absent"
  BY StepMoves DEF Typed, TypeOK, Owned
<1>2. 0 \in 0..Last
  BY OrionAssumption
<1>3. CASE UNCHANGED <<run, wait, wins>>
  BY <1>3 DEF Typed, TypeOK, Grows
<1>4. CASE Consume(w) /\ Open(exec[w].job)
  <2>1. exec[w].job \in Key
    BY <1>4 DEF Consume, Typed, Owned
  <2>2. Close({exec[w].job}) /\ Won({exec[w].job}) /\ Resumed(w)
    BY <1>4 DEF Consume
  <2>3. /\ wait' \in [Key -> WaitRow \union {Null}]
        /\ \A k \in Key : wait'[k] = Null <=> wait[k] = Null
        /\ \A k \in Key : wait[k] # Null => wait'[k].run = wait[k].run
    BY <1>4, <2>1, <2>2, CloseTypes DEF Open, Typed
  <2> DEFINE x == [run[exec[w].run] EXCEPT !.status = "running", !.stage = exec[w].stage, !.on = 0]
  <2>4. x \in RunRow /\ x.status = "running"
    BY <1>1, <1>2 DEF RunRow, Task
  <2>5. run' = [run EXCEPT ![exec[w].run] = x]
    BY <2>2 DEF Resumed, Typed, TypeOK
  <2> HIDE DEF x
  <2>6. run' \in [Run -> RunRow] /\ Grows
    BY <1>1, <2>3, <2>4, <2>5, OneRunGrows
  <2>7. wins' \in [Key -> Nat]
    BY <2>2 DEF Won, Typed, TypeOK
  <2> QED
    BY <2>3, <2>6, <2>7
<1>5. CASE ClearBeat(w)
  <2> DEFINE x == [run[exec[w].run] EXCEPT !.beat = "none"]
  <2>1. x \in RunRow /\ x.status = run[exec[w].run].status
    BY <1>1 DEF RunRow
  <2>2. run' = [run EXCEPT ![exec[w].run] = x]
    BY <1>5 DEF ClearBeat, Typed, TypeOK
  <2> HIDE DEF x
  <2>3. UNCHANGED <<wait, wins>>
    BY <1>5 DEF ClearBeat, history
  <2> QED
    BY <1>1, <2>1, <2>2, <2>3, OneRunGrows DEF Typed, TypeOK
<1>6. CASE Save(w)
  <2> DEFINE x == [run[exec[w].run] EXCEPT
                     !.status = IF exec[w].wrote THEN run[exec[w].run].status ELSE "running",
                     !.stage = exec[w].stage, !.on = 0]
  <2>1. x \in RunRow
    BY <1>1, <1>2 DEF RunRow, Task
  <2>2. x.status = "absent" => run[exec[w].run].status = "absent"
    BY <1>1 DEF RunRow
  <2>3. run' = [run EXCEPT ![exec[w].run] = x]
    BY <1>6 DEF Save, Typed, TypeOK
  <2> HIDE DEF x
  <2>4. UNCHANGED <<wait, wins>>
    BY <1>6 DEF Save, history
  <2> QED
    BY <1>1, <2>1, <2>2, <2>3, <2>4, OneRunGrows DEF Typed, TypeOK
<1>7. CASE Suspend(w)
  <2> DEFINE x == [run[exec[w].run] EXCEPT !.status = "waiting", !.stage = exec[w].stage,
                                           !.on = exec[w].stage]
  <2>1. x \in RunRow /\ x.status = "waiting"
    BY <1>1 DEF RunRow, Task
  <2>2. run' = [run EXCEPT ![exec[w].run] = x]
    BY <1>7 DEF Suspend, Typed, TypeOK
  <2> HIDE DEF x
  <2>3. PICK k \in Key : /\ wait[k] = Null
                         /\ wait' = [wait EXCEPT ![k] = [run |-> exec[w].run,
                                         stage |-> exec[w].stage, open |-> TRUE]]
    BY <1>7 DEF Suspend
  <2>4. [run |-> exec[w].run, stage |-> exec[w].stage, open |-> TRUE] \in WaitRow
    BY <1>1, <1>7 DEF Typed, Owned, Suspend, WaitRow
  <2>5. /\ wait' \in [Key -> WaitRow \union {Null}]
        /\ \A l \in Key : wait[l] # Null => wait'[l] = wait[l]
    BY <2>3, <2>4 DEF Typed, TypeOK
  <2>6. wins' = wins
    BY <1>7 DEF Suspend, history
  <2> QED
    BY <1>1, <1>7, <2>1, <2>2, <2>5, <2>6, OneRunGrows DEF Typed, TypeOK
<1>8. CASE Record(w)
  <2>1. exec[w].end \in Terminal /\ EndRun(exec[w].run, exec[w].end) /\ UNCHANGED <<wait, wins>>
    BY <1>1, <1>8 DEF Record, Task, history
  <2> QED
    BY <1>1, <2>1, EndRunGrows DEF Typed, TypeOK
<1> QED
  BY <1>3, <1>4, <1>5, <1>6, <1>7, <1>8
     DEF Step, Look, LeaveIt, CallOff, ByKey, ByRun, Load, Find, Consume, Work, Throw, Return, history

\* A job that moves keeps a legal status, and one that was absent stays absent.
LEMMA MoveTypes ==
  ASSUME TypeOK, NEW j, NEW from, NEW to \in JobStatus, "absent" \notin from,
         Queue!Move({j}, from, to)
  PROVE  /\ job' \in [Job -> JobStatus]
         /\ \A i \in Job : job'[i] # "absent" => job[i] # "absent"
BY DEF TypeOK, Queue!Move

\* What a worker's step does to everything else.
LEMMA StepFrame ==
  ASSUME Typed, NEW w \in Worker, Step(w)
  PROVE  /\ UNCHANGED <<flow, began, owed, undercut, sync>>
         /\ doubled' \subseteq doubled \union {exec[w].run}
         /\ job' \in [Job -> JobStatus]
         /\ \A j \in Job : job'[j] # "absent" => job[j] # "absent"
         /\ Suspend(w) => UNCHANGED job
<1>1. CASE Look(w)
  BY <1>1 DEF Look, LeaveIt, CallOff, ByKey, ByRun, Entering, queue, history, Typed, TypeOK, Suspend
<1>2. CASE Load(w) \/ Find(w) \/ ClearBeat(w) \/ Work(w) \/ Save(w) \/ Suspend(w) \/ Throw(w) \/ Record(w)
  BY <1>2 DEF Load, Find, ClearBeat, Work, Save, Suspend, Throw, Record, queue, history, Typed, TypeOK
<1>3. CASE Consume(w)
  BY <1>3 DEF Consume, Resumed, Entering, queue, Typed, TypeOK
<1>4. CASE Return(w)
  <2>1. CASE exec[w].held
    <3>1. Queue!Move({exec[w].job}, {"running"}, "done")
      BY <1>4, <2>1 DEF Return
    <3>2. /\ job' \in [Job -> JobStatus]
          /\ \A j \in Job : job'[j] # "absent" => job[j] # "absent"
      BY <3>1, MoveTypes DEF Typed, JobStatus
    <3> QED
      BY <1>4, <3>2 DEF Return, Suspend, history
  <2>2. CASE ~exec[w].held
    BY <1>4, <2>2 DEF Return, history, Typed, TypeOK
  <2> QED
    BY <2>1, <2>2
<1> QED
  BY <1>1, <1>2, <1>3, <1>4 DEF Step

LEMMA StepTyped ==
  ASSUME Typed, NEW w \in Worker, Step(w)
  PROVE  Typed'
<1>1. /\ run' \in [Run -> RunRow] /\ wait' \in [Key -> WaitRow \union {Null}]
      /\ wins' \in [Key -> Nat] /\ Grows
      /\ Suspend(w) \/ \A k \in Key : wait'[k] # Null => wait[k] # Null
  BY StepWrites
<1>2. /\ UNCHANGED <<flow, began, owed, undercut, sync>>
      /\ doubled' \subseteq doubled \union {exec[w].run}
      /\ job' \in [Job -> JobStatus]
      /\ \A j \in Job : job'[j] # "absent" => job[j] # "absent"
      /\ Suspend(w) => UNCHANGED job
  BY StepFrame
<1>3. Moves(w) /\ exec[w].at # "idle" /\ exec[w].run \in Run /\ run[exec[w].run].status # "absent"
  BY StepMoves DEF Typed, Owned
<1>4. exec' \in [Worker -> Task] /\ (\A v \in Worker : Owned(v))'
  BY <1>1, <1>3, OwnedKept DEF Moves
<1>5. Named'
  <2>1. CASE \A k \in Key : wait'[k] # Null => wait[k] # Null
    BY <1>1, <1>2, <2>1, NamedKept
  <2>2. CASE Suspend(w)
    <3>1. \A k \in Key : wait'[k] = wait[k] \/ (wait'[k] # Null /\ wait'[k].run = exec[w].run)
      BY <2>2, OrionAssumption DEF Suspend, Typed, TypeOK, WaitRow
    <3>2. \A r \in Run : run[r].status # "absent" => run'[r].status # "absent"
      BY <1>1 DEF Grows
    <3>3. ASSUME NEW k \in Key, wait'[k] # Null PROVE run'[wait'[k].run].status # "absent"
      <4>1. CASE wait'[k] = wait[k]
        BY <3>2, <3>3, <4>1 DEF Typed, TypeOK, Named, WaitRow
      <4>2. CASE wait'[k].run = exec[w].run
        BY <1>3, <3>2, <4>2
      <4> QED
        BY <3>1, <3>3, <4>1, <4>2
    <3> QED
      BY <1>1, <1>2, <2>2, <3>2, <3>3 DEF Typed, Named, Grows
  <2> QED
    BY <1>1, <2>1, <2>2
<1> QED
  BY <1>1, <1>2, <1>3, <1>4, <1>5 DEF Typed, TypeOK, flow

\* Everybody's work is as it was; at most `held` is dropped.
LEMMA OwnedLoose ==
  ASSUME Typed, Grows, exec' \in [Worker -> Task],
         \A w \in Worker : /\ exec'[w].at = exec[w].at /\ exec'[w].run = exec[w].run
                           /\ exec'[w].job = exec[w].job /\ exec'[w].stage = exec[w].stage
  PROVE  (\A w \in Worker : Owned(w))'
<1>1. ASSUME NEW w \in Worker, exec[w].at # "idle"
      PROVE  /\ exec[w].run \in Run /\ run'[exec[w].run].status # "absent"
             /\ exec[w].job \in Run => exec[w].job = exec[w].run
             /\ exec[w].job \in Key =>
                  wait'[exec[w].job] # Null /\ wait'[exec[w].job].run = exec[w].run
  BY <1>1 DEF Typed, Owned, Grows
<1> QED
  BY <1>1 DEF Typed, Owned

\* The callers' actions and the sweep's: nobody's work changes.
LEMMA CallersTyped ==
  ASSUME Typed, NEW r \in Run,
         Start(r) \/ CancelRead(r) \/ Cancel(r) \/ SweepLost(r) \/ GoStale(r) \/ Stall(r)
  PROVE  Typed'
<1>0. run[r] \in RunRow
  BY DEF Typed, TypeOK
<1>1. CASE CancelRead(r) \/ CancelLost(r)
  <2>1. Grows /\ UNCHANGED <<exec, wait, job, owed>>
    BY <1>1 DEF CancelRead, CancelLost, queue, Grows, Typed, TypeOK
  <2>2. TypeOK'
    BY <1>1 DEF CancelRead, CancelLost, queue, history, Typed, TypeOK
  <2> QED
    BY <2>1, <2>2, OwnedSame, NamedKept DEF Typed
<1>2. CASE Start(r)
  <2> DEFINE x == [run[r] EXCEPT !.status = "pending"]
  <2>1. x \in RunRow /\ x.status = "pending"
    BY <1>0 DEF RunRow
  <2>2. run' = run \/ run' = [run EXCEPT ![r] = x]
    BY <1>2 DEF Start, Typed, TypeOK
  <2> HIDE DEF x
  <2>3. run' \in [Run -> RunRow] /\ Grows
    BY <1>2, <2>1, <2>2, OneRunGrows DEF Start, Grows, Typed, TypeOK
  <2>4. run'[r].status # "absent"
    BY <1>0, <1>2, <2>1, <2>2 DEF Start, Typed, TypeOK
  <2>5. Named'
    BY <1>2, <2>3, <2>4, OrionAssumption DEF Start, Typed, TypeOK, Named, Grows, WaitRow
  <2>6. TypeOK'
    BY <1>2, <2>3 DEF Start, flow, history, Typed, TypeOK, Job
  <2> QED
    BY <1>2, <2>3, <2>5, <2>6, OwnedSame DEF Start, Typed
<1>3. CASE CancelWaiting(r)
  <2>1. WaitsOf(r) \in SUBSET Key /\ \A k \in WaitsOf(r) : wait[k] # Null
    BY DEF WaitsOf, Open
  <2>2. Close(WaitsOf(r)) /\ Won(WaitsOf(r)) /\ EndRun(r, "cancelled") /\ "cancelled" \in Terminal
    BY <1>3 DEF CancelWaiting, Terminal
  <2>3. /\ wait' \in [Key -> WaitRow \union {Null}]
        /\ \A k \in Key : wait'[k] = Null <=> wait[k] = Null
        /\ \A k \in Key : wait[k] # Null => wait'[k].run = wait[k].run
    BY <2>1, <2>2, CloseTypes DEF Typed
  <2>4. run' \in [Run -> RunRow] /\ Grows
    BY <2>2, <2>3, EndRunGrows
  <2>7. wins' \in [Key -> Nat]
    BY <2>2 DEF Won, Typed, TypeOK
  <2>5. TypeOK'
    BY <1>3, <2>3, <2>4, <2>7 DEF CancelWaiting, queue, Typed, TypeOK
  <2>6. UNCHANGED <<exec, job, owed>>
    BY <1>3 DEF CancelWaiting, queue
  <2> QED
    BY <2>3, <2>4, <2>5, <2>6, OwnedSame, NamedKept DEF Typed
<1>4. CASE CancelOther(r)
  <2>1. EndRun(r, "cancelled") /\ "cancelled" \in Terminal /\ UNCHANGED <<wait, exec, job, owed>>
    BY <1>4 DEF CancelOther, Terminal, queue
  <2>2. run' \in [Run -> RunRow] /\ Grows
    BY <2>1, EndRunGrows
  <2>3. TypeOK'
    BY <1>4, <2>2 DEF CancelOther, queue, Typed, TypeOK
  <2> QED
    BY <2>1, <2>2, <2>3, OwnedSame, NamedKept DEF Typed
<1>5. CASE SweepLost(r)
  <2>1. run[r].status # "absent" /\ Grows
    BY <1>5 DEF SweepLost, Grows
  <2>2. Named' /\ TypeOK'
    BY <1>5, <2>1, OrionAssumption DEF SweepLost, flow, history, Typed, TypeOK, Named, Job
  <2> QED
    BY <1>5, <2>1, <2>2, OwnedSame DEF SweepLost, Typed
<1>6. CASE GoStale(r) \/ Stall(r)
  <2> DEFINE x == [run[r] EXCEPT !.beat = "stale"]
  <2>1. x \in RunRow /\ x.status = run[r].status
    BY <1>0 DEF RunRow
  <2>2. run' = [run EXCEPT ![r] = x] /\ UNCHANGED <<wait, exec, job, owed>>
    BY <1>6 DEF GoStale, Stall, Silent, Fault, queue, Typed, TypeOK
  <2> HIDE DEF x
  <2>3. run' \in [Run -> RunRow] /\ Grows
    BY <2>1, <2>2, OneRunGrows
  <2>4. TypeOK'
    BY <1>6, <2>2, <2>3 DEF GoStale, Stall, Fault, queue, flow, history, Typed, TypeOK
  <2> QED
    BY <2>2, <2>3, <2>4, OwnedSame, NamedKept DEF Typed
<1> QED
  BY <1>1, <1>2, <1>3, <1>4, <1>5, <1>6 DEF Cancel

\* A resume's dispatch, and a deadline.
LEMMA KeysTyped ==
  ASSUME Typed, NEW k \in Key, ResumeCall(k) \/ Expire(k)
  PROVE  Typed'
<1>1. CASE ResumeCall(k)
  <2>1. Grows /\ Named' /\ TypeOK'
    BY <1>1, OrionAssumption DEF ResumeCall, Open, Grows, flow, history, Typed, TypeOK, Named, Job
  <2> QED
    BY <1>1, <2>1, OwnedSame DEF ResumeCall, Typed
<1>2. CASE Expire(k)
  <2>1. Close({k}) /\ Won({k}) /\ EndRun(wait[k].run, "failed") /\ "failed" \in Terminal
        /\ UNCHANGED <<exec, job, owed>>
    BY <1>2 DEF Expire, queue, Terminal
  <2>2. wait[k] # Null /\ wait[k].run \in Run
    BY <1>2, OrionAssumption DEF Expire, Open, Typed, TypeOK, WaitRow
  <2>3. /\ wait' \in [Key -> WaitRow \union {Null}]
        /\ \A l \in Key : wait'[l] = Null <=> wait[l] = Null
        /\ \A l \in Key : wait[l] # Null => wait'[l].run = wait[l].run
    BY <2>1, <2>2, CloseTypes DEF Typed
  <2>4. run' \in [Run -> RunRow] /\ Grows
    BY <2>1, <2>2, <2>3, EndRunGrows
  <2>5. TypeOK'
    BY <1>2, <2>1, <2>3, <2>4 DEF Expire, Won, queue, flow, Typed, TypeOK
  <2> QED
    BY <2>1, <2>3, <2>4, <2>5, OwnedSame, NamedKept DEF Typed
<1> QED
  BY <1>1, <1>2

\* The queue: dispatches, lost ones, and the operator.
LEMMA QueueTyped ==
  ASSUME Typed, NEW j \in Job, Dispatch(j) \/ Drop(j) \/ Meddle(j)
  PROVE  Typed'
<1>1. CASE Dispatch(j)
  <2>1. /\ job' \in [Job -> JobStatus]
        /\ \A i \in Job : job'[i] # "absent" => job[i] # "absent" \/ i = j
    BY <1>1 DEF Dispatch, Queue!Enter, Queue!Move, Typed, TypeOK, JobStatus
  <2>2. Grows /\ Named' /\ TypeOK'
    BY <1>1, <2>1 DEF Dispatch, Grows, flow, history, Typed, TypeOK, Named, Job
  <2> QED
    BY <1>1, <2>2, OwnedSame DEF Dispatch, Typed
<1>2. CASE Drop(j)
  <2>1. Grows /\ TypeOK' /\ UNCHANGED <<wait, exec, job>> /\ owed' \subseteq owed
    BY <1>2 DEF Drop, Fault, Grows, history, Typed, TypeOK
  <2> QED
    BY <2>1, OwnedSame, NamedKept DEF Typed
<1>3. CASE Meddle(j)
  <2>1. UNCHANGED <<run, wait, active, quit, history, owed>> /\ faults' \in Nat /\ began' \subseteq Job
    BY <1>3 DEF Meddle, Fault, Typed, TypeOK
  <2>2. /\ job' \in [Job -> JobStatus]
        /\ \A i \in Job : job'[i] # "absent" => job[i] # "absent"
    BY <1>3 DEF Meddle, Queue!Cancel, Queue!Enter, Queue!Forget, Queue!Move, Queue!Live,
                Typed, TypeOK, JobStatus
  <2>3. /\ exec' \in [Worker -> Task]
        /\ \A w \in Worker : /\ exec'[w].at = exec[w].at /\ exec'[w].run = exec[w].run
                             /\ exec'[w].job = exec[w].job /\ exec'[w].stage = exec[w].stage
    <3>1. \A w \in Worker : exec'[w] = IF exec[w].job = j THEN [exec[w] EXCEPT !.held = FALSE]
                                       ELSE exec[w]
      BY <1>3 DEF Meddle
    <3>2. \A w \in Worker : /\ [exec[w] EXCEPT !.held = FALSE] \in Task
                            /\ [exec[w] EXCEPT !.held = FALSE].at = exec[w].at
                            /\ [exec[w] EXCEPT !.held = FALSE].run = exec[w].run
                            /\ [exec[w] EXCEPT !.held = FALSE].job = exec[w].job
                            /\ [exec[w] EXCEPT !.held = FALSE].stage = exec[w].stage
      BY DEF Typed, TypeOK, Task
    <3>3. \A w \in Worker : exec'[w] \in Task
      BY <3>1, <3>2 DEF Typed, TypeOK
    <3>4. exec' \in [Worker -> Task]
      BY <1>3, <3>3 DEF Meddle
    <3> QED
      BY <3>1, <3>2, <3>4
  <2>4. Grows
    BY <2>1 DEF Grows
  <2>5. TypeOK'
    BY <2>1, <2>2, <2>3 DEF history, Typed, TypeOK
  <2> QED
    BY <2>1, <2>2, <2>3, <2>4, <2>5, OwnedLoose, NamedKept DEF Typed
<1> QED
  BY <1>1, <1>2, <1>3

\* A worker takes a run or a job, or loses it.
LEMMA WorkersTyped ==
  ASSUME Typed, NEW w \in Worker,
         \/ \E r \in Run : StartInline(r, w)
         \/ \E j \in Job : Begin(w, j)
         \/ Beat(w) \/ Die(w) \/ Lapse(w)
  PROVE  Typed'
<1>1. ASSUME NEW r \in Run, StartInline(r, w) PROVE Typed'
  <2> DEFINE x == [run[r] EXCEPT !.status = "pending", !.beat = "fresh"]
  <2> DEFINE y == [Idle EXCEPT !.at = "work", !.run = r]
  <2>1. x \in RunRow /\ x.status = "pending"
    BY DEF Typed, TypeOK, RunRow
  <2>2. run' = [run EXCEPT ![r] = x]
    BY <1>1 DEF StartInline, Typed, TypeOK
  <2>3. y \in Task /\ y.at = "work" /\ y.run = r /\ y.job = Null
    BY IdleTask DEF Task, Inside, Idle
  <2>4. exec' = [exec EXCEPT ![w] = y] /\ UNCHANGED <<wait, job, owed>>
    BY <1>1 DEF StartInline, queue
  <2> HIDE DEF x, y
  <2>5. run' \in [Run -> RunRow] /\ Grows /\ run'[r].status # "absent"
    BY <2>1, <2>2, <2>4, OneRunGrows DEF Typed, TypeOK
  <2>6. exec' \in [Worker -> Task] /\ \A v \in Worker : exec'[v] = IF v = w THEN y ELSE exec[v]
    BY <2>3, <2>4, ExecSet DEF Typed
  <2>7. ASSUME NEW v \in Worker PROVE Owned(v)'
    <3>1. CASE v = w
      BY <2>3, <2>5, <2>6, <3>1, OrionAssumption DEF Owned
    <3>2. CASE v # w
      BY <2>4, <2>5, <2>6, <3>2 DEF Owned, Typed, Grows
    <3> QED
      BY <3>1, <3>2
  <2>8. TypeOK'
    BY <1>1, <2>5, <2>6 DEF StartInline, queue, flow, Typed, TypeOK
  <2> QED
    BY <2>4, <2>5, <2>7, <2>8, NamedKept DEF Typed
<1>2. ASSUME NEW j \in Job, Begin(w, j) PROVE Typed'
  <2>1. /\ job' \in [Job -> JobStatus]
        /\ \A i \in Job : job'[i] # "absent" => job[i] # "absent"
        /\ job[j] # "absent"
    BY <1>2 DEF Begin, Queue!Begin, Queue!Move, Typed, TypeOK, JobStatus
  <2>2. /\ RunOf(j) \in Run /\ run[RunOf(j)].status # "absent"
        /\ j \in Run => j = RunOf(j)
        /\ j \in Key => wait[j] # Null /\ wait[j].run = RunOf(j)
    BY <2>1, OrionAssumption DEF RunOf, Job, Typed, TypeOK, Named, WaitRow
  <2> DEFINE again == (j \in began)
  <2> DEFINE y == [Idle EXCEPT !.at = "look", !.job = j, !.run = RunOf(j),
                               !.again = again, !.held = TRUE]
  <2>3. exec' = [exec EXCEPT ![w] = y] /\ UNCHANGED <<run, wait, owed>>
    BY <1>2 DEF Begin
  <2>4. again \in BOOLEAN
    OBVIOUS
  <2> HIDE DEF again
  <2>5. y \in Task /\ y.at = "look" /\ y.run = RunOf(j) /\ y.job = j
    BY <2>2, <2>4, IdleTask DEF Task, Job
  <2> HIDE DEF y
  <2>6. exec' \in [Worker -> Task] /\ \A v \in Worker : exec'[v] = IF v = w THEN y ELSE exec[v]
    BY <2>3, <2>5, ExecSet DEF Typed
  <2>7. ASSUME NEW v \in Worker PROVE Owned(v)'
    <3>1. CASE v = w
      BY <2>2, <2>3, <2>5, <2>6, <3>1 DEF Owned
    <3>2. CASE v # w
      BY <2>3, <2>6, <3>2 DEF Owned, Typed
    <3> QED
      BY <3>1, <3>2
  <2>8. TypeOK' /\ Grows
    BY <1>2, <2>1, <2>3, <2>6 DEF Begin, flow, history, Typed, TypeOK, Grows
  <2> QED
    BY <2>1, <2>3, <2>7, <2>8, NamedKept DEF Typed
<1>3. CASE Beat(w)
  <2>1. exec[w].run \in Run /\ run[exec[w].run] \in RunRow
    BY <1>3 DEF Beat, Inline, Typed, TypeOK, Owned
  <2> DEFINE x == [run[exec[w].run] EXCEPT !.beat = "fresh"]
  <2>2. x \in RunRow /\ x.status = run[exec[w].run].status
    BY <2>1 DEF RunRow
  <2>3. run' = [run EXCEPT ![exec[w].run] = x] /\ UNCHANGED <<wait, exec, job, owed>>
    BY <1>3 DEF Beat, queue, Typed, TypeOK
  <2> HIDE DEF x
  <2>4. run' \in [Run -> RunRow] /\ Grows
    BY <2>1, <2>2, <2>3, OneRunGrows
  <2>5. TypeOK'
    BY <1>3, <2>3, <2>4 DEF Beat, queue, flow, history, Typed, TypeOK
  <2> QED
    BY <2>3, <2>4, <2>5, OwnedSame, NamedKept DEF Typed
<1>4. CASE Die(w) \/ Lapse(w)
  <2>1. /\ UNCHANGED <<run, wait, active, quit, history, began, owed>> /\ faults' \in Nat
        /\ Grows
    BY <1>4 DEF Die, Lapse, Fault, Grows, Typed, TypeOK
  <2>2. /\ job' \in [Job -> JobStatus]
        /\ \A i \in Job : job'[i] # "absent" => job[i] # "absent"
    <3>1. (\E s \in {"pending", "dead"} : Queue!Move({exec[w].job}, {"running"}, s)) \/ UNCHANGED job
      BY <1>4 DEF Die, Lapse
    <3> QED
      BY <3>1, MoveTypes DEF Typed, TypeOK, JobStatus
  <2>3. \E y \in Task : /\ exec' = [exec EXCEPT ![w] = y]
                        /\ \/ y.at = "idle"
                           \/ /\ y.at = exec[w].at /\ y.run = exec[w].run
                              /\ y.job = exec[w].job /\ y.stage = exec[w].stage
    <3> DEFINE y == [exec[w] EXCEPT !.held = FALSE]
    <3>1. y \in Task /\ y.at = exec[w].at /\ y.run = exec[w].run /\ y.job = exec[w].job
          /\ y.stage = exec[w].stage
      BY DEF Typed, TypeOK, Task
    <3>2. exec' = [exec EXCEPT ![w] = y] \/ exec' = [exec EXCEPT ![w] = Idle]
      BY <1>4 DEF Die, Lapse, Typed, TypeOK
    <3> HIDE DEF y
    <3> QED
      BY <3>1, <3>2, IdleTask
  <2>4. exec' \in [Worker -> Task] /\ (\A v \in Worker : Owned(v))'
    <3>1. PICK y \in Task : /\ exec' = [exec EXCEPT ![w] = y]
                            /\ \/ y.at = "idle"
                               \/ /\ y.at = exec[w].at /\ y.run = exec[w].run
                                  /\ y.job = exec[w].job /\ y.stage = exec[w].stage
      BY <2>3
    <3>2. /\ y.at # "idle" => exec[w].at # "idle" /\ y.run = exec[w].run /\ y.job = exec[w].job
          /\ y.at \in {"resume", "consume"} => y.job \in Key
          /\ y.at = "suspend" => y.stage \in 1..Last
      BY <3>1 DEF Typed, Owned
    <3> QED
      BY <2>1, <3>1, <3>2, OwnedKept
  <2>5. TypeOK'
    BY <2>1, <2>2, <2>4 DEF history, Typed, TypeOK
  <2> QED
    BY <2>1, <2>2, <2>4, <2>5, NamedKept DEF Typed
<1> QED
  BY <1>1, <1>2, <1>3, <1>4

LEMMA TypedNext ==
  ASSUME Typed, [Next]_vars
  PROVE  Typed'
<1>1. CASE Pause \/ UNCHANGED vars
  <2>1. Grows /\ TypeOK' /\ UNCHANGED <<exec, wait, job, owed>>
    BY <1>1 DEF Pause, vars, queue, flow, history, Typed, TypeOK, Grows
  <2> QED
    BY <2>1, OwnedSame, NamedKept DEF Typed
<1>2. ASSUME NEW r \in Run, NEW w \in Worker, StartInline(r, w) PROVE Typed'
  BY <1>2, WorkersTyped
<1>3. ASSUME NEW j \in Job, NEW w \in Worker, Begin(w, j) PROVE Typed'
  BY <1>3, WorkersTyped
<1>4. ASSUME NEW w \in Worker, Step(w) \/ Beat(w) \/ Die(w) \/ Lapse(w) PROVE Typed'
  BY <1>4, StepTyped, WorkersTyped
<1> QED
  BY <1>1, <1>2, <1>3, <1>4, CallersTyped, KeysTyped, QueueTyped DEF Next

LEMMA TypedAlways == Spec => []Typed
<1>1. Init => Typed
  BY TypedInit
<1>2. Typed /\ [Next]_vars => Typed'
  BY TypedNext
<1> QED
  BY <1>1, <1>2, PTL DEF Spec

\* Every reachable state has the declared types.
THEOREM OrionTypes == Spec => []TypeOK
<1>1. Typed => TypeOK
  BY DEF Typed
<1> QED
  BY <1>1, TypedAlways, PTL

-----------------------------------------------------------------------------
(* One winner per wait                                                     *)

\* A wait that has been ended was there, and is no longer open.
Spent == \A k \in Key : wins[k] <= 1 /\ (wins[k] > 0 => wait[k] # Null /\ ~Open(k))

\* A step ends some open waits, each once, or ends none and opens none again.
Ended(S) == S \in SUBSET Key /\ (\A k \in S : Open(k)) /\ Close(S) /\ Won(S)
NoneEnded ==
  wins' = wins /\ \A k \in Key : wait[k] # Null => wait'[k] # Null /\ (Open(k)' => Open(k))

LEMMA SpentKept ==
  ASSUME Typed, Spent, NoneEnded \/ \E S \in SUBSET Key : Ended(S)
  PROVE  Spent'
<1>1. CASE NoneEnded
  BY <1>1 DEF NoneEnded, Spent
<1>2. ASSUME NEW S \in SUBSET Key, Ended(S) PROVE Spent'
  <2>1. /\ \A k \in Key : wait'[k] = Null <=> wait[k] = Null
        /\ \A k \in Key : Open(k)' <=> Open(k) /\ k \notin S
    BY <1>2, CloseTypes DEF Ended, Open, Typed
  <2>2. \A k \in Key : wins'[k] = IF k \in S THEN wins[k] + 1 ELSE wins[k]
    BY <1>2 DEF Ended, Won
  <2>3. \A k \in Key : wins[k] \in Nat
    BY DEF Typed, TypeOK
  <2>4. \A k \in S : wins[k] = 0 /\ wait[k] # Null
    BY <1>2, <2>3 DEF Ended, Spent, Open
  <2> QED
    BY <2>1, <2>2, <2>3, <2>4 DEF Spent
<1> QED
  BY <1>1, <1>2

LEMMA NextEnds ==
  ASSUME Typed, [Next]_vars
  PROVE  NoneEnded \/ \E S \in SUBSET Key : Ended(S)
<1>1. CASE UNCHANGED <<wait, wins>>
  BY <1>1 DEF NoneEnded, Open
<1>2. ASSUME NEW w \in Worker, Consume(w), Open(exec[w].job)
      PROVE  \E S \in SUBSET Key : Ended(S)
  <2>1. exec[w].job \in Key
    BY <1>2 DEF Consume, Typed, Owned
  <2>2. Ended({exec[w].job})
    BY <1>2, <2>1 DEF Consume, Ended
  <2> QED
    BY <2>1, <2>2
<1>3. ASSUME NEW w \in Worker, Suspend(w) PROVE NoneEnded
  BY <1>3 DEF Suspend, NoneEnded, Open, history, Typed, TypeOK
<1>4. ASSUME NEW r \in Run, CancelWaiting(r) PROVE \E S \in SUBSET Key : Ended(S)
  <2>1. Ended(WaitsOf(r))
    BY <1>4 DEF CancelWaiting, Ended, WaitsOf
  <2> QED
    BY <2>1 DEF Ended
<1>5. ASSUME NEW k \in Key, Expire(k) PROVE \E S \in SUBSET Key : Ended(S)
  <2>1. Ended({k})
    BY <1>5 DEF Expire, Ended
  <2> QED
    BY <2>1
<1>6. ASSUME NEW w \in Worker, Step(w) PROVE NoneEnded \/ \E S \in SUBSET Key : Ended(S)
  <2>1. (Consume(w) /\ Open(exec[w].job)) \/ Suspend(w) \/ UNCHANGED <<wait, wins>>
    BY <1>6 DEF Step, Look, LeaveIt, CallOff, ByKey, ByRun, Load, Find, Consume, ClearBeat, Work,
                Save, Throw, Record, Return, history
  <2> QED
    BY <1>1, <1>2, <1>3, <2>1
<1>7. CASE UNCHANGED vars
  BY <1>1, <1>7 DEF vars, history
<1>8. ASSUME NEW r \in Run, \/ Start(r) \/ CancelRead(r) \/ Cancel(r) \/ SweepLost(r)
                            \/ GoStale(r) \/ Stall(r) \/ \E w \in Worker : StartInline(r, w)
      PROVE  NoneEnded \/ \E S \in SUBSET Key : Ended(S)
  <2>1. CancelWaiting(r) \/ UNCHANGED <<wait, wins>>
    BY <1>8 DEF Start, CancelRead, Cancel, CancelLost, CancelOther, SweepLost, GoStale, Stall,
                StartInline, Fault, history
  <2> QED
    BY <1>1, <1>4, <2>1
<1>9. ASSUME Pause \/ (\E k \in Key : ResumeCall(k))
             \/ (\E j \in Job : Dispatch(j) \/ Drop(j) \/ Meddle(j) \/ \E w \in Worker : Begin(w, j))
             \/ (\E w \in Worker : Beat(w) \/ Die(w) \/ Lapse(w))
      PROVE  UNCHANGED <<wait, wins>>
  BY <1>9 DEF Pause, ResumeCall, Dispatch, Drop, Meddle, Begin, Beat, Die, Lapse, Fault, history
<1> QED
  BY <1>1, <1>5, <1>6, <1>7, <1>8, <1>9 DEF Next

\* A resume, a deadline and a cancel that race for one wait have one winner,
\* whatever faults, attempts and stale readings come between.
THEOREM OneWinner == Spec => []OneWinnerPerWait
<1>1. Init => Spent
  BY DEF Init, Spent
<1>2. Typed /\ Spent /\ [Next]_vars => Spent'
  BY NextEnds, SpentKept
<1>3. Spent => OneWinnerPerWait
  BY DEF Spent, OneWinnerPerWait
<1> QED
  BY <1>1, <1>2, <1>3, TypedAlways, PTL DEF Spec

-----------------------------------------------------------------------------
(* A resume key exists exactly while its run is waiting                    *)

\* Nobody shares the run or is inside it while it waits, and it has one open
\* wait, for the node it waits at, exactly while it waits.
Good(r) ==
  /\ \A v, w \in Worker : In(v, r) /\ In(w, r) => v = w
  /\ \A w \in Worker : In(w, r) => run[r].status # "waiting"
  /\ run[r].status = "waiting" => WaitsOf(r) # {}
  /\ \A k \in WaitsOf(r) : run[r].status = "waiting" /\ run[r].on = wait[k].stage
  /\ \A k, l \in WaitsOf(r) : k = l

AllGood == \A r \in Undisturbed : Good(r)

\* Nobody comes into the run.
NoneIn(r) == \A w \in Worker : In(w, r)' => In(w, r)

\* Three ways a run stays good: nothing about it changes ...
LEMMA GoodSame ==
  ASSUME NEW r \in Run, Good(r), NoneIn(r),
         run'[r].status = run[r].status, run'[r].on = run[r].on,
         \A k \in Key : /\ (Open(k) /\ wait[k].run = r)' <=> Open(k) /\ wait[k].run = r
                        /\ Open(k) /\ wait[k].run = r => wait'[k].stage = wait[k].stage
  PROVE  Good(r)'
<1>1. WaitsOf(r)' = WaitsOf(r) /\ \A k \in WaitsOf(r) : wait'[k].stage = wait[k].stage
  BY DEF WaitsOf
<1> QED
  BY <1>1 DEF Good, NoneIn

\* ... or it does not wait, with no open wait and nobody new inside ...
LEMMA GoodClosed ==
  ASSUME NEW r \in Run, Good(r), NoneIn(r), run'[r].status # "waiting",
         \A k \in Key : ~(Open(k)' /\ wait'[k].run = r)
  PROVE  Good(r)'
<1>1. WaitsOf(r)' = {}
  BY DEF WaitsOf
<1> QED
  BY <1>1 DEF Good, NoneIn

\* ... or somebody comes in alone.
LEMMA GoodEntered ==
  ASSUME NEW r \in Run, NEW w \in Worker, run'[r].status # "waiting",
         \A v \in Worker \ {w} : ~In(v, r)',
         \A k \in Key : ~(Open(k)' /\ wait'[k].run = r)
  PROVE  Good(r)'
<1>1. WaitsOf(r)' = {}
  BY DEF WaitsOf
<1>2. \A v \in Worker : In(v, r)' => v = w
  OBVIOUS
<1> QED
  BY <1>1, <1>2 DEF Good

\* A good run that is not waiting has no open wait.
LEMMA NoOpenWait ==
  ASSUME NEW r \in Run, Good(r), run[r].status # "waiting"
  PROVE  \A k \in Key : ~(Open(k) /\ wait[k].run = r)
BY DEF Good, WaitsOf

\* A worker's step touches no run but its own.
LEMMA StepLocal ==
  ASSUME Typed, NEW w \in Worker, Step(w), NEW q \in Run, q # exec[w].run
  PROVE  /\ run'[q] = run[q] /\ NoneIn(q)
         /\ \A k \in Key : /\ (Open(k) /\ wait[k].run = q)' <=> Open(k) /\ wait[k].run = q
                           /\ Open(k) /\ wait[k].run = q => wait'[k].stage = wait[k].stage
<1>1. NoneIn(q)
  <2>1. PICK x \in Task : /\ exec' = [exec EXCEPT ![w] = x]
                          /\ x.at # "idle" => x.run = exec[w].run
    BY StepMoves DEF Moves
  <2>2. \A v \in Worker : exec'[v] = IF v = w THEN x ELSE exec[v]
    BY <2>1, ExecSet DEF Typed
  <2> QED
    BY <2>1, <2>2 DEF NoneIn, In, Inside
<1>2. CASE UNCHANGED <<run, wait>>
  BY <1>1, <1>2 DEF Open
<1>3. CASE Consume(w) /\ Open(exec[w].job)
  <2>1. /\ exec[w].job \in Key /\ wait[exec[w].job] # Null
        /\ wait[exec[w].job].run = exec[w].run
    BY <1>3 DEF Consume, Typed, Owned
  <2>2. Close({exec[w].job}) /\ Resumed(w)
    BY <1>3 DEF Consume
  <2>3. /\ \A k \in Key : Open(k)' <=> Open(k) /\ k \notin {exec[w].job}
        /\ \A k \in Key : wait[k] # Null =>
              wait'[k].run = wait[k].run /\ wait'[k].stage = wait[k].stage
        /\ \A k \in Key : wait'[k] = Null <=> wait[k] = Null
    BY <2>1, <2>2, CloseTypes DEF Typed
  <2>4. run'[q] = run[q]
    BY <2>2 DEF Resumed, Typed, TypeOK
  <2> QED
    BY <1>1, <2>1, <2>3, <2>4 DEF Open
<1>4. CASE Suspend(w)
  <2>1. run'[q] = run[q]
    BY <1>4 DEF Suspend, Typed, TypeOK
  <2>2. \A k \in Key : wait'[k] = wait[k] \/ (wait[k] = Null /\ wait'[k].run = exec[w].run)
    BY <1>4 DEF Suspend, Typed, TypeOK
  <2> QED
    BY <1>1, <2>1, <2>2 DEF Open
<1>5. CASE UNCHANGED wait /\ (ClearBeat(w) \/ Save(w) \/ EndRun(exec[w].run, exec[w].end))
  <2>1. run'[q] = run[q]
    BY <1>5 DEF ClearBeat, Save, EndRun, Typed, TypeOK
  <2> QED
    BY <1>1, <1>5, <2>1 DEF Open
<1> QED
  BY <1>2, <1>3, <1>4, <1>5
     DEF Step, Look, LeaveIt, CallOff, ByKey, ByRun, Load, Find, Consume, ClearBeat, Work, Save,
         Throw, Record, Return

\* Who goes nowhere but out, or from inside to inside, does not come in.
LEMMA NotEntering ==
  ASSUME Typed, NEW w \in Worker, Step(w), NEW r \in Run,
         \/ exec'[w].at \in {"idle", "over"}
         \/ In(w, exec[w].run)
         \/ exec'[w].at \in {"resume", "consume"} /\ ~exec'[w].again
  PROVE  NoneIn(r)
<1>1. PICK x \in Task : /\ exec' = [exec EXCEPT ![w] = x]
                        /\ x.at # "idle" => x.run = exec[w].run
  BY StepMoves DEF Moves
<1>2. \A v \in Worker : exec'[v] = IF v = w THEN x ELSE exec[v]
  BY <1>1, ExecSet DEF Typed
<1> QED
  BY <1>1, <1>2 DEF NoneIn, In, Inside

LEMMA EnteringAlone ==
  ASSUME Typed, NEW w \in Worker, Step(w), NEW r \in Run, r = exec[w].run,
         Entering(w), r \notin doubled'
  PROVE  \A v \in Worker \ {w} : ~In(v, r)'
<1>1. PICK x \in Task : exec' = [exec EXCEPT ![w] = x]
  BY StepMoves DEF Moves
<1>2. \A v \in Worker \ {w} : exec'[v] = exec[v]
  BY <1>1, ExecSet DEF Typed
<1>3. \A v \in Worker \ {w} : ~In(v, r)
  BY DEF Entering
<1> QED
  BY <1>2, <1>3 DEF In

\* A step keeps its own run good, if it goes on undisturbed.
LEMMA StepGoodOwn ==
  ASSUME Typed, NEW w \in Worker, Step(w), NEW r \in Run, r = exec[w].run,
         Good(r), r \notin doubled'
  PROVE  Good(r)'
<1>0. r \in Run /\ run[r] \in RunRow /\ exec[w] \in Task
  BY DEF Typed, TypeOK
<1>1. ASSUME UNCHANGED wait, NoneIn(r), run'[r].status = run[r].status, run'[r].on = run[r].on
      PROVE  Good(r)'
  BY <1>0, <1>1, GoodSame DEF Open
<1>2. CASE LeaveIt(w)
  <2>1. exec'[w].at \in {"idle", "over"} /\ UNCHANGED <<run, wait>>
    BY <1>2, IdleTask DEF LeaveIt, Leave, Leaving, Idle, Typed, TypeOK
  <2> QED
    BY <1>0, <1>1, <2>1, NotEntering
<1>3. CASE CallOff(w) \/ ByRun(w) \/ (ByKey(w) /\ MayGoOn(w))
  <2>1. Entering(w) /\ UNCHANGED <<run, wait>> /\ run[r].status # "waiting"
    BY <1>3 DEF CallOff, ByRun, ByKey, MayGoOn
  <2>2. \A v \in Worker \ {w} : ~In(v, r)'
    BY <2>1, EnteringAlone
  <2>3. \A k \in Key : ~(Open(k)' /\ wait'[k].run = r)
    BY <1>0, <2>1, NoOpenWait DEF Open
  <2> QED
    BY <1>0, <2>1, <2>2, <2>3, GoodEntered
<1>4. CASE ByKey(w) /\ ~MayGoOn(w)
  <2>1. exec'[w].at = "resume" /\ ~exec'[w].again /\ UNCHANGED <<run, wait>>
    BY <1>0, <1>4 DEF ByKey, Turn, Typed, TypeOK, Task
  <2> QED
    BY <1>0, <1>1, <2>1, NotEntering
<1>5. CASE Load(w) \/ Work(w) \/ Throw(w)
  <2>1. In(w, r) /\ UNCHANGED <<run, wait>>
    BY <1>5 DEF Load, Work, Throw, In, Inside
  <2> QED
    BY <1>0, <1>1, <2>1, NotEntering
<1>6. CASE Find(w) \/ (Consume(w) /\ ~Open(exec[w].job))
  <2>1. UNCHANGED <<run, wait>> /\ exec[w].at \in {"resume", "consume"}
    BY <1>6 DEF Find, Consume
  <2>2. \/ In(w, r)
        \/ exec'[w].at \in {"idle", "over"}
        \/ exec'[w].at \in {"resume", "consume"} /\ ~exec'[w].again
    <3>1. CASE exec[w].again
      BY <2>1, <3>1 DEF In
    <3>2. CASE ~exec[w].again /\ Leave(w)
      BY <3>2, IdleTask DEF Leave, Leaving, Idle, Typed, TypeOK
    <3>3. CASE ~exec[w].again /\ ~Leave(w)
      <4>1. exec' = [exec EXCEPT ![w] = [exec[w] EXCEPT !.at = "consume", !.stage = run[r].stage]]
        BY <1>6, <3>3 DEF Find, Consume, KeyGone, Typed, TypeOK
      <4> QED
        BY <1>0, <3>3, <4>1 DEF Typed, TypeOK, Task
    <3> QED
      BY <3>1, <3>2, <3>3
  <2> QED
    BY <1>0, <1>1, <2>1, <2>2, NotEntering
<1>7. CASE Consume(w) /\ Open(exec[w].job)
  <2>1. /\ exec[w].job \in Key /\ wait[exec[w].job] # Null /\ wait[exec[w].job].run = r
        /\ Close({exec[w].job}) /\ Resumed(w)
    BY <1>7 DEF Consume, Typed, Owned
  <2>2. Entering(w) /\ run'[r].status # "waiting"
    BY <1>0, <2>1 DEF Resumed, Typed, TypeOK, RunRow
  <2>3. \A v \in Worker \ {w} : ~In(v, r)'
    BY <2>2, EnteringAlone
  <2>4. /\ \A k \in Key : Open(k)' <=> Open(k) /\ k \notin {exec[w].job}
        /\ \A k \in Key : wait[k] # Null => wait'[k].run = wait[k].run
    BY <2>1, CloseTypes DEF Typed
  <2>5. \A k \in Key : ~(Open(k)' /\ wait'[k].run = r)
    BY <1>7, <2>1, <2>4 DEF Good, WaitsOf, Open
  <2> QED
    BY <1>0, <2>2, <2>3, <2>5, GoodEntered
<1>8. CASE ClearBeat(w)
  <2>1. In(w, r) /\ UNCHANGED wait
    BY <1>8 DEF ClearBeat, In, Inside
  <2>2. run'[r].status = run[r].status /\ run'[r].on = run[r].on
    BY <1>0, <1>8 DEF ClearBeat, Typed, TypeOK, RunRow
  <2> QED
    BY <1>0, <1>1, <2>1, <2>2, NotEntering
<1>9. CASE Save(w) \/ Record(w)
  <2>1. In(w, r) /\ UNCHANGED wait
    BY <1>9 DEF Save, Record, In, Inside
  <2>2. run[r].status # "waiting"
    BY <2>1 DEF Good
  <2>3. run'[r].status # "waiting"
    <3>1. CASE Save(w)
      BY <1>0, <2>2, <3>1 DEF Save, Typed, TypeOK, RunRow
    <3>2. CASE Record(w)
      <4>1. EndRun(r, exec[w].end) /\ exec[w].end \in Terminal
        BY <1>0, <3>2 DEF Record, Task
      <4> QED
        BY <1>0, <2>2, <4>1, EndRunTypes DEF Typed, Terminal
    <3> QED
      BY <1>9, <3>1, <3>2
  <2>4. \A k \in Key : ~(Open(k)' /\ wait'[k].run = r)
    BY <1>0, <2>1, <2>2, NoOpenWait DEF Open
  <2> QED
    BY <1>0, <2>1, <2>3, <2>4, NotEntering, GoodClosed
<1>10. CASE Suspend(w)
  <2>1. In(w, r)
    BY <1>10 DEF Suspend, In, Inside
  <2>2. \A k \in Key : ~(Open(k) /\ wait[k].run = r)
    BY <1>0, <2>1, NoOpenWait DEF Good
  <2>3. PICK k \in Key : /\ wait[k] = Null
                         /\ wait' = [wait EXCEPT ![k] = [run |-> r, stage |-> exec[w].stage,
                                                         open |-> TRUE]]
    BY <1>10 DEF Suspend
  <2>4. run'[r].status = "waiting" /\ run'[r].on = exec[w].stage
    BY <1>0, <1>10 DEF Suspend, Typed, TypeOK, RunRow
  <2>5. wait'[k] = [run |-> r, stage |-> exec[w].stage, open |-> TRUE]
        /\ \A l \in Key \ {k} : wait'[l] = wait[l]
    BY <2>3 DEF Typed, TypeOK
  <2>6. wait'[k] # Null
    <3>0. exec[w].stage \in 1..Last
      BY <1>10 DEF Typed, Owned, Suspend
    <3>1. wait'[k] \in WaitRow
      BY <1>0, <2>5, <3>0 DEF WaitRow
    <3> QED
      BY <3>1, OrionAssumption
  <2>7. WaitsOf(r)' = {k}
    BY <2>2, <2>5, <2>6 DEF WaitsOf, Open
  <2>8. exec'[w].at \in {"idle", "over"}
    BY <1>10, IdleTask DEF Suspend, Leave, Leaving, Idle, Typed, TypeOK
  <2>9. \A v \in Worker : ~In(v, r)'
    <3>1. NoneIn(r)
      BY <1>0, <2>8, NotEntering
    <3>2. ~In(w, r)'
      BY <2>8 DEF In, Inside
    <3> QED
      BY <2>1, <3>1, <3>2 DEF Good, NoneIn
  <2> QED
    BY <2>4, <2>5, <2>7, <2>9 DEF Good
<1>11. CASE Return(w)
  <2>1. exec'[w].at = "idle" /\ UNCHANGED <<run, wait>>
    BY <1>11, IdleTask DEF Return, Typed, TypeOK
  <2> QED
    BY <1>0, <1>1, <2>1, NotEntering
<1> QED
  BY <1>2, <1>3, <1>4, <1>5, <1>6, <1>7, <1>8, <1>9, <1>10, <1>11 DEF Step, Look

LEMMA StepGood ==
  ASSUME Typed, AllGood, NEW w \in Worker, Step(w), NEW r \in Run, r \in Undisturbed'
  PROVE  Good(r)'
<1>1. Good(r) /\ r \notin doubled'
  <2>1. UNCHANGED undercut /\ (doubled \subseteq doubled')
    BY StepFrame DEF Step, Look, LeaveIt, CallOff, ByKey, ByRun, Load, Find, Consume, Resumed,
       Entering, ClearBeat, Work, Save, Suspend, Throw, Record, Return, history
  <2> QED
    BY <2>1 DEF AllGood, Undisturbed
<1>2. CASE r = exec[w].run
  BY <1>1, <1>2, StepGoodOwn
<1>3. CASE r # exec[w].run
  BY <1>1, <1>3, StepLocal, GoodSame
<1> QED
  BY <1>2, <1>3

\* What no step of a worker does, seen from one run: exec keeps everybody where
\* they were, or somebody becomes idle, or looks at a job.
LEMMA OthersGood ==
  ASSUME Typed, AllGood, NEW r \in Run, r \in Undisturbed',
         \/ Pause \/ UNCHANGED vars
         \/ \E q \in Run : \/ Start(q) \/ CancelRead(q) \/ CancelLost(q) \/ SweepLost(q)
                           \/ GoStale(q) \/ Stall(q)
         \/ \E k \in Key : ResumeCall(k)
         \/ \E j \in Job : Dispatch(j) \/ Drop(j) \/ Meddle(j) \/ \E w \in Worker : Begin(w, j)
         \/ \E w \in Worker : Beat(w) \/ Die(w) \/ Lapse(w)
  PROVE  Good(r)'
<1>0. /\ UNCHANGED <<undercut, doubled, wait>> /\ run[r] \in RunRow /\ Good(r)
  BY DEF Pause, vars, Start, CancelRead, CancelLost, SweepLost, GoStale, Stall, ResumeCall, Dispatch,
         Drop, Meddle, Begin, Beat, Die, Lapse, Fault, queue, flow, history, Typed, TypeOK, AllGood,
         Undisturbed
<1>1. NoneIn(r)
  <2>1. CASE UNCHANGED exec
    BY <2>1 DEF NoneIn, In
  <2>2. ASSUME NEW w \in Worker, NEW j \in Job, Begin(w, j) PROVE NoneIn(r)
    <3>1. exec'[w].at = "look" /\ \A v \in Worker \ {w} : exec'[v] = exec[v]
      BY <2>2, IdleTask DEF Begin, Idle, Typed, TypeOK
    <3> QED
      BY <3>1 DEF NoneIn, In, Inside
  <2>3. ASSUME NEW w \in Worker, Die(w) PROVE NoneIn(r)
    <3>1. exec'[w].at = "idle" /\ \A v \in Worker \ {w} : exec'[v] = exec[v]
      BY <2>3, IdleTask DEF Die, Typed, TypeOK
    <3> QED
      BY <3>1 DEF NoneIn, In, Inside
  <2>4. ASSUME \A w \in Worker : exec'[w] = exec[w] \/ exec'[w] = [exec[w] EXCEPT !.held = FALSE]
        PROVE  NoneIn(r)
    <3>1. \A w \in Worker : /\ exec'[w].at = exec[w].at /\ exec'[w].run = exec[w].run
                            /\ exec'[w].again = exec[w].again
      <4>1. \A w \in Worker : /\ [exec[w] EXCEPT !.held = FALSE].at = exec[w].at
                              /\ [exec[w] EXCEPT !.held = FALSE].run = exec[w].run
                              /\ [exec[w] EXCEPT !.held = FALSE].again = exec[w].again
        BY DEF Typed, TypeOK, Task
      <4> QED
        BY <2>4, <4>1
    <3> QED
      BY <3>1 DEF NoneIn, In
  <2>5. ASSUME NEW w \in Worker, Lapse(w) PROVE NoneIn(r)
    BY <2>4, <2>5 DEF Lapse, Typed, TypeOK
  <2>6. ASSUME NEW j \in Job, Meddle(j) PROVE NoneIn(r)
    BY <2>4, <2>6 DEF Meddle
  <2> QED
    BY <2>1, <2>2, <2>3, <2>5, <2>6
       DEF Pause, vars, Start, CancelRead, CancelLost, SweepLost, GoStale, Stall, ResumeCall,
           Dispatch, Drop, Beat, queue, flow, history
<1>2. CASE run'[r].status = run[r].status /\ run'[r].on = run[r].on
  BY <1>0, <1>1, <1>2, GoodSame DEF Open
<1>3. CASE Start(r) /\ run[r].status = "absent"
  <2>1. run'[r].status = "pending"
    BY <1>0, <1>3 DEF Start, Typed, TypeOK, RunRow
  <2>2. \A k \in Key : ~(Open(k)' /\ wait'[k].run = r)
    BY <1>0, <1>3, NoOpenWait DEF Open
  <2> QED
    BY <1>0, <1>1, <2>1, <2>2, GoodClosed
<1>4. ASSUME NEW q \in Run, Start(q), q # r \/ run[r].status # "absent"
      PROVE  run'[r].status = run[r].status /\ run'[r].on = run[r].on
  BY <1>4 DEF Start, Typed, TypeOK
<1>5. ASSUME NEW q \in Run, Silent(q) \/ run' = [run EXCEPT ![q].beat = "fresh"]
      PROVE  run'[r].status = run[r].status /\ run'[r].on = run[r].on
  BY <1>5 DEF Silent, Typed, TypeOK, RunRow
<1>6. ASSUME NEW w \in Worker, Beat(w)
      PROVE  run'[r].status = run[r].status /\ run'[r].on = run[r].on
  <2>1. exec[w].run \in Run
    BY <1>6 DEF Beat, Inline, Typed, Owned
  <2> QED
    BY <1>5, <1>6, <2>1 DEF Beat
<1> QED
  BY <1>2, <1>3, <1>4, <1>5, <1>6
     DEF Pause, vars, CancelRead, CancelLost, SweepLost, GoStale, Stall, ResumeCall, Dispatch, Drop,
         Meddle, Begin, Die, Lapse, Fault

\* The actions that end a run or begin one inline.
LEMMA EndersGood ==
  ASSUME Typed, AllGood, NEW r \in Run, r \in Undisturbed', NEW q \in Run,
         \/ \E w \in Worker : StartInline(q, w)
         \/ CancelWaiting(q) \/ CancelOther(q)
         \/ \E k \in Key : Expire(k) /\ wait[k].run = q
  PROVE  Good(r)'
<1>0. Good(r) /\ run[r] \in RunRow
  BY DEF StartInline, CancelWaiting, CancelOther, Expire, Typed, TypeOK, AllGood, Undisturbed
<1>1. ASSUME NEW w \in Worker, StartInline(q, w) PROVE Good(r)'
  <2>1. /\ UNCHANGED wait /\ exec'[w].at = "work" /\ exec'[w].run = q
        /\ \A v \in Worker \ {w} : exec'[v] = exec[v]
    BY <1>1, IdleTask DEF StartInline, Typed, TypeOK, Task, Idle
  <2>2. CASE q # r
    <3>1. run'[r] = run[r] /\ NoneIn(r)
      BY <1>1, <2>1, <2>2 DEF StartInline, NoneIn, In, Typed, TypeOK
    <3> QED
      BY <1>0, <2>1, <3>1, GoodSame DEF Open
  <2>3. CASE q = r
    <3>1. run[r].status = "absent" /\ run'[r].status = "pending"
      BY <1>0, <1>1, <2>3 DEF StartInline, Typed, TypeOK, RunRow
    <3>2. \A v \in Worker \ {w} : ~In(v, r)'
      BY <2>1, <3>1 DEF In, Inside, Typed, Owned
    <3>3. \A k \in Key : ~(Open(k)' /\ wait'[k].run = r)
      BY <1>0, <2>1, <3>1, NoOpenWait DEF Open
    <3> QED
      BY <3>1, <3>2, <3>3, GoodEntered
  <2> QED
    BY <2>2, <2>3
<1>2. ASSUME NEW S \in SUBSET Key, NEW s \in Terminal, S \subseteq WaitsOf(q), WaitsOf(q) # {},
             Close(S), EndRun(q, s), UNCHANGED exec, r # q \/ WaitsOf(q) \subseteq S
      PROVE  Good(r)'
  <2>1. NoneIn(r)
    BY <1>2 DEF NoneIn, In
  <2>2. /\ \A k \in Key : wait'[k] = Null <=> wait[k] = Null
        /\ \A k \in Key : wait[k] # Null =>
              wait'[k].run = wait[k].run /\ wait'[k].stage = wait[k].stage
        /\ \A k \in Key : Open(k)' <=> Open(k) /\ k \notin S
    BY <1>2, CloseTypes DEF WaitsOf, Open, Typed
  <2>3. /\ \A p \in Run : p # q => run'[p] = run[p]
        /\ run'[q].status = IF Live(q) THEN s ELSE run[q].status
    BY <1>2, EndRunTypes DEF Typed
  <2>4. CASE r # q
    BY <1>0, <1>2, <2>1, <2>2, <2>3, <2>4, GoodSame DEF WaitsOf, Open
  <2>5. CASE r = q
    <3>1. run'[r].status # "waiting"
      BY <2>3, <2>5 DEF Live, Terminal
    <3>2. \A k \in Key : ~(Open(k)' /\ wait'[k].run = r)
      BY <1>2, <2>2, <2>5 DEF WaitsOf, Open
    <3> QED
      BY <1>0, <2>1, <3>1, <3>2, GoodClosed
  <2> QED
    BY <2>4, <2>5
<1>3. CASE CancelWaiting(q)
  <2>1. /\ WaitsOf(q) # {} /\ Close(WaitsOf(q)) /\ EndRun(q, "cancelled") /\ UNCHANGED exec
        /\ WaitsOf(q) \in SUBSET Key /\ "cancelled" \in Terminal
    BY <1>3 DEF CancelWaiting, WaitsOf, Terminal
  <2> QED
    BY <1>2, <2>1
<1>4. ASSUME NEW k \in Key, Expire(k), wait[k].run = q PROVE Good(r)'
  <2>1. /\ Close({k}) /\ EndRun(q, "failed") /\ UNCHANGED exec
        /\ k \in WaitsOf(q) /\ "failed" \in Terminal
    BY <1>4 DEF Expire, WaitsOf, Terminal
  <2>2. r # q \/ WaitsOf(q) \subseteq {k}
    BY <1>0, <2>1 DEF Good
  <2> QED
    BY <1>2, <2>1, <2>2
<1>5. CASE CancelOther(q)
  <2>1. EndRun(q, "cancelled") /\ "cancelled" \in Terminal /\ UNCHANGED <<exec, wait>>
    BY <1>5 DEF CancelOther, Terminal
  <2>2. NoneIn(r)
    BY <2>1 DEF NoneIn, In
  <2>3. /\ \A p \in Run : p # q => run'[p] = run[p]
        /\ run'[q].status = IF Live(q) THEN "cancelled" ELSE run[q].status
    BY <2>1, EndRunTypes DEF Typed
  <2>4. CASE r # q
    BY <1>0, <2>1, <2>2, <2>3, <2>4, GoodSame DEF Open
  <2>5. CASE r = q
    <3>1. run[r].status # "waiting"
      BY <1>5, <2>5 DEF CancelOther, Undisturbed
    <3>2. run'[r].status # "waiting"
      BY <2>3, <2>5, <3>1
    <3>3. \A k \in Key : ~(Open(k)' /\ wait'[k].run = r)
      BY <1>0, <2>1, <3>1, NoOpenWait DEF Open
    <3> QED
      BY <1>0, <2>2, <3>2, <3>3, GoodClosed
  <2> QED
    BY <2>4, <2>5
<1> QED
  BY <1>1, <1>3, <1>4, <1>5

LEMMA NextGood ==
  ASSUME Typed, AllGood, [Next]_vars
  PROVE  AllGood'
<1> SUFFICES ASSUME NEW r \in Run, r \in Undisturbed' PROVE Good(r)'
  BY DEF AllGood, Undisturbed
<1>1. ASSUME NEW k \in Key, Expire(k) PROVE Good(r)'
  <2>1. wait[k].run \in Run
    BY <1>1, OrionAssumption DEF Expire, Open, Typed, TypeOK, WaitRow
  <2> QED
    BY <1>1, <2>1, EndersGood
<1>2. ASSUME NEW q \in Run,
             CancelWaiting(q) \/ CancelOther(q) \/ \E w \in Worker : StartInline(q, w)
      PROVE  Good(r)'
  BY <1>2, EndersGood
<1>3. ASSUME NEW w \in Worker, Step(w) PROVE Good(r)'
  BY <1>3, StepGood
<1> QED
  BY <1>1, <1>2, <1>3, OthersGood DEF Next, Cancel

LEMMA GoodAlways == Spec => []AllGood
<1>1. Init => AllGood
  BY IdleTask DEF Init, AllGood, Good, In, Inside, WaitsOf, Open, Undisturbed, Idle
<1>2. Typed /\ AllGood /\ [Next]_vars => AllGood'
  BY NextGood
<1> QED
  BY <1>1, <1>2, TypedAlways, PTL DEF Spec

\* A run has an open wait, for the node it waits at, exactly while it waits.
THEOREM KeyExactlyWhileWaiting == Spec => []KeyWhileWaiting
<1>1. Typed /\ AllGood => KeyWhileWaiting
  BY DEF AllGood, Good, KeyWhileWaiting, Waiting, WaitsOf, Undisturbed
<1> QED
  BY <1>1, TypedAlways, GoodAlways, PTL

-----------------------------------------------------------------------------
(* An ended run has ended                                                  *)

LEMMA StaysEnded ==
  ASSUME Typed, AllGood, [Next]_vars, NEW r \in Undisturbed, run[r].status \in Terminal
  PROVE  run'[r].status = run[r].status
<1>0. r \in Run /\ Good(r) /\ run[r] \in RunRow /\ ~Live(r) /\ run[r].status # "absent"
      /\ run[r].status # "waiting"
  BY DEF AllGood, Undisturbed, Typed, TypeOK, Live, Terminal
<1>1. ASSUME NEW q \in Run, NEW s \in Terminal, EndRun(q, s) PROVE run'[r].status = run[r].status
  BY <1>0, <1>1, EndRunTypes DEF Typed
<1>2. ASSUME NEW w \in Worker, Step(w) PROVE run'[r].status = run[r].status
  <2>0. exec[w].run \in Run /\ exec[w] \in Task
    BY <1>2, StepMoves DEF Typed, TypeOK, Owned
  <2>1. CASE r # exec[w].run
    BY <1>0, <1>2, <2>1, StepLocal
  <2>2. CASE r = exec[w].run /\ Consume(w) /\ Open(exec[w].job)
    <3>1. exec[w].job \in WaitsOf(r)
      BY <2>2 DEF Consume, Typed, Owned, WaitsOf
    <3> QED
      BY <1>0, <3>1 DEF Good
  <2>3. CASE ClearBeat(w)
    BY <1>0, <2>3 DEF ClearBeat, Typed, TypeOK, RunRow
  <2>4. CASE r = exec[w].run /\ (Save(w) \/ Suspend(w))
    BY <1>0, <2>4 DEF Save, Suspend
  <2>5. CASE Record(w)
    <3>1. exec[w].end \in Terminal /\ EndRun(exec[w].run, exec[w].end)
      BY <2>0, <2>5 DEF Record, Task
    <3> QED
      BY <1>1, <2>0, <3>1
  <2>6. CASE UNCHANGED run
    BY <2>6
  <2> QED
    BY <1>2, <2>1, <2>2, <2>3, <2>4, <2>5, <2>6
       DEF Step, Look, LeaveIt, CallOff, ByKey, ByRun, Load, Find, Consume, Work, Throw, Return
<1>3. ASSUME NEW q \in Run,
             \/ Start(q) \/ CancelRead(q) \/ Cancel(q) \/ SweepLost(q) \/ GoStale(q) \/ Stall(q)
             \/ \E w \in Worker : StartInline(q, w)
      PROVE  run'[r].status = run[r].status
  <2>1. CASE Start(q) \/ \E w \in Worker : StartInline(q, w)
    BY <1>0, <2>1 DEF Start, StartInline, Typed, TypeOK
  <2>2. CASE GoStale(q) \/ Stall(q)
    BY <1>0, <2>2 DEF GoStale, Stall, Silent, Typed, TypeOK, RunRow
  <2>3. CASE CancelWaiting(q) \/ CancelOther(q)
    BY <1>1, <2>3 DEF CancelWaiting, CancelOther, Terminal
  <2> QED
    BY <1>3, <2>1, <2>2, <2>3 DEF CancelRead, Cancel, CancelLost, SweepLost
<1>4. ASSUME NEW k \in Key, Expire(k) PROVE run'[r].status = run[r].status
  <2>1. wait[k].run \in Run
    BY <1>4, OrionAssumption DEF Expire, Open, Typed, TypeOK, WaitRow
  <2> QED
    BY <1>1, <1>4, <2>1 DEF Expire, Terminal
<1>5. ASSUME NEW w \in Worker, Beat(w) PROVE run'[r].status = run[r].status
  <2>1. exec[w].run \in Run
    BY <1>5 DEF Beat, Inline, Typed, Owned
  <2> QED
    BY <1>0, <1>5, <2>1 DEF Beat, Typed, TypeOK, RunRow
<1> QED
  BY <1>2, <1>3, <1>4, <1>5
     DEF Next, Pause, ResumeCall, Dispatch, Drop, Meddle, Begin, Die, Lapse, Fault, vars

\* No late stage, resume, deadline or second attempt moves an ended run on,
\* unless two attempts were inside it or a cancel undercut its wait.
THEOREM EndedFinal == Spec => EndedIsFinal
<1>1. Typed /\ AllGood /\ [Next]_vars =>
        [\A r \in Undisturbed : run[r].status \in Terminal => run'[r].status = run[r].status]_vars
  BY StaysEnded
<1> QED
  BY <1>1, TypedAlways, GoodAlways, PTL DEF Spec, EndedIsFinal

-----------------------------------------------------------------------------
(* Without a fault, two attempts are inside one run only if it began inline *)

Early == {"look", "resume", "consume"}

\* The jobs of a run, and those of them that have not had their turn yet.
JobsOf(r) == {r} \union {k \in Key : wait[k] # Null /\ wait[k].run = r}
Unused(j) ==
  \/ job[j] \in {"absent", "pending"}
  \/ \E w \in Worker : exec[w].job = j /\ exec[w].at \in Early

\* A run's turn is in one place: a job of its that is still to be used, or a
\* worker inside.
OneTurn(r) ==
  /\ \A v, w \in Worker : In(v, r) /\ In(w, r) => v = w
  /\ \A j \in JobsOf(r) : Unused(j) => \A w \in Worker : ~In(w, r)
  /\ \A i, j \in JobsOf(r) : Unused(i) /\ Unused(j) => i = j

\* A job has one attempt, which holds it from beginning to end.
Holds(w) ==
  exec[w].at # "idle" =>
    IF exec[w].job = Null THEN exec[w].run \in sync
    ELSE /\ job[exec[w].job] = "running" /\ exec[w].held /\ ~exec[w].again
         /\ \A v \in Worker : exec[v].at # "idle" /\ exec[v].job = exec[w].job => v = w

Held ==
  /\ \A w \in Worker : Holds(w)
  /\ \A j \in Job : job[j] \in {"absent", "pending"} => j \notin began

Faultless ==
  faults = 0 => /\ Held
                /\ \A r \in Run \ sync : OneTurn(r)
                /\ doubled \subseteq sync

LEMMA KeyGoneTurns ==
  ASSUME Typed, NEW w \in Worker, exec[w].at \in Early, Leave(w) \/ KeyGone(w)
  PROVE  exec'[w].at # "idle" => /\ exec'[w].held = exec[w].held
                                 /\ exec'[w].again => exec[w].again
<1>1. exec[w] \in Task
  BY DEF Typed, TypeOK
<1>2. CASE Leave(w)
  BY <1>2, IdleTask DEF Leave, Leaving, Idle, Typed, TypeOK
<1>3. CASE exec' = [exec EXCEPT ![w] = [@ EXCEPT !.at = "load", !.again = FALSE]]
  BY <1>1, <1>3 DEF Typed, TypeOK, Task
<1> QED
  BY <1>2, <1>3 DEF KeyGone

\* What a worker's step does to its job and to its own claim on it.
LEMMA StepTurns ==
  ASSUME Typed, NEW w \in Worker, Step(w)
  PROVE  /\ exec'[w].at # "idle" => /\ exec'[w].held = exec[w].held
                                    /\ exec'[w].again => exec[w].again
                                    /\ exec'[w].at \in Early => exec[w].at \in Early
         /\ exec[w].at = "over" <=> Return(w)
         /\ ~Return(w) => UNCHANGED job
<1>1. exec[w] \in Task
  BY DEF Typed, TypeOK
<1>2. CASE LeaveIt(w)
  <2>1. exec'[w].at \notin Early
    BY <1>2, IdleTask DEF LeaveIt, Leave, Leaving, Idle, Typed, TypeOK, Early
  <2> QED
    BY <1>2, <2>1, KeyGoneTurns DEF LeaveIt, Early, Return, queue
<1>3. CASE CallOff(w) \/ ByKey(w) \/ ByRun(w)
  <2>1. ASSUME NEW a, NEW again, Turn(w, a, again)
        PROVE  exec'[w].held = exec[w].held /\ exec'[w].again = again
    <3> DEFINE beats == (run[exec[w].run].beat # "none")
    <3>1. exec' = [exec EXCEPT ![w] = [exec[w] EXCEPT !.at = a, !.again = again, !.beating = beats]]
      BY <2>1 DEF Turn, Typed, TypeOK
    <3> HIDE DEF beats
    <3> QED
      BY <1>1, <3>1 DEF Typed, TypeOK, Task
  <2>2. CASE CallOff(w)
    <3>1. exec'[w].held = exec[w].held /\ ~exec'[w].again
      BY <1>1, <2>2 DEF CallOff, Typed, TypeOK, Task
    <3> QED
      BY <2>2, <3>1 DEF CallOff, Early, Return, queue
  <2>3. CASE ByKey(w)
    BY <2>1, <2>3 DEF ByKey, MayGoOn, Early, Return, queue
  <2>4. CASE ByRun(w)
    BY <2>1, <2>4 DEF ByRun, Early, Return, queue
  <2> QED
    BY <1>3, <2>2, <2>3, <2>4
<1>4. CASE Find(w) \/ Consume(w)
  <2>1. exec[w].at \in {"resume", "consume"} /\ UNCHANGED job
    BY <1>4 DEF Find, Consume, queue
  <2>2. CASE Resumed(w)
    BY <1>1, <2>1, <2>2 DEF Resumed, Early, Return, Typed, TypeOK, Task
  <2>3. CASE exec' = [exec EXCEPT ![w] = [@ EXCEPT !.at = "consume",
                                                   !.stage = run[exec[w].run].stage]]
    BY <1>1, <2>1, <2>3 DEF Early, Return, Typed, TypeOK, Task
  <2>4. CASE KeyGone(w)
    BY <2>1, <2>4, KeyGoneTurns DEF Early, Return
  <2> QED
    BY <1>4, <2>2, <2>3, <2>4 DEF Find, Consume
<1>5. ASSUME NEW a \in Inside, NEW n, Goes(w, a, n)
      PROVE  exec'[w].held = exec[w].held /\ exec'[w].again = exec[w].again /\ exec'[w].at = a
  BY <1>1, <1>5 DEF Goes, Typed, TypeOK, Task
<1>6. ASSUME NEW e, Ends(w, e)
      PROVE  exec'[w].held = exec[w].held /\ exec'[w].again = exec[w].again /\ exec'[w].at = "record"
  BY <1>1, <1>6 DEF Ends, Typed, TypeOK, Task
<1>7. CASE Load(w)
  <2> DEFINE done == IF HasContext(exec[w].run) THEN run[exec[w].run].stage ELSE 0
  <2>1. \/ Leave(w)
        \/ \E a \in {"work", "save"} : Goes(w, a, done)
    BY <1>7 DEF Load, Goes
  <2> HIDE DEF done
  <2>2. CASE Leave(w)
    <3>1. exec[w].at = "load" /\ UNCHANGED job
      BY <1>7 DEF Load, queue
    <3>2. exec'[w].at # "idle" => /\ exec'[w].held = exec[w].held /\ ~exec'[w].again
                                  /\ exec'[w].at \notin Early
      BY <2>2, IdleTask DEF Leave, Leaving, Idle, Typed, TypeOK, Early
    <3> QED
      BY <3>1, <3>2 DEF Return
  <2>3. CASE \E a \in {"work", "save"} : Goes(w, a, done)
    <3>1. PICK a \in {"work", "save"} : Goes(w, a, done)
      BY <2>3
    <3>2. exec'[w].held = exec[w].held /\ exec'[w].again = exec[w].again /\ exec'[w].at = a
      BY <1>5, <3>1 DEF Inside
    <3> QED
      BY <1>7, <3>2 DEF Load, Early, Return, queue
  <2> QED
    BY <2>1, <2>2, <2>3
<1>8. CASE Work(w)
  <2>1. (\E e : Ends(w, e)) \/ \E a \in {"save", "suspend"}, n \in 1..Last : Goes(w, a, n)
    BY <1>8, OrionAssumption DEF Work
  <2> QED
    BY <1>5, <1>6, <1>8, <2>1 DEF Work, Early, Inside, Return, queue
<1>9. CASE Throw(w)
  BY <1>6, <1>9 DEF Throw, Early, Return, queue
<1>10. CASE ClearBeat(w) \/ Save(w)
  <2> DEFINE x == [exec[w] EXCEPT !.beating = FALSE]
  <2> DEFINE y == [exec[w] EXCEPT !.at = "work", !.wrote = TRUE]
  <2>0. exec' = [exec EXCEPT ![w] = x] \/ exec' = [exec EXCEPT ![w] = y]
    BY <1>10 DEF ClearBeat, Save, Typed, TypeOK
  <2>3. /\ x.held = exec[w].held /\ x.again = exec[w].again /\ x.at = exec[w].at
        /\ y.held = exec[w].held /\ y.again = exec[w].again /\ y.at = "work"
    BY <1>1 DEF Task
  <2>4. exec[w].at \in {"work", "save"}
    BY <1>10 DEF ClearBeat, Save
  <2> HIDE DEF x, y
  <2>1. exec'[w].held = exec[w].held /\ exec'[w].again = exec[w].again
    BY <2>0, <2>3 DEF Typed, TypeOK
  <2>2. exec'[w].at \notin Early
    BY <2>0, <2>3, <2>4 DEF Typed, TypeOK, Early
  <2> QED
    BY <1>10, <2>1, <2>2 DEF ClearBeat, Save, Return, queue
<1>11. CASE Suspend(w) \/ Record(w)
  <2>1. Leave(w) /\ exec[w].at \in {"suspend", "record"} /\ UNCHANGED job
    BY <1>11 DEF Suspend, Record, queue
  <2>2. exec'[w].at # "idle" => /\ exec'[w].held = exec[w].held /\ ~exec'[w].again
                                /\ exec'[w].at = "over"
    BY <2>1, IdleTask DEF Leave, Leaving, Idle, Typed, TypeOK
  <2> QED
    BY <2>1, <2>2 DEF Early, Return
<1>12. CASE Return(w)
  BY <1>12, IdleTask DEF Return, Typed, TypeOK
<1> QED
  BY <1>2, <1>3, <1>4, <1>7, <1>8, <1>9, <1>10, <1>11, <1>12 DEF Step, Look

LEMMA HeldStep ==
  ASSUME Typed, Held, NEW w \in Worker, Step(w)
  PROVE  Held'
<1>1. PICK x \in Task : /\ exec' = [exec EXCEPT ![w] = x]
                        /\ x.at # "idle" => x.run = exec[w].run /\ x.job = exec[w].job
  BY StepMoves DEF Moves
<1>2. \A v \in Worker : exec'[v] = IF v = w THEN x ELSE exec[v]
  BY <1>1, ExecSet DEF Typed
<1>3. /\ x.at # "idle" => exec[w].at # "idle" /\ x.held = exec[w].held /\ (x.again => exec[w].again)
      /\ exec[w].at = "over" <=> Return(w)
      /\ ~Return(w) => UNCHANGED job
  BY <1>2, StepTurns, StepMoves
<1>4. sync' = sync /\ began' = began
  BY StepFrame
<1>5. CASE ~Return(w)
  <2>1. UNCHANGED job
    BY <1>3, <1>5
  <2>2. ASSUME NEW v \in Worker PROVE Holds(v)'
    BY <1>1, <1>2, <1>3, <1>4, <2>1 DEF Held, Holds
  <2> QED
    BY <1>4, <2>1, <2>2 DEF Held
<1>6. CASE Return(w)
  <2>1. exec' = [exec EXCEPT ![w] = Idle] /\ exec[w].at # "idle"
    BY <1>6 DEF Return
  <2>2. \A i \in Job : job'[i] = job[i] \/ (i = exec[w].job /\ job'[i] = "done")
    BY <1>6 DEF Return, Queue!Move, Typed, TypeOK
  <2>3. \A v \in Worker : exec'[v].at # "idle" => v # w /\ exec'[v] = exec[v]
    BY <2>1, IdleTask DEF Typed, TypeOK
  <2>4. ASSUME NEW v \in Worker PROVE Holds(v)'
    <3>1. ASSUME exec'[v].at # "idle", exec[v].job # Null PROVE job'[exec[v].job] = job[exec[v].job]
      <4>1. v # w /\ exec[v].at # "idle" /\ exec[v].job \in Job
        BY <2>3, <3>1 DEF Typed, TypeOK, Task
      <4>2. exec[v].job # exec[w].job
        BY <2>1, <3>1, <4>1 DEF Held, Holds
      <4> QED
        BY <2>2, <4>1, <4>2
    <3> QED
      BY <1>4, <2>3, <3>1 DEF Held, Holds
  <2>5. \A i \in Job : job'[i] \in {"absent", "pending"} => job[i] = job'[i]
    BY <2>2
  <2> QED
    BY <1>4, <2>4, <2>5 DEF Held
<1> QED
  BY <1>5, <1>6

LEMMA HeldNext ==
  ASSUME Typed, Held, [Next]_vars, faults = 0, faults' = 0
  PROVE  Held'
<1>1. CASE UNCHANGED <<job, began, exec, sync>>
  BY <1>1 DEF Held, Holds
<1>2. ASSUME NEW w \in Worker, Step(w) PROVE Held'
  BY <1>2, HeldStep
<1>3. ASSUME NEW r \in Run, NEW w \in Worker, StartInline(r, w) PROVE Held'
  <2>1. /\ UNCHANGED <<job, began>> /\ sync' = sync \union {r}
        /\ \A v \in Worker \ {w} : exec'[v] = exec[v]
        /\ exec'[w].job = Null /\ exec'[w].run = r
    BY <1>3, IdleTask DEF StartInline, queue, Typed, TypeOK, Task, Idle
  <2>2. ASSUME NEW v \in Worker PROVE Holds(v)'
    BY <2>1 DEF Held, Holds
  <2> QED
    BY <2>1, <2>2 DEF Held
<1>4. ASSUME NEW j \in Job, Dispatch(j) PROVE Held'
  <2>1. /\ UNCHANGED <<began, exec, sync>>
        /\ \A i \in Job : job'[i] = job[i] \/ (job[i] = "absent" /\ job'[i] = "pending")
    BY <1>4 DEF Dispatch, Queue!Enter, Queue!Move, history, Typed, TypeOK
  <2>2. ASSUME NEW v \in Worker PROVE Holds(v)'
    <3>1. exec[v].job = Null \/ exec[v].job \in Job
      BY DEF Typed, TypeOK, Task
    <3> QED
      BY <2>1, <3>1 DEF Held, Holds
  <2> QED
    BY <2>1, <2>2 DEF Held
<1>5. ASSUME NEW j \in Job, NEW w \in Worker, Begin(w, j) PROVE Held'
  <2>1. /\ sync' = sync /\ began' = began \union {j} /\ j # Null
        /\ job[j] = "pending" /\ \A i \in Job : job'[i] = IF i = j THEN "running" ELSE job[i]
    BY <1>5, OrionAssumption DEF Begin, Queue!Begin, Queue!Move, history, Job
  <2>2. \A v \in Worker \ {w} : exec'[v] = exec[v]
    BY <1>5 DEF Begin, Typed, TypeOK
  <2>3. exec'[w].job = j /\ exec'[w].held /\ (exec'[w].again <=> j \in began)
    <3> DEFINE again == (j \in began)
    <3>1. exec' = [exec EXCEPT ![w] = [Idle EXCEPT !.at = "look", !.job = j, !.run = RunOf(j),
                                                   !.again = again, !.held = TRUE]]
      BY <1>5 DEF Begin
    <3> HIDE DEF again
    <3>2. exec'[w].job = j /\ exec'[w].held /\ exec'[w].again = again
      BY <3>1, IdleTask DEF Typed, TypeOK, Task
    <3> QED
      BY <3>2 DEF again
  <2>4. j \notin began /\ \A v \in Worker : exec[v].at # "idle" => exec[v].job # j
    BY <2>1 DEF Held, Holds
  <2>5. ASSUME NEW v \in Worker PROVE Holds(v)'
    <3>1. exec[v].job = Null \/ exec[v].job \in Job
      BY DEF Typed, TypeOK, Task
    <3>2. CASE v = w
      BY <2>1, <2>2, <2>3, <2>4, <3>2 DEF Holds
    <3>3. CASE v # w
      BY <2>1, <2>2, <2>3, <2>4, <3>1, <3>3 DEF Held, Holds
    <3> QED
      BY <3>2, <3>3
  <2> QED
    BY <2>1, <2>5 DEF Held
<1>6. ~Fault
  BY DEF Fault, Typed, TypeOK
<1>7. ASSUME NEW q \in Run, \/ Start(q) \/ CancelRead(q) \/ Cancel(q) \/ SweepLost(q) \/ GoStale(q)
      PROVE  UNCHANGED <<job, began, exec, sync>>
  BY <1>7 DEF Start, CancelRead, Cancel, CancelLost, CancelWaiting, CancelOther, SweepLost, GoStale,
              queue, history
<1>8. ASSUME UNCHANGED vars \/ Pause \/ (\E k \in Key : ResumeCall(k) \/ Expire(k))
             \/ \E w \in Worker : Beat(w)
      PROVE  UNCHANGED <<job, began, exec, sync>>
  BY <1>8 DEF vars, Pause, ResumeCall, Expire, Beat, queue, history
<1> QED
  BY <1>1, <1>2, <1>3, <1>4, <1>5, <1>6, <1>7, <1>8 DEF Next, Stall, Drop, Meddle, Die, Lapse

\* Nobody comes in, and no job is new: the turn is where it was.
LEMMA TurnKept ==
  ASSUME NEW r \in Run, OneTurn(r), NoneIn(r),
         \A j \in JobsOf(r)' : Unused(j)' => j \in JobsOf(r) /\ Unused(j)
  PROVE  OneTurn(r)'
BY DEF OneTurn, NoneIn

\* A worker's step makes no job unused, but the one of the wait it leaves.
LEMMA StepUses ==
  ASSUME Typed, NEW w \in Worker, Step(w), NEW r \in Run, NEW j \in JobsOf(r)', Unused(j)',
         ~Suspend(w) \/ r # exec[w].run
  PROVE  j \in JobsOf(r) /\ Unused(j)
<1>1. PICK x \in Task : /\ exec' = [exec EXCEPT ![w] = x]
                        /\ x.at # "idle" => x.run = exec[w].run /\ x.job = exec[w].job
  BY StepMoves DEF Moves
<1>2. \A v \in Worker : exec'[v] = IF v = w THEN x ELSE exec[v]
  BY <1>1, ExecSet DEF Typed
<1>3. /\ x.at \in Early => exec[w].at \in Early
      /\ \A i \in Job : job'[i] = job[i] \/ job'[i] \notin {"absent", "pending"}
  <2>1. CASE Return(w)
    BY <1>2, <2>1, StepTurns DEF Return, Queue!Move, Typed, TypeOK, Early
  <2>2. CASE ~Return(w)
    BY <1>2, <2>2, StepTurns DEF Early
  <2> QED
    BY <2>1, <2>2
<1>4. j \in Job
  BY DEF JobsOf, Job
<1>5. Unused(j)
  BY <1>1, <1>2, <1>3, <1>4 DEF Unused, Early
<1>6. j \in JobsOf(r)
  <2>1. CASE ~Suspend(w)
    BY <2>1, StepWrites DEF JobsOf, Grows
  <2>2. CASE Suspend(w) /\ r # exec[w].run
    <3>1. \A k \in Key : wait'[k] = wait[k] \/ wait'[k].run = exec[w].run
      BY <2>2 DEF Suspend, Typed, TypeOK
    <3> QED
      BY <2>2, <3>1 DEF JobsOf
  <2> QED
    BY <2>1, <2>2
<1> QED
  BY <1>5, <1>6

LEMMA TurnStep ==
  ASSUME Typed, Held, Held', NEW w \in Worker, Step(w), NEW r \in Run, r \notin sync, OneTurn(r)
  PROVE  OneTurn(r)' /\ (r \in doubled' => r \in doubled)
<1>1. PICK x \in Task : /\ exec' = [exec EXCEPT ![w] = x]
                        /\ x.at # "idle" => x.run = exec[w].run /\ x.job = exec[w].job
  BY StepMoves DEF Moves
<1>2. \A v \in Worker : exec'[v] = IF v = w THEN x ELSE exec[v]
  BY <1>1, ExecSet DEF Typed
<1>3. exec[w].at # "idle"
  BY StepMoves
<1>4. CASE r # exec[w].run
  <2>1. NoneIn(r)
    BY <1>4, StepLocal
  <2>2. r \in doubled' => r \in doubled
    BY <1>4, StepFrame
  <2> QED
    BY <1>4, <2>1, <2>2, StepUses, TurnKept
<1>5. CASE r = exec[w].run
  <2>1. exec[w].job # Null /\ exec[w].job \in JobsOf(r) /\ exec[w].job \in Job
    BY <1>3, <1>5 DEF Held, Holds, Typed, TypeOK, Owned, Task, Job, JobsOf
  <2>2. /\ x.at # "idle" => job'[exec[w].job] = "running" /\ ~x.again
        /\ x.at # "idle" => \A v \in Worker \ {w} : exec[v].at # "idle" => exec[v].job # exec[w].job
    BY <1>1, <1>2, <2>1 DEF Held, Holds
  <2>3. CASE exec[w].at \in Early
    <3>1. /\ Unused(exec[w].job) /\ \A v \in Worker : ~In(v, r)
          /\ \A j \in JobsOf(r) : Unused(j) => j = exec[w].job
      BY <2>1, <2>3 DEF Unused, OneTurn
    <3>2. ~Suspend(w)
      BY <2>3 DEF Suspend, Early
    <3>3. r \in doubled' => r \in doubled
      BY <1>5, <2>3, <3>1 DEF Step, Look, LeaveIt, CallOff, ByKey, ByRun, Load, Find, Consume, Resumed,
         Entering, ClearBeat, Work, Save, Suspend, Throw, Record, Return, history
    <3>4. CASE x.at \in Early \/ x.at \notin Inside
      <4>1. NoneIn(r)
        BY <1>1, <1>2, <2>2, <3>4 DEF NoneIn, In, Inside, Early
      <4> QED
        BY <3>2, <3>3, <4>1, StepUses, TurnKept
    <3>5. CASE x.at \notin Early /\ x.at \in Inside
      <4>1. exec'[w].job = exec[w].job /\ x.at # "idle"
        BY <1>1, <1>2, <3>5 DEF Inside
      <4>2. ASSUME NEW j \in Job, j = exec[w].job PROVE ~Unused(j)'
        <5>1. job'[j] = "running"
          BY <2>2, <4>1, <4>2
        <5>2. \A v \in Worker : ~(exec'[v].job = j /\ exec'[v].at \in Early)
          BY <1>2, <2>2, <3>5, <4>1, <4>2 DEF Early
        <5> QED
          BY <5>1, <5>2 DEF Unused
      <4>3. \A j \in JobsOf(r)' : ~Unused(j)'
        <5>1. ASSUME NEW j \in JobsOf(r)', Unused(j)' PROVE FALSE
          <6>1. j \in JobsOf(r) /\ Unused(j)
            BY <3>2, <5>1, StepUses
          <6> QED
            BY <2>1, <3>1, <4>2, <5>1, <6>1
        <5> QED
          BY <5>1
      <4>4. \A v \in Worker : In(v, r)' => v = w
        BY <1>2, <3>1 DEF In
      <4> QED
        BY <3>3, <4>3, <4>4 DEF OneTurn
    <3> QED
      BY <3>4, <3>5
  <2>4. CASE exec[w].at \in Inside
    <3>1. /\ In(w, r) /\ \A v \in Worker : In(v, r) => v = w
          /\ \A j \in JobsOf(r) : ~Unused(j)
      BY <1>5, <2>4 DEF In, OneTurn
    <3>2. NoneIn(r)
      BY <1>5, <3>1, NotEntering
    <3>3. UNCHANGED doubled
      BY <2>4 DEF Step, Look, LeaveIt, CallOff, ByKey, ByRun, Load, Find, Consume, ClearBeat, Work,
         Save, Suspend, Throw, Record, Return, history, Inside
    <3>4. CASE ~Suspend(w)
      BY <3>2, <3>3, <3>4, StepUses, TurnKept
    <3>5. CASE Suspend(w)
      <4>1. PICK k \in Key : /\ wait[k] = Null
                             /\ \A i \in Key \ {k} : wait'[i] = wait[i]
        BY <3>5 DEF Suspend, Typed, TypeOK
      <4>2. x.at \notin Early \union Inside
        BY <1>2, <3>5, IdleTask DEF Suspend, Leave, Leaving, Idle, Typed, TypeOK, Early, Inside
      <4>3. UNCHANGED job
        BY <3>5 DEF Suspend, queue
      <4>4. \A j \in JobsOf(r)' : Unused(j)' => j = k
        BY <1>2, <3>1, <4>1, <4>2, <4>3 DEF JobsOf, Unused
      <4>5. \A v \in Worker : ~In(v, r)'
        BY <1>2, <3>1, <4>2 DEF In, Early, Inside
      <4> QED
        BY <3>3, <4>4, <4>5 DEF OneTurn
    <3> QED
      BY <3>4, <3>5
  <2>5. CASE exec[w].at = "over"
    <3>1. Return(w)
      BY <2>5, StepTurns
    <3>2. UNCHANGED doubled /\ ~Suspend(w) /\ exec'[w].at = "idle"
      BY <2>5, <3>1, IdleTask DEF Return, Suspend, history, Typed, TypeOK
    <3>3. NoneIn(r)
      BY <3>2, NotEntering
    <3> QED
      BY <3>2, <3>3, StepUses, TurnKept
  <2> QED
    BY <1>3, <2>3, <2>4, <2>5 DEF Typed, TypeOK, Task, Early, Inside
<1> QED
  BY <1>4, <1>5

LEMMA TurnNext ==
  ASSUME Typed, Held, Held', [Next]_vars, faults = 0, faults' = 0,
         NEW r \in Run, r \notin sync', r \notin doubled, OneTurn(r)
  PROVE  OneTurn(r)' /\ r \notin doubled'
<1>1. ASSUME NEW w \in Worker, Step(w) PROVE OneTurn(r)' /\ r \notin doubled'
  <2>1. r \notin sync
    BY <1>1, StepFrame
  <2> QED
    BY <1>1, <2>1, TurnStep
<1>2. ASSUME UNCHANGED <<exec, job, doubled>>,
             \A k \in Key : wait'[k] # Null => wait[k] # Null /\ wait'[k].run = wait[k].run
      PROVE  OneTurn(r)' /\ r \notin doubled'
  <2>1. NoneIn(r) /\ \A j \in JobsOf(r)' : Unused(j)' => j \in JobsOf(r) /\ Unused(j)
    BY <1>2 DEF NoneIn, In, JobsOf, Unused
  <2> QED
    BY <1>2, <2>1, TurnKept
<1>3. ASSUME UNCHANGED <<exec, job, doubled, wait>> PROVE OneTurn(r)' /\ r \notin doubled'
  BY <1>2, <1>3
<1>4. ASSUME UNCHANGED <<exec, job, doubled>>, NEW S \in SUBSET Key, \A k \in S : Open(k), Close(S)
      PROVE  OneTurn(r)' /\ r \notin doubled'
  <2>1. /\ \A k \in Key : wait'[k] = Null <=> wait[k] = Null
        /\ \A k \in Key : wait[k] # Null => wait'[k].run = wait[k].run
    BY <1>4, CloseTypes DEF Open, Typed
  <2> QED
    BY <1>2, <1>4, <2>1
<1>5. ASSUME NEW q \in Run, CancelWaiting(q) PROVE OneTurn(r)' /\ r \notin doubled'
  <2>1. WaitsOf(q) \in SUBSET Key /\ \A k \in WaitsOf(q) : Open(k)
    BY DEF WaitsOf
  <2> QED
    BY <1>4, <1>5, <2>1 DEF CancelWaiting, queue
<1>6. ASSUME NEW k \in Key, Expire(k) PROVE OneTurn(r)' /\ r \notin doubled'
  BY <1>4, <1>6 DEF Expire, queue
<1>7. ASSUME NEW j \in Job, Dispatch(j) PROVE OneTurn(r)' /\ r \notin doubled'
  <2>1. /\ UNCHANGED <<exec, doubled, wait>>
        /\ \A i \in Job : job'[i] = job[i] \/ job[i] = "absent"
    BY <1>7 DEF Dispatch, Queue!Enter, Queue!Move, history, Typed, TypeOK
  <2>2. NoneIn(r) /\ JobsOf(r)' = JobsOf(r) /\ JobsOf(r) \subseteq Job
    BY <2>1 DEF NoneIn, In, JobsOf, Job
  <2>3. \A i \in Job : Unused(i)' => Unused(i)
    BY <2>1 DEF Unused
  <2> QED
    BY <2>1, <2>2, <2>3, TurnKept
<1>8. ASSUME NEW j \in Job, NEW w \in Worker, Begin(w, j) PROVE OneTurn(r)' /\ r \notin doubled'
  <2>1. /\ UNCHANGED <<doubled, wait>> /\ job[j] = "pending"
        /\ \A i \in Job : i # j => job'[i] = job[i]
    BY <1>8 DEF Begin, Queue!Begin, Queue!Move, history, Typed, TypeOK
  <2>2. /\ exec'[w].at = "look" /\ exec'[w].job = j
        /\ \A v \in Worker \ {w} : exec'[v] = exec[v]
    BY <1>8, IdleTask DEF Begin, Typed, TypeOK, Task
  <2>3. NoneIn(r) /\ JobsOf(r)' = JobsOf(r) /\ JobsOf(r) \subseteq Job
    BY <2>1, <2>2 DEF NoneIn, In, Inside, JobsOf, Job
  <2>4. \A i \in Job : Unused(i)' => Unused(i)
    BY <2>1, <2>2 DEF Unused
  <2> QED
    BY <2>1, <2>3, <2>4, TurnKept
<1>9. ASSUME NEW q \in Run, NEW w \in Worker, StartInline(q, w) PROVE OneTurn(r)' /\ r \notin doubled'
  <2>1. /\ UNCHANGED <<doubled, wait, job>> /\ q # r /\ exec'[w].run = q /\ exec'[w].job = Null
        /\ \A v \in Worker \ {w} : exec'[v] = exec[v]
    BY <1>9, IdleTask DEF StartInline, queue, Typed, TypeOK, Task, Idle
  <2>2. NoneIn(r) /\ JobsOf(r)' = JobsOf(r) /\ JobsOf(r) \subseteq Job /\ Null \notin Job
    BY <2>1, OrionAssumption DEF NoneIn, In, JobsOf, Job
  <2>3. \A i \in Job : Unused(i)' => Unused(i)
    BY <2>1, <2>2 DEF Unused
  <2> QED
    BY <2>1, <2>2, <2>3, TurnKept
<1>10. ~Fault
  BY DEF Fault, Typed, TypeOK
<1>11. ASSUME NEW q \in Run, \/ Start(q) \/ CancelRead(q) \/ CancelLost(q) \/ CancelOther(q)
                             \/ SweepLost(q) \/ GoStale(q)
       PROVE  UNCHANGED <<exec, job, doubled, wait>>
  BY <1>11 DEF Start, CancelRead, CancelLost, CancelOther, SweepLost, GoStale, queue, history
<1>12. ASSUME UNCHANGED vars \/ Pause \/ (\E k \in Key : ResumeCall(k)) \/ \E w \in Worker : Beat(w)
       PROVE  UNCHANGED <<exec, job, doubled, wait>>
  BY <1>12 DEF vars, Pause, ResumeCall, Beat, queue, history
<1> QED
  BY <1>1, <1>3, <1>5, <1>6, <1>7, <1>8, <1>9, <1>10, <1>11, <1>12
     DEF Next, Cancel, Stall, Drop, Meddle, Die, Lapse

LEMMA FaultlessNext ==
  ASSUME Typed, Faultless, [Next]_vars
  PROVE  Faultless'
<1> SUFFICES ASSUME faults' = 0
             PROVE  (Held /\ (\A r \in Run \ sync : OneTurn(r)) /\ doubled \subseteq sync)'
  BY DEF Faultless
<1>1. faults = 0
  <2>1. ASSUME NEW w \in Worker, Step(w) PROVE faults' = faults
    BY <2>1, StepFrame DEF flow
  <2>2. ~Fault
    BY DEF Fault, Typed, TypeOK
  <2> QED
    BY <2>1, <2>2 DEF Next, Pause, Start, CancelRead, Cancel, CancelLost, CancelWaiting, CancelOther,
       SweepLost, GoStale, Stall, StartInline, ResumeCall, Expire, Dispatch, Drop, Meddle, Begin,
       Beat, Die, Lapse, flow, vars
<1>2. Held /\ (\A r \in Run \ sync : OneTurn(r)) /\ doubled \subseteq sync
  BY <1>1 DEF Faultless
<1>3. Held'
  BY <1>1, <1>2, HeldNext
<1>4. sync \subseteq sync' /\ sync' \subseteq Run /\ doubled' \subseteq Run
  <2>1. TypeOK'
    BY TypedNext DEF Typed
  <2>2. ASSUME NEW w \in Worker, Step(w) PROVE sync' = sync
    BY <2>2, StepFrame
  <2>3. sync \subseteq sync'
    BY <2>2 DEF Next, Pause, Start, CancelRead, Cancel, CancelLost, CancelWaiting, CancelOther,
       SweepLost, GoStale, Stall, StartInline, ResumeCall, Expire, Dispatch, Drop, Meddle, Begin,
       Beat, Die, Lapse, Fault, vars, history
  <2> QED
    BY <2>1, <2>3 DEF TypeOK
<1>5. \A r \in Run : r \notin sync' => OneTurn(r)' /\ r \notin doubled'
  BY <1>1, <1>2, <1>3, <1>4, TurnNext
<1> QED
  BY <1>3, <1>4, <1>5

\* However starts, resumes and sweeps repeat a dispatch, only a fault, or a run
\* begun inline, lets two attempts inside one run.
THEOREM TwiceOnlyByFault == Spec => []NeverTwice
<1>1. Init => Faultless
  BY IdleTask DEF Init, Faultless, Held, Holds, OneTurn, JobsOf, In, Inside, Job, Idle
<1>2. Typed /\ Faultless /\ [Next]_vars => Faultless'
  BY FaultlessNext
<1>3. Typed /\ Faultless => NeverTwice
  BY DEF Typed, TypeOK, Faultless, NeverTwice
<1> QED
  BY <1>1, <1>2, <1>3, TypedAlways, PTL DEF Spec
=============================================================================
