---------------------------- MODULE OrionRefines ----------------------------
(* The runs of Orion keep what RunLife promises: every step of a caller, a *)
(* worker, a sweep or a fault is one move of one run, or none at all.      *)
EXTENDS OrionProofs

-----------------------------------------------------------------------------
(* A run completes only when it is running                                 *)

\* What a worker has behind it in its run shows in the row: past a checkpoint
\* the run is not pending any more, and no run is seen completed before one.
Past(w) ==
  \/ exec[w].wrote
  \/ exec[w].at = "work" /\ exec[w].stage > 0
  \/ exec[w].at = "record" /\ exec[w].end = "completed"
Going(w) ==
  /\ exec[w].wrote => exec[w].at \in {"work", "save", "suspend"}
  /\ Past(w) /\ exec[w].at # "idle" => run[exec[w].run].status # "pending"
AllGoing == \A w \in Worker : Going(w)

\* No run is pending twice.
NotAgain == \A r \in Run : run[r].status \notin {"absent", "pending"} => run'[r].status # "pending"

LEMMA NeverPendingAgain ==
  ASSUME Typed, [Next]_vars
  PROVE  NotAgain
<1> SUFFICES ASSUME NEW r \in Run, run[r].status \notin {"absent", "pending"}
             PROVE  run'[r].status # "pending"
  BY DEF NotAgain
<1>0. run[r] \in RunRow
  BY DEF Typed, TypeOK
<1>1. ASSUME NEW q \in Run, NEW s \in Terminal, EndRun(q, s) PROVE run'[r].status # "pending"
  BY <1>1, EndRunTypes DEF Typed, Terminal
<1>2. ASSUME NEW w \in Worker, Step(w) PROVE run'[r].status # "pending"
  <2>0. exec[w].run \in Run /\ exec[w] \in Task
    BY <1>2, StepMoves DEF Typed, TypeOK, Owned
  <2>1. CASE Consume(w) /\ Resumed(w)
    BY <1>0, <2>0, <2>1 DEF Resumed, Typed, TypeOK, RunRow
  <2>4. CASE ClearBeat(w)
    BY <1>0, <2>0, <2>4 DEF ClearBeat, Typed, TypeOK, RunRow
  <2>2. CASE Save(w)
    <3>1. run'[r].status = run[r].status \/ run'[r].status = "running" \/ r # exec[w].run
      BY <1>0, <2>0, <2>2 DEF Save, Typed, TypeOK, RunRow
    <3> QED
      BY <1>0, <2>0, <2>2, <3>1 DEF Save, Typed, TypeOK
  <2>5. CASE Suspend(w)
    BY <1>0, <2>0, <2>5 DEF Suspend, Typed, TypeOK, RunRow
  <2>3. CASE Record(w)
    BY <1>1, <2>0, <2>3 DEF Record, Task
  <2> QED
    BY <1>0, <1>2, <2>1, <2>2, <2>3, <2>4, <2>5
       DEF Step, Look, LeaveIt, CallOff, ByKey, ByRun, Load, Find, Consume, Work, Throw, Return
<1>3. ASSUME NEW q \in Run,
             \/ Start(q) \/ CancelRead(q) \/ Cancel(q) \/ SweepLost(q) \/ GoStale(q) \/ Stall(q)
             \/ \E w \in Worker : StartInline(q, w)
      PROVE  run'[r].status # "pending"
  <2>1. CASE Start(q) \/ \E w \in Worker : StartInline(q, w)
    BY <1>0, <2>1 DEF Start, StartInline, Typed, TypeOK
  <2>2. CASE GoStale(q) \/ Stall(q)
    BY <1>0, <2>2 DEF GoStale, Stall, Silent, Typed, TypeOK, RunRow
  <2>3. CASE CancelWaiting(q) \/ CancelOther(q)
    BY <1>1, <2>3 DEF CancelWaiting, CancelOther, Terminal
  <2> QED
    BY <1>3, <2>1, <2>2, <2>3 DEF CancelRead, Cancel, CancelLost, SweepLost
<1>4. ASSUME NEW k \in Key, Expire(k) PROVE run'[r].status # "pending"
  <2>1. wait[k].run \in Run
    BY <1>4, OrionAssumption DEF Expire, Open, Typed, TypeOK, WaitRow
  <2> QED
    BY <1>1, <1>4, <2>1 DEF Expire, Terminal
<1>5. ASSUME NEW w \in Worker, Beat(w) PROVE run'[r].status # "pending"
  <2>1. exec[w].run \in Run
    BY <1>5 DEF Beat, Inline, Typed, Owned
  <2> QED
    BY <1>0, <1>5, <2>1 DEF Beat, Typed, TypeOK, RunRow
<1> QED
  BY <1>2, <1>3, <1>4, <1>5
     DEF Next, Pause, ResumeCall, Dispatch, Drop, Meddle, Begin, Die, Lapse, Fault, vars

\* Whoever stays where it was goes on as it was.
LEMMA GoingKept ==
  ASSUME Typed, NotAgain, NEW w \in Worker, Going(w),
         \/ exec'[w] = exec[w] \/ exec'[w] = [exec[w] EXCEPT !.held = FALSE]
         \/ exec'[w].at \in {"idle", "look", "over", "suspend"} /\ ~exec'[w].wrote
  PROVE  Going(w)'
<1>1. exec[w] \in Task
  BY DEF Typed, TypeOK
<1>2. exec[w].at # "idle" => exec[w].run \in Run /\ run[exec[w].run].status # "absent"
  BY DEF Typed, Owned
<1>3. CASE exec'[w].at \in {"idle", "look", "over", "suspend"} /\ ~exec'[w].wrote
  BY <1>3 DEF Going, Past
<1>4. CASE \/ exec'[w] = exec[w] \/ exec'[w] = [exec[w] EXCEPT !.held = FALSE]
  <2>1. /\ exec'[w].at = exec[w].at /\ exec'[w].run = exec[w].run
        /\ exec'[w].wrote = exec[w].wrote /\ exec'[w].stage = exec[w].stage
        /\ exec'[w].end = exec[w].end
    BY <1>1, <1>4 DEF Task
  <2> QED
    BY <1>2, <2>1 DEF Going, Past, NotAgain
<1> QED
  BY <1>3, <1>4

\* A step leaves the other workers where they were.
LEMMA StepOthers ==
  ASSUME Typed, NEW w \in Worker, Step(w)
  PROVE  \A v \in Worker \ {w} : exec'[v] = exec[v]
<1>1. PICK x \in Task : exec' = [exec EXCEPT ![w] = x]
  BY StepMoves DEF Moves
<1> QED
  BY <1>1, ExecSet DEF Typed

LEMMA IdleFresh == Idle.at = "idle" /\ ~Idle.wrote
BY DEF Idle

LEMMA LeaveGone ==
  ASSUME Typed, NEW w \in Worker, Leave(w)
  PROVE  exec'[w].at \in {"idle", "over"} /\ ~exec'[w].wrote
BY IdleTask DEF Leave, Leaving, Idle, Typed, TypeOK

LEMMA StepGoing ==
  ASSUME Typed, NotAgain, NEW w \in Worker, Step(w), Going(w)
  PROVE  Going(w)'
<1>0. exec[w] \in Task /\ exec[w].run \in Run /\ run[exec[w].run] \in RunRow
      /\ run[exec[w].run].status # "absent"
  BY StepMoves DEF Typed, TypeOK, Owned
<1>1. CASE Leave(w)
  BY <1>1, LeaveGone, GoingKept
<1>2. CASE CallOff(w) \/ ByRun(w) \/ ByKey(w)
  <2>1. ~exec[w].wrote
    BY <1>2 DEF CallOff, ByRun, ByKey, Going
  <2>2. CASE CallOff(w)
    BY <1>0, <2>1, <2>2 DEF CallOff, Typed, TypeOK, Task, Going, Past
  <2>3. ASSUME NEW to \in {"load", "resume"}, NEW again, Turn(w, to, again) PROVE Going(w)'
    BY <1>0, <2>1, <2>3 DEF Turn, Typed, TypeOK, Task, Going, Past
  <2> QED
    BY <1>2, <2>2, <2>3 DEF ByRun, ByKey
<1>3. CASE Load(w) /\ ~Leave(w)
  <2>1. ~exec[w].wrote
    BY <1>3 DEF Load, Going
  <2> DEFINE r == exec[w].run
             done == IF HasContext(r) THEN run[r].stage ELSE 0
             resumed == done \in Waits /\ run[r].status = "running"
             x == [exec[w] EXCEPT !.at = IF done = 0 \/ resumed THEN "work" ELSE "save", !.stage = done]
  <2>2. exec'[w] = x /\ UNCHANGED run
    BY <1>3 DEF Load, Typed, TypeOK
  <2>3. x.wrote = exec[w].wrote /\ x.at \in {"work", "save"} /\ x.run = r /\ x.stage = done
    BY <1>0 DEF Task
  <2>4. done > 0 => run[r].status # "pending"
    BY DEF HasContext
  <2> QED
    BY <2>1, <2>2, <2>3, <2>4 DEF Going, Past
<1>4. CASE exec[w].at \in {"resume", "consume"}
           /\ (KeyGone(w) \/ exec' = [exec EXCEPT ![w] = [@ EXCEPT !.at = "consume",
                                                        !.stage = run[exec[w].run].stage]])
  <2>1. ~exec[w].wrote
    BY <1>4 DEF Going
  <2>2. CASE ~Leave(w)
    <3>1. CASE exec' = [exec EXCEPT ![w] = [@ EXCEPT !.at = "load", !.again = FALSE]]
      BY <1>0, <2>1, <3>1 DEF Typed, TypeOK, Task, Going, Past
    <3>2. CASE exec' = [exec EXCEPT ![w] = [@ EXCEPT !.at = "consume",
                                                   !.stage = run[exec[w].run].stage]]
      BY <1>0, <2>1, <3>2 DEF Typed, TypeOK, Task, Going, Past
    <3> QED
      BY <1>4, <2>2, <3>1, <3>2 DEF KeyGone
  <2> QED
    BY <1>1, <2>2
<1>5. CASE Resumed(w)
  <2>1. exec'[w].at = "work" /\ exec'[w].run = exec[w].run
    BY <1>0, <1>5 DEF Resumed, Typed, TypeOK, Task
  <2>2. run'[exec[w].run].status = "running"
    BY <1>0, <1>5 DEF Resumed, Typed, TypeOK, RunRow
  <2> QED
    BY <2>1, <2>2 DEF Going
<1>6. CASE ClearBeat(w)
  <2>1. /\ exec'[w].at = exec[w].at /\ exec'[w].run = exec[w].run
        /\ exec'[w].wrote = exec[w].wrote /\ exec'[w].stage = exec[w].stage
        /\ exec'[w].end = exec[w].end
    BY <1>0, <1>6 DEF ClearBeat, Typed, TypeOK, Task
  <2> QED
    BY <1>0, <2>1 DEF Going, Past, NotAgain
<1>7. CASE Work(w)
  <2>1. UNCHANGED run /\ exec[w].at = "work" /\ exec[w].stage \in Nat
    BY <1>0, <1>7, OrionAssumption DEF Work, Task
  <2>2. CASE exec[w].stage + 1 > Last /\ Ends(w, "completed")
    <3>1. exec'[w].run = exec[w].run /\ ~exec'[w].wrote /\ exec'[w].at = "record"
      BY <1>0, <2>2 DEF Ends, Typed, TypeOK, Task
    <3>2. exec[w].stage > 0
      BY <2>1, <2>2, OrionAssumption
    <3> QED
      BY <2>1, <3>1, <3>2 DEF Going, Past
  <2>3. CASE Ends(w, "failed")
    <3>1. ~exec'[w].wrote /\ exec'[w].at = "record" /\ exec'[w].end = "failed"
      BY <1>0, <2>3 DEF Ends, Typed, TypeOK, Task
    <3> QED
      BY <3>1 DEF Going, Past
  <2>4. CASE \E to \in {"save", "suspend"} : Goes(w, to, exec[w].stage + 1)
    <3>1. exec'[w].run = exec[w].run /\ exec'[w].wrote = exec[w].wrote
          /\ exec'[w].at \in {"save", "suspend"}
      BY <1>0, <2>4 DEF Goes, Typed, TypeOK, Task
    <3> QED
      BY <2>1, <3>1 DEF Going, Past
  <2> QED
    BY <1>7, <2>2, <2>3, <2>4 DEF Work
<1>8. CASE Save(w)
  <2>1. exec'[w].at = "work" /\ exec'[w].run = exec[w].run
    BY <1>0, <1>8 DEF Save, Typed, TypeOK, Task
  <2>2. CASE exec[w].wrote
    BY <1>0, <1>8, <2>1, <2>2 DEF Save, Going, Past, NotAgain
  <2>3. CASE ~exec[w].wrote
    <3>1. run'[exec[w].run].status = "running"
      BY <1>0, <1>8, <2>3 DEF Save, Typed, TypeOK, RunRow
    <3> QED
      BY <2>1, <3>1 DEF Going
  <2> QED
    BY <2>2, <2>3
<1>9. CASE Throw(w)
  <2>1. ~exec'[w].wrote /\ exec'[w].at = "record" /\ exec'[w].end = "failed"
    BY <1>0, <1>9 DEF Throw, Ends, Typed, TypeOK, Task
  <2> QED
    BY <2>1 DEF Going, Past
<1>10. CASE Return(w)
  <2>1. exec'[w] = Idle
    BY <1>10 DEF Return, Typed, TypeOK
  <2> QED
    BY <2>1, IdleFresh, GoingKept
<1> QED
  BY <1>1, <1>2, <1>3, <1>4, <1>5, <1>6, <1>7, <1>8, <1>9, <1>10
     DEF Step, Look, LeaveIt, Find, Consume, Suspend, Record

LEMMA GoingNext ==
  ASSUME Typed, AllGoing, [Next]_vars
  PROVE  AllGoing'
<1>0. NotAgain
  BY NeverPendingAgain
<1> SUFFICES ASSUME NEW w \in Worker PROVE Going(w)'
  BY DEF AllGoing
<1>1. Going(w)
  BY DEF AllGoing
<1>2. ASSUME NEW v \in Worker, Step(v) PROVE Going(w)'
  <2>1. CASE v = w
    BY <1>0, <1>1, <1>2, <2>1, StepGoing
  <2>2. CASE v # w
    BY <1>0, <1>1, <1>2, <2>2, StepOthers, GoingKept
  <2> QED
    BY <2>1, <2>2
<1>3. ASSUME NEW v \in Worker, NEW r \in Run, StartInline(r, v) PROVE Going(w)'
  <2>1. CASE v = w
    <3>1. exec'[w] = [Idle EXCEPT !.at = "work", !.run = r]
      BY <1>3, <2>1 DEF StartInline, Typed, TypeOK
    <3> QED
      BY <3>1 DEF Idle, Going, Past
  <2>2. CASE v # w
    <3>1. exec'[w] = exec[w]
      BY <1>3, <2>2 DEF StartInline, Typed, TypeOK
    <3> QED
      BY <1>0, <1>1, <3>1, GoingKept
  <2> QED
    BY <2>1, <2>2
<1>4. ASSUME NEW v \in Worker, NEW j \in Job, Begin(v, j) PROVE Going(w)'
  <2>1. CASE v = w
    <3>1. exec'[w].at = "look" /\ ~exec'[w].wrote
      BY <1>4, <2>1 DEF Begin, Idle, Typed, TypeOK
    <3> QED
      BY <1>0, <1>1, <3>1, GoingKept
  <2>2. CASE v # w
    <3>1. exec'[w] = exec[w]
      BY <1>4, <2>2 DEF Begin, Typed, TypeOK
    <3> QED
      BY <1>0, <1>1, <3>1, GoingKept
  <2> QED
    BY <2>1, <2>2
<1>5. ASSUME NEW v \in Worker, Die(v) PROVE Going(w)'
  <2>1. exec'[w] = exec[w] \/ exec'[w] = Idle
    BY <1>5 DEF Die, Typed, TypeOK
  <2> QED
    BY <1>0, <1>1, <2>1, IdleFresh, GoingKept
<1>6. ASSUME NEW v \in Worker, Lapse(v) PROVE Going(w)'
  <2>1. exec'[w] = exec[w] \/ exec'[w] = [exec[w] EXCEPT !.held = FALSE]
    BY <1>6 DEF Lapse, Typed, TypeOK
  <2> QED
    BY <1>0, <1>1, <2>1, GoingKept
<1>7. ASSUME NEW j \in Job, Meddle(j) PROVE Going(w)'
  <2>1. exec'[w] = exec[w] \/ exec'[w] = [exec[w] EXCEPT !.held = FALSE]
    BY <1>7 DEF Meddle
  <2> QED
    BY <1>0, <1>1, <2>1, GoingKept
<1>8. CASE UNCHANGED exec
  BY <1>0, <1>1, <1>8, GoingKept
<1> QED
  BY <1>2, <1>3, <1>4, <1>5, <1>6, <1>7, <1>8
     DEF Next, Pause, Start, CancelRead, Cancel, CancelLost, CancelWaiting, CancelOther, SweepLost,
         GoStale, Stall, ResumeCall, Expire, Dispatch, Drop, Beat, vars

LEMMA GoingAlways == Spec => []AllGoing
<1>1. Init => AllGoing
  BY IdleTask DEF Init, AllGoing, Going, Past, Idle
<1>2. Typed /\ AllGoing /\ [Next]_vars => AllGoing'
  BY GoingNext
<1> QED
  BY <1>1, <1>2, TypedAlways, PTL DEF Spec

-----------------------------------------------------------------------------
(* One step of Orion, seen as a move of RunLife                            *)

\* What RunLife sees of a state.
Status == [r \in Run |-> run[r].status]
Holder == [k \in Key |-> IF Open(k) THEN wait[k].run ELSE Null]
Drawn == {k \in Key : wait[k] # Null}
Loose == undercut \union doubled

LifeStep == Life!Next \/ UNCHANGED Life!vars

\* Only run r has another status, if any has.
OnlyMoves(r) == \A q \in Run \ {r} : run'[q].status = run[q].status

LEMMA MapMove ==
  ASSUME NEW r \in Run, NEW to, OnlyMoves(r), run'[r].status = to
  PROVE  Status' = [Status EXCEPT ![r] = to]
BY DEF OnlyMoves, Status

LEMMA MapWaits ==
  ASSUME UNCHANGED wait
  PROVE  Holder' = Holder /\ Drawn' = Drawn
BY DEF Holder, Drawn, Open

\* Spending the keys of S: the others stay whose they were.
LEMMA MapClose ==
  ASSUME TypeOK, NEW S \in SUBSET Key, \A k \in S : Open(k), Close(S)
  PROVE  /\ Drawn' = Drawn
         /\ \A k \in Key : Holder'[k] = IF k \in S THEN Null ELSE Holder[k]
<1>1. \A k \in S : wait[k] # Null
  BY DEF Open
<1> QED
  BY <1>1, CloseTypes DEF Drawn, Holder, Open

LEMMA Stutters ==
  ASSUME UNCHANGED <<wait, undercut, doubled>>, \A r \in Run : run'[r].status = run[r].status
  PROVE  LifeStep
<1>1. Status' = Status /\ Holder' = Holder /\ Drawn' = Drawn /\ Loose' = Loose
  BY MapWaits DEF Status, Loose
<1> QED
  BY <1>1 DEF LifeStep, Life!vars, Status, Holder, Drawn, Loose

LEMMA Strays ==
  ASSUME NEW r \in Run, Loose' = Loose \union {r}, OnlyMoves(r),
         \/ /\ Drawn' = Drawn
            /\ \A k \in Key : Holder'[k] = Holder[k] \/ (Holder[k] = r /\ Holder'[k] = Null)
         \/ \E k \in Key \ Drawn : Drawn' = Drawn \union {k} /\ Holder' = [Holder EXCEPT ![k] = r]
  PROVE  LifeStep
<1>1. \A q \in Run \ {r} : Status'[q] = Status[q]
  BY DEF Status, OnlyMoves
<1>2. Life!Stray(r)
  BY <1>1 DEF Life!Stray, Status, Holder, Drawn, Loose
<1> QED
  BY <1>2 DEF LifeStep, Life!Next

\* A move that leaves the waits alone.
LEMMA Plain ==
  ASSUME NEW r \in Run, r \notin Loose, Loose' = Loose, OnlyMoves(r), UNCHANGED wait,
         NEW to, run'[r].status = to,
         \/ run[r].status = "absent" /\ to = "pending"
         \/ run[r].status = "pending" /\ to = "running"
         \/ run[r].status = "running" /\ to = "completed"
         \/ run[r].status \in {"pending", "running"} /\ to \in {"failed", "cancelled"}
         \/ run[r].status = to
  PROVE  LifeStep
<1>1. Status' = [Status EXCEPT ![r] = to] /\ Holder' = Holder /\ Drawn' = Drawn
  BY MapMove, MapWaits
<1>2. Status[r] = run[r].status
  BY DEF Status
<1>3. CASE run[r].status = "absent" /\ to = "pending"
  <2>1. Life!Create(r)
    BY <1>1, <1>2, <1>3 DEF Life!Create, Life!Move, Status, Holder, Drawn, Loose
  <2> QED
    BY <2>1 DEF LifeStep, Life!Next
<1>4. CASE run[r].status = "pending" /\ to = "running"
  <2>1. Life!Start(r)
    BY <1>1, <1>2, <1>4 DEF Life!Start, Life!Move, Status, Holder, Drawn, Loose
  <2> QED
    BY <2>1 DEF LifeStep, Life!Next
<1>5. CASE run[r].status = "running" /\ to = "completed"
  <2>1. Life!Complete(r)
    BY <1>1, <1>2, <1>5 DEF Life!Complete, Life!Move, Status, Holder, Drawn, Loose
  <2> QED
    BY <2>1 DEF LifeStep, Life!Next
<1>6. CASE run[r].status \in {"pending", "running"} /\ to \in {"failed", "cancelled"}
  <2>1. Life!Stop(r, to)
    BY <1>1, <1>2, <1>6 DEF Life!Stop, Life!Move, Status, Holder, Drawn, Loose
  <2> QED
    BY <1>6, <2>1 DEF LifeStep, Life!Next
<1>7. CASE run[r].status = to
  <2>1. Status' = Status
    BY <1>7 DEF OnlyMoves, Status
  <2> QED
    BY <1>1, <2>1 DEF LifeStep, Life!vars, Status, Holder, Drawn, Loose
<1> QED
  BY <1>3, <1>4, <1>5, <1>6, <1>7

\* A waiting run that has one open wait, and loses it.
LEMMA Spends ==
  ASSUME TypeOK, NEW r \in Run, r \notin Loose, Loose' = Loose, OnlyMoves(r), Good(r),
         NEW k \in WaitsOf(r), Close({k}),
         NEW to \in {"running", "failed", "cancelled"}, run'[r].status = to
  PROVE  LifeStep
<1>1. k \in Key /\ Open(k) /\ wait[k].run = r
  BY DEF WaitsOf
<1>2. Status' = [Status EXCEPT ![r] = to] /\ Status[r] = "waiting"
  <2>1. run[r].status = "waiting"
    BY DEF Good
  <2> QED
    BY <2>1, MapMove DEF Status
<1>3. Drawn' = Drawn /\ Holder' = [Holder EXCEPT ![k] = Null]
  <2>1. Drawn' = Drawn /\ \A l \in Key : Holder'[l] = IF l = k THEN Null ELSE Holder[l]
    BY <1>1, MapClose
  <2> QED
    BY <2>1 DEF Holder
<1>4. \A l \in Key : Holder[l] = r <=> l = k
  <2>1. ASSUME NEW l \in Key, Holder[l] = r PROVE l = k
    <3>1. l \in WaitsOf(r)
      BY <2>1, OrionAssumption DEF Holder, WaitsOf
    <3> QED
      BY <3>1 DEF Good
  <2> QED
    BY <1>1, <2>1 DEF Holder
<1>5. CASE to = "running"
  <2>1. Life!Resume(r, k)
    BY <1>2, <1>3, <1>4, <1>5 DEF Life!Resume, Life!Spend, Life!Move, Status, Holder, Drawn, Loose
  <2> QED
    BY <1>1, <2>1 DEF LifeStep, Life!Next
<1>6. CASE to \in {"failed", "cancelled"}
  <2>1. Life!StopWaiting(r, k, to)
    BY <1>2, <1>3, <1>4, <1>6
       DEF Life!StopWaiting, Life!Spend, Life!Move, Status, Holder, Drawn, Loose
  <2> QED
    BY <1>1, <1>6, <2>1 DEF LifeStep, Life!Next
<1> QED
  BY <1>5, <1>6

\* A run that suspends, on a fresh key.
LEMMA Draws ==
  ASSUME NEW r \in Run, r \notin Loose, Loose' = Loose,
         Status[r] \in {"pending", "running"}, Status' = [Status EXCEPT ![r] = "waiting"],
         NEW k \in Key, k \notin Drawn, Drawn' = Drawn \union {k}, Holder' = [Holder EXCEPT ![k] = r]
  PROVE  LifeStep
<1>1. Life!Suspend(r, k)
  BY DEF Life!Suspend, Life!Move, Status, Holder, Drawn, Loose
<1> QED
  BY <1>1 DEF LifeStep, Life!Next

\* Whoever ends a run, and the waits it has, if it closes any.
LEMMA EndsLife ==
  ASSUME Typed, NEW r \in Run, NEW s \in {"failed", "cancelled"}, EndRun(r, s),
         Loose' = Loose \/ Loose' = Loose \union {r}, r \notin Loose' => Good(r),
         \/ /\ UNCHANGED wait
            /\ r \notin Loose' => run[r].status # "waiting"
         \/ \E S \in SUBSET WaitsOf(r) : S # {} /\ Close(S)
  PROVE  LifeStep
<1>0. /\ s \in Terminal /\ OnlyMoves(r)
      /\ run'[r].status = IF Live(r) THEN s ELSE run[r].status
  BY EndRunTypes DEF Typed, Terminal, OnlyMoves
<1>1. ASSUME NEW S \in SUBSET WaitsOf(r), Close(S)
      PROVE  /\ Drawn' = Drawn
             /\ \A k \in Key : Holder'[k] = Holder[k] \/ (Holder[k] = r /\ Holder'[k] = Null)
  <2>1. S \in SUBSET Key /\ \A k \in S : Open(k) /\ wait[k].run = r
    BY DEF WaitsOf
  <2>2. Drawn' = Drawn /\ \A k \in Key : Holder'[k] = IF k \in S THEN Null ELSE Holder[k]
    BY <1>1, <2>1, MapClose DEF Typed
  <2> QED
    BY <2>1, <2>2 DEF Holder
<1>2. CASE r \in Loose'
  <2>1. Loose' = Loose \union {r}
    BY <1>2
  <2> QED
    BY <1>0, <1>1, <2>1, Strays, MapWaits
<1>3. CASE r \notin Loose' /\ UNCHANGED wait
  <2>1. Loose' = Loose /\ r \notin Loose
    BY <1>3
  <2>2. CASE Live(r)
    <3>1. run[r].status \in {"pending", "running"} \/ run[r].status = "waiting"
      BY <2>2 DEF Live
    <3>2. CASE run[r].status = "waiting"
      <4>1. PICK S \in SUBSET WaitsOf(r) : S # {} /\ Close(S)
        BY <1>3, <3>2
      <4>2. \A k \in S : Open(k)' <=> Open(k) /\ k \notin S
        BY <4>1, CloseTypes DEF WaitsOf, Open, Typed
      <4>3. \A k \in S : Open(k)
        BY DEF WaitsOf
      <4> QED
        BY <1>3, <4>1, <4>2, <4>3 DEF Open
    <3> QED
      BY <1>0, <1>3, <2>1, <2>2, <3>1, <3>2, Plain
  <2>3. CASE ~Live(r)
    BY <1>0, <1>3, <2>1, <2>3, Plain
  <2> QED
    BY <2>2, <2>3
<1>4. CASE r \notin Loose' /\ \E S \in SUBSET WaitsOf(r) : S # {} /\ Close(S)
  <2>1. Loose' = Loose /\ r \notin Loose
    BY <1>4
  <2>2. PICK S \in SUBSET WaitsOf(r) : S # {} /\ Close(S)
    BY <1>4
  <2>3. PICK k \in S : TRUE
    BY <2>2
  <2>4. S = {k} /\ k \in WaitsOf(r) /\ run[r].status = "waiting"
    BY <1>4, <2>3 DEF Good
  <2>5. run'[r].status = s
    BY <1>0, <2>4 DEF Live
  <2> QED
    BY <1>0, <1>4, <2>1, <2>2, <2>4, <2>5, Spends DEF Typed
<1> QED
  BY <1>2, <1>3, <1>4

-----------------------------------------------------------------------------
(* A worker's step                                                         *)

LEMMA StepLoose ==
  ASSUME Typed, NEW w \in Worker, Step(w)
  PROVE  Loose' = Loose \/ Loose' = Loose \union {exec[w].run}
<1>1. doubled \subseteq doubled'
  BY DEF Step, Look, LeaveIt, CallOff, ByKey, ByRun, Load, Find, Consume, Resumed, Entering,
     ClearBeat, Work, Save, Suspend, Throw, Record, Return, history
<1>2. UNCHANGED undercut /\ doubled' \subseteq doubled \union {exec[w].run}
  BY StepFrame
<1> QED
  BY <1>1, <1>2 DEF Loose

\* The wait a suspension leaves, under a key nobody has drawn.
LEMMA SuspendDraws ==
  ASSUME Typed, NEW w \in Worker, Suspend(w)
  PROVE  \E k \in Key \ Drawn : /\ Drawn' = Drawn \union {k}
                                /\ Holder' = [Holder EXCEPT ![k] = exec[w].run]
<1> DEFINE r == exec[w].run
           x == [run |-> r, stage |-> exec[w].stage, open |-> TRUE]
<1>1. PICK k \in Key : wait[k] = Null /\ wait' = [wait EXCEPT ![k] = x]
  BY DEF Suspend
<1>2. r \in Run /\ exec[w].stage \in 1..Last
  BY DEF Suspend, Typed, Owned
<1>3. x \in WaitRow /\ x.run = r /\ x.open
  BY <1>2 DEF WaitRow
<1>4. x # Null
  BY <1>3, OrionAssumption
<1>5. \A l \in Key : wait'[l] = IF l = k THEN x ELSE wait[l]
  BY <1>1 DEF Typed, TypeOK
<1> HIDE DEF x
<1>6. \A l \in Key : Holder'[l] = IF l = k THEN r ELSE Holder[l]
  BY <1>3, <1>4, <1>5 DEF Holder, Open
<1>7. Holder' = [Holder EXCEPT ![k] = r]
  BY <1>6 DEF Holder
<1>8. Drawn' = Drawn \union {k} /\ k \notin Drawn
  BY <1>1, <1>4, <1>5 DEF Drawn
<1> QED
  BY <1>1, <1>7, <1>8

\* In a loose run it may do what it does, in that run.
LEMMA StepStrays ==
  ASSUME Typed, NEW w \in Worker, Step(w), exec[w].run \in Loose'
  PROVE  LifeStep
<1> DEFINE r == exec[w].run
<1>1. r \in Run /\ Loose' = Loose \union {r}
  BY StepMoves, StepLoose DEF Typed, Owned
<1>2. OnlyMoves(r)
  BY StepLocal DEF OnlyMoves
<1>3. CASE UNCHANGED wait
  BY <1>1, <1>2, <1>3, MapWaits, Strays
<1>4. CASE Suspend(w)
  BY <1>1, <1>2, <1>4, SuspendDraws, Strays
<1>5. CASE Consume(w) /\ Open(exec[w].job)
  <2>1. Close({exec[w].job}) /\ exec[w].job \in Key /\ wait[exec[w].job].run = r
    BY <1>5 DEF Consume, Typed, Owned
  <2>2. Drawn' = Drawn /\ \A k \in Key : Holder'[k] = IF k = exec[w].job THEN Null ELSE Holder[k]
    BY <1>5, <2>1, MapClose DEF Typed
  <2> QED
    BY <1>1, <1>2, <1>5, <2>1, <2>2, Strays DEF Holder
<1> QED
  BY <1>3, <1>4, <1>5
     DEF Step, Look, LeaveIt, CallOff, ByKey, ByRun, Load, Find, Consume, ClearBeat, Work, Save,
         Throw, Record, Return

LEMMA StepLife ==
  ASSUME Typed, AllGood, AllGoing, NEW w \in Worker, Step(w)
  PROVE  LifeStep
<1> DEFINE r == exec[w].run
<1>0. r \in Run /\ run[r] \in RunRow /\ exec[w] \in Task /\ run[r].status # "absent"
  BY StepMoves DEF Typed, TypeOK, Owned
<1>1. CASE r \in Loose'
  BY <1>1, StepStrays
<1> SUFFICES ASSUME r \notin Loose' PROVE LifeStep
  BY <1>1
<1>2. Loose' = Loose /\ r \notin Loose /\ Good(r)
  BY <1>0, StepLoose DEF AllGood, Undisturbed, Loose
<1>3. OnlyMoves(r)
  BY StepLocal DEF OnlyMoves
<1>4. In(w, r) => run[r].status # "waiting"
  BY <1>2 DEF Good
<1>5. ASSUME UNCHANGED <<run, wait>> PROVE LifeStep
  BY <1>0, <1>2, <1>3, <1>5, Plain
<1>6. CASE Consume(w) /\ Open(exec[w].job)
  <2>1. Close({exec[w].job}) /\ exec[w].job \in WaitsOf(r)
    BY <1>6 DEF Consume, Typed, Owned, WaitsOf
  <2>2. Resumed(w)
    BY <1>6 DEF Consume
  <2>3. run'[r].status = "running"
    BY <1>0, <2>2 DEF Resumed, Typed, TypeOK, RunRow
  <2> QED
    BY <1>0, <1>2, <1>3, <2>1, <2>3, Spends DEF Typed
<1>7. CASE ClearBeat(w)
  <2>1. run'[r].status = run[r].status /\ UNCHANGED wait
    BY <1>0, <1>7 DEF ClearBeat, Typed, TypeOK, RunRow
  <2> QED
    BY <1>0, <1>2, <1>3, <2>1, Plain
<1>8. CASE Save(w)
  <2>1. UNCHANGED wait /\ Live(r) /\ run[r].status \in {"pending", "running"}
    BY <1>4, <1>8 DEF Save, In, Inside, Live
  <2>2. run'[r].status = IF exec[w].wrote THEN run[r].status ELSE "running"
    BY <1>0, <1>8 DEF Save, Typed, TypeOK, RunRow
  <2> QED
    BY <1>0, <1>2, <1>3, <2>1, <2>2, Plain
<1>9. CASE Suspend(w)
  <2>1. run[r].status \in {"pending", "running"}
    BY <1>4, <1>9 DEF Suspend, In, Inside, Live
  <2>2. run'[r].status = "waiting"
    BY <1>0, <1>9 DEF Suspend, Typed, TypeOK, RunRow
  <2>3. Status' = [Status EXCEPT ![r] = "waiting"] /\ Status[r] \in {"pending", "running"}
    BY <1>0, <1>3, <2>1, <2>2, MapMove DEF Status
  <2>4. PICK k \in Key : /\ k \notin Drawn /\ Drawn' = Drawn \union {k}
                         /\ Holder' = [Holder EXCEPT ![k] = r]
    BY <1>9, SuspendDraws
  <2> QED
    BY <1>0, <1>2, <2>1, <2>3, <2>4, Draws
<1>10. CASE Record(w)
  <2>1. EndRun(r, exec[w].end) /\ UNCHANGED wait /\ run[r].status # "waiting"
    BY <1>4, <1>10 DEF Record, In, Inside
  <2>2. CASE exec[w].end \in {"failed", "cancelled"}
    BY <1>0, <1>2, <2>1, <2>2, EndsLife
  <2>3. CASE exec[w].end = "completed"
    <3>1. run'[r].status = IF Live(r) THEN "completed" ELSE run[r].status
      BY <1>0, <2>1, <2>3, EndRunTypes DEF Typed, Terminal
    <3>2. run[r].status # "pending"
      BY <1>10, <2>3 DEF Record, AllGoing, Going, Past
    <3>3. CASE Live(r)
      BY <1>0, <1>2, <1>3, <2>1, <3>1, <3>2, <3>3, Plain DEF Live
    <3>4. CASE ~Live(r)
      BY <1>0, <1>2, <1>3, <2>1, <3>1, <3>4, Plain
    <3> QED
      BY <3>3, <3>4
  <2> QED
    BY <1>0, <2>2, <2>3 DEF Task, Terminal
<1> QED
  BY <1>5, <1>6, <1>7, <1>8, <1>9, <1>10
     DEF Step, Look, LeaveIt, CallOff, ByKey, ByRun, Load, Find, Consume, Work, Throw, Return

-----------------------------------------------------------------------------
(* The callers, the sweep, and the theorem                                 *)

LEMMA CallersLife ==
  ASSUME Typed, AllGood, NEW r \in Run,
         Start(r) \/ CancelWaiting(r) \/ CancelOther(r) \/ \E w \in Worker : StartInline(r, w)
  PROVE  LifeStep
<1>0. run[r] \in RunRow /\ (r \notin Loose => Good(r))
  BY DEF Typed, TypeOK, AllGood, Undisturbed, Loose
<1>1. ASSUME NEW x \in RunRow, run' = [run EXCEPT ![r] = x], x.status = "pending",
             run[r].status = "absent", UNCHANGED <<wait, undercut, doubled>>
      PROVE  LifeStep
  <2>1. OnlyMoves(r) /\ run'[r].status = "pending"
    BY <1>1, RunSet DEF OnlyMoves, Typed
  <2>2. CASE r \in Loose
    BY <1>1, <2>1, <2>2, MapWaits, Strays DEF Loose
  <2>3. CASE r \notin Loose
    BY <1>1, <2>1, <2>3, Plain DEF Loose
  <2> QED
    BY <2>2, <2>3
<1>2. CASE Start(r) /\ run[r].status = "absent"
  <2> DEFINE x == [run[r] EXCEPT !.status = "pending"]
  <2>1. x \in RunRow /\ x.status = "pending"
    BY <1>0 DEF RunRow
  <2>2. run' = [run EXCEPT ![r] = x]
    BY <1>2 DEF Start
  <2> QED
    BY <1>1, <1>2, <2>1, <2>2 DEF Start, history
<1>3. CASE Start(r) /\ run[r].status # "absent"
  BY <1>3, Stutters DEF Start, history
<1>4. CASE \E w \in Worker : StartInline(r, w)
  <2> DEFINE x == [run[r] EXCEPT !.status = "pending", !.beat = "fresh"]
  <2>1. x \in RunRow /\ x.status = "pending"
    BY <1>0 DEF RunRow
  <2>2. run' = [run EXCEPT ![r] = x]
    BY <1>4 DEF StartInline
  <2> QED
    BY <1>1, <1>4, <2>1, <2>2 DEF StartInline
<1>5. CASE CancelWaiting(r)
  <2>1. /\ EndRun(r, "cancelled") /\ WaitsOf(r) # {} /\ Close(WaitsOf(r))
        /\ UNCHANGED <<undercut, doubled>>
    BY <1>5 DEF CancelWaiting
  <2> QED
    BY <1>0, <2>1, EndsLife DEF Loose
<1>6. CASE CancelOther(r)
  <2>1. /\ EndRun(r, "cancelled") /\ UNCHANGED <<wait, doubled>>
        /\ undercut' = IF run[r].status = "waiting" THEN undercut \union {r} ELSE undercut
    BY <1>6 DEF CancelOther
  <2> QED
    BY <1>0, <2>1, EndsLife DEF Loose
<1> QED
  BY <1>2, <1>3, <1>4, <1>5, <1>6

LEMMA NextLife ==
  ASSUME Typed, AllGood, AllGoing, [Next]_vars
  PROVE  LifeStep
<1>1. ASSUME NEW w \in Worker, Step(w) PROVE LifeStep
  BY <1>1, StepLife
<1>2. ASSUME NEW r \in Run,
             \/ Start(r) \/ CancelWaiting(r) \/ CancelOther(r)
             \/ \E w \in Worker : StartInline(r, w)
      PROVE  LifeStep
  BY <1>2, CallersLife
<1>3. ASSUME NEW k \in Key, Expire(k) PROVE LifeStep
  <2> DEFINE r == wait[k].run
  <2>1. /\ r \in Run /\ k \in WaitsOf(r) /\ Close({k}) /\ EndRun(r, "failed")
        /\ UNCHANGED <<undercut, doubled>>
    BY <1>3, OrionAssumption DEF Expire, Open, WaitsOf, Typed, TypeOK, WaitRow
  <2>2. r \notin Loose => Good(r)
    BY <2>1 DEF AllGood, Undisturbed, Loose
  <2>3. \E S \in SUBSET WaitsOf(r) : S # {} /\ Close(S)
    BY <2>1
  <2> QED
    BY <2>1, <2>2, <2>3, EndsLife DEF Loose
<1>4. ASSUME UNCHANGED <<wait, undercut, doubled>>, NEW q \in Run,
             Silent(q) \/ run' = [run EXCEPT ![q].beat = "fresh"]
      PROVE  LifeStep
  <2>1. \A r \in Run : run'[r].status = run[r].status
    BY <1>4 DEF Silent, Typed, TypeOK, RunRow
  <2> QED
    BY <1>4, <2>1, Stutters
<1>5. ASSUME NEW q \in Run, GoStale(q) \/ Stall(q) PROVE LifeStep
  BY <1>4, <1>5 DEF GoStale, Stall, Fault, history
<1>6. ASSUME NEW w \in Worker, Beat(w) PROVE LifeStep
  <2>1. exec[w].run \in Run
    BY <1>6 DEF Beat, Inline, Typed, Owned
  <2> QED
    BY <1>4, <1>6, <2>1 DEF Beat, history
<1>7. CASE UNCHANGED <<run, wait, undercut, doubled>>
  BY <1>7, Stutters
<1> QED
  BY <1>1, <1>2, <1>3, <1>5, <1>6, <1>7
     DEF Next, Cancel, Pause, ResumeCall, CancelRead, CancelLost, SweepLost, Dispatch, Drop, Meddle,
         Begin, Die, Lapse, Fault, vars, history

\* Of every run, whatever callers, attempts, sweeps and faults do at once: it
\* moves only as the Run model's transitions say, draws a fresh key when it
\* suspends, and spends the one key it waits for when anything ends the wait;
\* until two attempts are inside it, or a cancel undercuts its wait.
THEOREM RunsLiveAsDeclared == Spec => ImplementsRunLife
<1>1. Init => Life!Init
  BY OrionAssumption DEF Init, Life!Init, Open
<1>2. Typed /\ AllGood /\ AllGoing /\ [Next]_vars => [Life!Next]_(Life!vars)
  BY NextLife DEF LifeStep
<1> QED
  BY <1>1, <1>2, TypedAlways, GoodAlways, GoingAlways, PTL DEF Spec, ImplementsRunLife, Life!Spec
=============================================================================
