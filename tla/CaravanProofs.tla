--------------------------- MODULE CaravanProofs ---------------------------
(* What TLAPS proves of Caravan, for any instances, jobs, queues and bounds. *)
EXTENDS Caravan, TLAPS

-----------------------------------------------------------------------------
(* Typing                                                                  *)

\* Writing an attempt's outcome leaves a well-formed table.
LEMMA OutcomeType ==
  ASSUME TypeOK, NEW x \in execs, NEW s \in Status, Outcome(x, s)
  PROVE  row' \in [Job -> Row]
<1>1. x.job \in Job
  BY DEF TypeOK, Exec
<1>2. [row[x.job] EXCEPT !.status = s, !.owner = Null] \in Row
  BY <1>1 DEF TypeOK, Row
<1> QED
  BY <1>1, <1>2 DEF Outcome, TypeOK

\* The finally block leaves well-formed worker entries.
LEMMA LeaveType ==
  ASSUME TypeOK, NEW x \in execs, Leave(x)
  PROVE  slot' \in [Instance -> [Job -> Nat]]
<1>1. x.job \in Job /\ x.inst \in Instance
  BY DEF TypeOK, Exec
<1>2. CASE x.open
  BY <1>1, <1>2 DEF Leave, TypeOK
<1>3. CASE ~x.open
  BY <1>3 DEF Leave, TypeOK
<1> QED
  BY <1>2, <1>3

\* Telling, aborting or reclaiming attempts keeps them well formed.
LEMMA HeardType ==
  ASSUME TypeOK, NEW i \in Instance, NEW q \in Queue
  PROVE  Heard(i, q) \subseteq Exec
<1> SUFFICES ASSUME NEW y \in execs
             PROVE  y \in Exec /\ [y EXCEPT !.told = TRUE] \in Exec
  BY DEF Heard
<1> QED
  BY DEF TypeOK, Exec

LEMMA ReclaimType ==
  ASSUME TypeOK, NEW alive, Reclaim(alive)
  PROVE  row' \in [Job -> Row] /\ execs' \subseteq Exec
<1>1. \A j \in Job : [row[j] EXCEPT !.status = "pending", !.owner = Null] \in Row
  BY DEF TypeOK, Row, Status, Live
<1>2. row' \in [Job -> Row]
  BY <1>1 DEF Reclaim, TypeOK
<1>3. \A y \in execs : y \in Exec /\ [y EXCEPT !.fate = "lease"] \in Exec
  BY DEF TypeOK, Exec, Fate
<1>4. execs' \subseteq Exec
  BY <1>3 DEF Reclaim
<1> QED
  BY <1>2, <1>4

LEMMA TypeInit == Init => TypeOK
BY DEF Init, TypeOK, NoRow, Row, Status, Exec, Phase

LEMMA TypeNext == TypeOK /\ [Next]_vars => TypeOK'
<1> SUFFICES ASSUME TypeOK, [Next]_vars
             PROVE  TypeOK'
  OBVIOUS
<1> USE DEF operators
<1>1. ASSUME NEW j \in Job, Dispatch(j) PROVE TypeOK'
  BY <1>1 DEF Dispatch, TypeOK, NewRow, Row, Status, Live
<1>2. ASSUME NEW j \in Job, Retry(j) PROVE TypeOK'
  <2>1. [row[j] EXCEPT !.status = "pending", !.tries = 0] \in Row
    BY DEF TypeOK, Row, Status, Live
  <2> QED
    BY <1>2, <2>1 DEF Retry, TypeOK
<1>3. ASSUME NEW j \in Job, Cleanup(j) PROVE TypeOK'
  BY <1>3 DEF Cleanup, TypeOK, NoRow, Row, Status
<1>4. ASSUME NEW i \in Instance, NEW j \in Job, Poll(i, j) PROVE TypeOK'
  <2>1. QueueOf[j] \in Queue
    BY CaravanAssumption
  <2>2. row' \in [Job -> Row]
    BY <1>4 DEF Poll, TypeOK, Row, Status, Live
  <2>3. claims' \in [Job -> Nat] /\ slot' \in [Instance -> [Job -> Nat]]
    BY <1>4 DEF Poll, TypeOK
  <2>4. [job |-> j, inst |-> i, run |-> claims[j] + 1, try |-> row[j].tries + 1,
         fate |-> "held", open |-> TRUE, told |-> FALSE] \in Exec
    BY DEF TypeOK, Exec, Row, Fate
  <2>5. execs' \subseteq Exec
    BY <1>4, <2>1, <2>4, HeardType DEF Poll
  <2> QED
    BY <1>4, <2>2, <2>3, <2>5 DEF Poll, TypeOK
<1>5. ASSUME NEW i \in Instance, NEW j \in Job, Cancel(i, j) PROVE TypeOK'
  <2>1. row' \in [Job -> Row]
    BY <1>5 DEF Cancel, TypeOK, Row, Status, Terminal
  <2>2. ASSUME NEW y \in execs, NEW f \in Fate, NEW b \in BOOLEAN
        PROVE  [y EXCEPT !.fate = f, !.told = b] \in Exec
    BY DEF TypeOK, Exec
  <2>3. ASSUME NEW y \in execs
        PROVE  [y EXCEPT !.fate = IF @ = "held" THEN "cancel" ELSE @,
                         !.told = @ \/ (y.inst = i /\ y.open /\ slot[i][j] = y.run)] \in Exec
    <3>1. y.fate \in Fate /\ y.told \in BOOLEAN
      BY DEF TypeOK, Exec
    <3> QED
      BY <2>2, <3>1 DEF Fate
  <2>4. execs' \subseteq Exec
    BY <1>5, <2>3 DEF Cancel, TypeOK
  <2> QED
    BY <1>5, <2>1, <2>4 DEF Cancel, TypeOK
<1>6. ASSUME NEW i \in Instance, NEW q \in Queue, PollIdle(i, q) PROVE TypeOK'
  BY <1>6, HeardType DEF PollIdle, TypeOK
<1>7. ASSUME NEW i \in Instance, SweepOwners(i)
      PROVE  lease' \subseteq Instance /\ row' \in [Job -> Row] /\ execs' \subseteq Exec
  BY <1>7, ReclaimType DEF SweepOwners, TypeOK
<1>8. ASSUME NEW i \in Instance, Start(i) PROVE TypeOK'
  BY <1>7, <1>8 DEF Start, TypeOK, Phase
<1>9. ASSUME NEW i \in Instance, Sweep(i) PROVE TypeOK'
  BY <1>7, <1>9 DEF Sweep, TypeOK
<1>10. ASSUME NEW i \in Instance, Stop(i) PROVE TypeOK'
  BY <1>10 DEF Stop, TypeOK, Phase
<1>11. ASSUME NEW i \in Instance, StopEnds(i) PROVE TypeOK'
  <2>1. ASSUME NEW y \in execs, NEW b \in BOOLEAN
        PROVE  [y EXCEPT !.told = b, !.open = FALSE] \in Exec
    BY DEF TypeOK, Exec
  <2>2. ASSUME NEW y \in execs
        PROVE  [y EXCEPT !.told = @ \/ slot[i][y.job] = y.run, !.open = FALSE] \in Exec
    <3>1. y.told \in BOOLEAN
      BY DEF TypeOK, Exec
    <3> QED
      BY <2>1, <3>1
  <2>3. execs' \subseteq Exec
    BY <1>11, <2>2 DEF StopEnds, TypeOK
  <2>4. phase' \in [Instance -> Phase] /\ lease' \subseteq Instance
    BY <1>11 DEF StopEnds, TypeOK, Phase
  <2>5. slot' \in [Instance -> [Job -> Nat]]
    BY <1>11 DEF StopEnds, TypeOK
  <2> QED
    BY <1>11, <2>3, <2>4, <2>5 DEF StopEnds, TypeOK
<1>12. ASSUME NEW i \in Instance, Crash(i) PROVE TypeOK'
  BY <1>12 DEF Crash, TypeOK, Phase
<1>13. ASSUME NEW i \in Instance, Stall(i) \/ Wake(i) PROVE TypeOK'
  BY <1>13 DEF Stall, Wake, TypeOK, Phase
<1>14. ASSUME NEW i \in Instance, Expire(i) PROVE TypeOK'
  BY <1>14 DEF Expire, TypeOK
<1>15. ASSUME NEW x \in execs, Finish(x) PROVE TypeOK'
  <2>1. "done" \in Status /\ \A r \in BOOLEAN : Failure(x, r) \in Status
    BY DEF Failure, Status, Live, Terminal
  <2>2. row' \in [Job -> Row]
    BY <1>15, <2>1, OutcomeType DEF Finish
  <2> QED
    BY <1>15, <2>2, LeaveType DEF Finish, TypeOK
<1>16. ASSUME NEW x \in execs, TimeOut(x) PROVE TypeOK'
  <2>1. Failure(x, TRUE) \in Status
    BY DEF Failure, Status, Live, Terminal
  <2>2. row' \in [Job -> Row]
    BY <1>16, <2>1, OutcomeType DEF TimeOut
  <2>3. [x EXCEPT !.fate = "timeout", !.told = TRUE] \in Exec
    BY DEF TypeOK, Exec, Fate
  <2> QED
    BY <1>16, <2>2, <2>3, LeaveType DEF TimeOut, TypeOK
<1>17. ASSUME NEW x \in execs, OrphanEnds(x) PROVE TypeOK'
  BY <1>17 DEF OrphanEnds, TypeOK
<1>18. ASSUME NEW s \in Scope, Purge(s) PROVE TypeOK'
  BY <1>18 DEF Purge, TypeOK, NoRow, Row, Status
<1>19. ASSUME NEW s \in Scope, DrainReports(s) \/ DrainGivesUp(s) PROVE TypeOK'
  BY <1>19 DEF DrainReports, DrainGivesUp, TypeOK
<1>20. ASSUME NEW s \in Scope, NEW h \in Holder \union {Null}, Pause(s, h) PROVE TypeOK'
  BY <1>20 DEF Pause, TypeOK
<1>21. ASSUME NEW s \in Scope, NEW h \in Holder \union {Null}, Resume(s, h) PROVE TypeOK'
  BY <1>21 DEF Resume, OwnPause, TypeOK
<1>22. ASSUME NEW s \in Scope, NEW h \in Holder \union {Null}, Drain(s, h) PROVE TypeOK'
  BY <1>22 DEF Drain, TypeOK
<1>23. CASE UNCHANGED vars
  BY <1>23 DEF vars, TypeOK
<1> QED
  BY <1>1, <1>2, <1>3, <1>4, <1>5, <1>6, <1>8, <1>9, <1>10, <1>11, <1>12, <1>13,
     <1>14, <1>15, <1>16, <1>17, <1>18, <1>19, <1>20, <1>21, <1>22, <1>23
  DEF Next, Attempt, Lifecycle, Operate

\* Whatever the instances do, every row, handler and lease keeps its type: no
\* row ever holds a status or an owner the rest of the code does not expect.
THEOREM TypeCorrect == Spec => []TypeOK
<1> QED
  BY TypeInit, TypeNext, PTL DEF Spec

-----------------------------------------------------------------------------
(* How a row's status moves                                                *)

\* Every way one step can change the status of job k's row, and who does it.
Moves(k) ==
  \/ row'[k].status = row[k].status
  \/ row[k].status = "absent" /\ row'[k].status = "pending" /\ Dispatch(k)
  \/ row[k].status \in {"dead", "cancelled"} /\ row'[k].status = "pending"
       /\ row'[k].tries = 0 /\ Retry(k)
  \/ row[k].status = "pending" /\ row'[k].status = "running"
       /\ ~Paused(QueueOf[k]) /\ UNCHANGED operators
  \/ row[k].status = "running" /\ row'[k].status \in {"done", "dead", "pending"}
  \/ row[k].status \in Live /\ row'[k].status = "cancelled"
  \/ row[k].status \in Terminal \union {"pending"} /\ row'[k].status = "absent"

LEMMA OutcomeMoves ==
  ASSUME TypeOK, NEW x \in execs, NEW s \in {"done", "dead", "pending"},
         Outcome(x, s), NEW k \in Job
  PROVE  \/ row'[k] = row[k]
         \/ row[k].status = "running" /\ row'[k].status = s
<1>1. x.job \in Job /\ row[x.job] \in Row
  BY DEF TypeOK, Exec
<1>2. [row[x.job] EXCEPT !.status = s, !.owner = Null].status = s
  BY <1>1 DEF Row
<1> QED
  BY <1>1, <1>2 DEF Outcome, Lands, Holds, TypeOK

LEMMA ReclaimMoves ==
  ASSUME TypeOK, NEW alive, Reclaim(alive), NEW k \in Job
  PROVE  \/ row'[k] = row[k]
         \/ row[k].status = "running" /\ row'[k].status = "pending"
<1>1. [row[k] EXCEPT !.status = "pending", !.owner = Null].status = "pending"
  BY DEF TypeOK, Row
<1> QED
  BY <1>1 DEF Reclaim, Abandoned

\* The job's row moves only along these: one lemma for every property below.
LEMMA EveryMove ==
  ASSUME TypeOK, [Next]_vars, NEW k \in Job
  PROVE  Moves(k)
<1> USE DEF operators
<1>1. ASSUME NEW j \in Job, Dispatch(j) PROVE Moves(k)
  BY <1>1 DEF Dispatch, Moves, TypeOK, NewRow
<1>2. ASSUME NEW j \in Job, Retry(j) PROVE Moves(k)
  <2>1. LET r == [row[j] EXCEPT !.status = "pending", !.tries = 0]
        IN  r.status = "pending" /\ r.tries = 0
    BY DEF TypeOK, Row
  <2>2. CASE k = j
    BY <1>2, <2>1, <2>2 DEF Retry, Moves, TypeOK
  <2>3. CASE k # j
    BY <1>2, <2>3 DEF Retry, Moves, TypeOK
  <2> QED
    BY <2>2, <2>3
<1>3. ASSUME NEW j \in Job, Cleanup(j) PROVE Moves(k)
  BY <1>3 DEF Cleanup, Moves, TypeOK, NoRow
<1>4. ASSUME NEW i \in Instance, NEW j \in Job, Poll(i, j) PROVE Moves(k)
  BY <1>4 DEF Poll, Claimable, Moves, TypeOK
<1>5. ASSUME NEW i \in Instance, NEW j \in Job, Cancel(i, j) PROVE Moves(k)
  BY <1>5 DEF Cancel, Moves, TypeOK, Row
<1>6. ASSUME NEW i \in Instance, Start(i) \/ Sweep(i) PROVE Moves(k)
  BY <1>6, ReclaimMoves DEF Start, Sweep, SweepOwners, Moves
<1>7. ASSUME NEW x \in execs, Finish(x) \/ TimeOut(x) PROVE Moves(k)
  BY <1>7, OutcomeMoves DEF Finish, TimeOut, Failure, Moves
<1>8. ASSUME NEW s \in Scope, Purge(s) PROVE Moves(k)
  BY <1>8 DEF Purge, Moves, NoRow
<1>9. CASE UNCHANGED row
  BY <1>9 DEF Moves
<1>10. ASSUME NEW i \in Instance, NEW q \in Queue, PollIdle(i, q) PROVE UNCHANGED row
  BY <1>10 DEF PollIdle
<1>11. ASSUME NEW i \in Instance,
              Stop(i) \/ StopEnds(i) \/ Crash(i) \/ Stall(i) \/ Wake(i) \/ Expire(i)
       PROVE  UNCHANGED row
  BY <1>11 DEF Stop, StopEnds, Crash, Stall, Wake, Expire
<1>12. ASSUME NEW x \in execs, OrphanEnds(x) PROVE UNCHANGED row
  BY <1>12 DEF OrphanEnds
<1>13. ASSUME NEW s \in Scope, DrainReports(s) \/ DrainGivesUp(s) PROVE UNCHANGED row
  BY <1>13 DEF DrainReports, DrainGivesUp
<1>14. ASSUME NEW s \in Scope, NEW h \in Holder \union {Null},
              Pause(s, h) \/ Resume(s, h) \/ Drain(s, h)
       PROVE  UNCHANGED row
  BY <1>14 DEF Pause, Resume, Drain
<1>15. CASE UNCHANGED vars
  BY <1>9, <1>15 DEF vars
<1> QED
  BY <1>1, <1>2, <1>3, <1>4, <1>5, <1>6, <1>7, <1>8, <1>9, <1>10, <1>11, <1>12,
     <1>13, <1>14, <1>15
  DEF Next, Attempt, Lifecycle, Operate

-----------------------------------------------------------------------------
(* The unique key                                                          *)

LEMMA UniqueNext == TypeOK /\ UniqueLive /\ [Next]_vars => UniqueLive'
<1> SUFFICES ASSUME TypeOK, UniqueLive, [Next]_vars,
                    NEW j \in Job, NEW k \in Job,
                    j # k, KeyOf[j] # Null, KeyOf[j] = KeyOf[k],
                    row'[j].status \in Live, row'[k].status \in Live
             PROVE  FALSE
  BY DEF UniqueLive
<1> DEFINE Enters(n) == Dispatch(n) \/ Retry(n)
<1>1. \A n \in Job : row'[n].status \in Live => row[n].status \in Live \/ Enters(n)
  BY EveryMove DEF Moves, Live, Terminal
\* Nobody else moves while n enters, and no live row holds its key.
<1>2. ASSUME NEW n \in Job, NEW m \in Job, n # m, KeyOf[n] = KeyOf[m], KeyOf[n] # Null,
             Enters(n)
      PROVE  row'[m].status \notin Live
  BY <1>2 DEF Dispatch, Retry, KeyFree, TypeOK
<1>3. row[j].status \in Live
  BY <1>1, <1>2
<1>4. row[k].status \in Live
  BY <1>1, <1>2
<1> QED
  BY <1>3, <1>4 DEF UniqueLive

\* However dispatches race with retries, recovery and the retry ladder, no two
\* live rows ever hold one unique key.
THEOREM UniqueKeyHeldOnce == Spec => []UniqueLive
<1>1. Init => UniqueLive
  BY DEF Init, UniqueLive, NoRow, Live
<1> QED
  BY <1>1, UniqueNext, TypeCorrect, PTL DEF Spec

-----------------------------------------------------------------------------
(* The drain                                                               *)

\* What an operator sees moves by an operator's verb or not at all.
LEMMA OperatorSteps ==
  ASSUME [Next]_vars
  PROVE  \/ UNCHANGED operators
         \/ \E s \in Scope :
              \/ DrainReports(s) \/ DrainGivesUp(s)
              \/ \E h \in Holder \union {Null} : Pause(s, h) \/ Resume(s, h) \/ Drain(s, h)
BY DEF Next, Attempt, Lifecycle, Operate, vars, operators, Dispatch, Retry, Cleanup,
       Poll, Cancel, PollIdle, Start, Sweep, Stop, StopEnds, Crash, Stall, Wake, Expire,
       Finish, TimeOut, OrphanEnds, Purge

\* A scope reported drained under its pause stays paused until somebody resumes it.
QuietIsPaused == \A s \in quiet : OwnPause(s) # {}

LEMMA PausedNext == QuietIsPaused /\ [Next]_vars => QuietIsPaused'
<1> SUFFICES ASSUME QuietIsPaused, [Next]_vars PROVE QuietIsPaused'
  OBVIOUS
<1> USE DEF OwnPause
<1>1. CASE UNCHANGED operators
  BY <1>1 DEF operators, QuietIsPaused
<1>2. ASSUME NEW s \in Scope, DrainReports(s) \/ DrainGivesUp(s) PROVE QuietIsPaused'
  BY <1>2 DEF DrainReports, DrainGivesUp, QuietIsPaused
<1>3. ASSUME NEW s \in Scope, NEW h \in Holder \union {Null}, Pause(s, h) \/ Drain(s, h)
      PROVE  QuietIsPaused'
  <2>1. pauses \subseteq pauses' /\ UNCHANGED quiet
    BY <1>3 DEF Pause, Drain
  <2> QED
    BY <2>1 DEF QuietIsPaused
<1>4. ASSUME NEW s \in Scope, NEW h \in Holder \union {Null}, Resume(s, h) PROVE QuietIsPaused'
  BY <1>4 DEF Resume, QuietIsPaused
<1> QED
  BY <1>1, <1>2, <1>3, <1>4, OperatorSteps

LEMMA QuietNext ==
  TypeOK /\ QuietIsPaused /\ DrainedStaysQuiet /\ [Next]_vars => DrainedStaysQuiet'
<1> SUFFICES ASSUME TypeOK, QuietIsPaused, DrainedStaysQuiet, [Next]_vars,
                    NEW s \in quiet', NEW j \in Job, InScope(j, s), row'[j].status = "running"
             PROVE  FALSE
  BY DEF DrainedStaysQuiet, InScope
<1>1. CASE row[j].status = "running"
  <2>1. s \notin quiet
    BY <1>1 DEF DrainedStaysQuiet
  <2>2. quiet' \subseteq quiet \/ \E t \in Scope : DrainReports(t)
    BY OperatorSteps DEF operators, DrainGivesUp, Pause, Resume, Drain
  <2>3. DrainReports(s)
    BY <2>1, <2>2 DEF DrainReports
  <2> QED
    BY <1>1, <2>3 DEF DrainReports
\* Claimed in this step: its queue was not paused, so its scope was not quiet.
<1>2. CASE row[j].status # "running"
  <2>1. ~Paused(QueueOf[j]) /\ UNCHANGED operators
    BY <1>2, EveryMove DEF Moves
  <2> QED
    BY <2>1 DEF QuietIsPaused, OwnPause, Paused, InScope, operators
<1> QED
  BY <1>1, <1>2

\* From the moment drain() reports a scope drained, with its pause in force, until
\* that pause is lifted, no instance starts a job in it, whatever recovery and
\* dispatch put in its queue, and whatever other drains of it report.
THEOREM DrainHolds == Spec => []DrainedStaysQuiet
<1>1. Init => QuietIsPaused /\ DrainedStaysQuiet
  BY DEF Init, QuietIsPaused, DrainedStaysQuiet
<1> QED
  BY <1>1, PausedNext, QuietNext, TypeCorrect, PTL DEF Spec

-----------------------------------------------------------------------------
(* Terminal rows                                                           *)

\* No late completion, timeout or sweep ever writes over a terminal row.
THEOREM TerminalRowsStay == Spec => TerminalIsFinal
<1>1. ASSUME TypeOK, [Next]_vars
      PROVE  [\A j \in Job :
                row[j].status \in Terminal /\ row'[j].status # row[j].status
                  => \/ row'[j].status = "absent"
                     \/ row[j].status # "done" /\ row'[j].status = "pending"
                          /\ row'[j].tries = 0]_vars
  BY <1>1, EveryMove DEF Moves, Terminal, Live
<1> QED
  BY <1>1, TypeCorrect, PTL DEF Spec, TerminalIsFinal

-----------------------------------------------------------------------------
(* The refinement                                                          *)

Statuses == [j \in Job |-> row[j].status]

\* One row written by an attempt's outcome is the abstract job's End.
LEMMA EndsJob ==
  ASSUME TypeOK, NEW x \in execs, NEW s \in {"done", "dead", "pending"}, Outcome(x, s)
  PROVE  Life!Next \/ UNCHANGED Statuses
<1>1. x.job \in Job
  BY DEF TypeOK, Exec
<1>2. CASE row' = row
  BY <1>2 DEF Statuses
<1>3. CASE row' # row
  <2>1. row' = [row EXCEPT ![x.job] = [@ EXCEPT !.status = s, !.owner = Null]]
        /\ row[x.job].status = "running"
    BY <1>3 DEF Outcome, Lands, Holds
  <2>2. row'[x.job].status = s /\ \A k \in Job \ {x.job} : row'[k].status = row[k].status
    BY <1>1, <2>1 DEF TypeOK, Row
  <2>3. Life!Move({x.job}, {"running"}, s)
    BY <1>1, <2>1, <2>2 DEF Life!Move
  <2> QED
    BY <1>1, <2>3 DEF Life!End, Life!Next
<1> QED
  BY <1>2, <1>3

\* A sweep's reclaim is the abstract recovery of the abandoned jobs.
LEMMA RecoversJobs ==
  ASSUME TypeOK, NEW alive, Reclaim(alive)
  PROVE  Life!Next
<1> DEFINE S == {j \in Job : Abandoned(j, alive)}
<1>1. \A j \in Job : row'[j].status = IF j \in S THEN "pending" ELSE row[j].status
  BY DEF Reclaim, TypeOK, Row
<1>2. \A j \in S : row[j].status = "running"
  BY DEF Abandoned
<1>3. Life!Move(S, {"running"}, "pending")
  BY <1>1, <1>2 DEF Life!Move
<1>4. S \in SUBSET Job
  OBVIOUS
<1> QED
  BY <1>3, <1>4 DEF Life!Next

LEMMA StepRefines ==
  ASSUME TypeOK, [Next]_vars
  PROVE  Life!Next \/ UNCHANGED Statuses
<1> USE DEF operators
<1>1. ASSUME NEW j \in Job, KeyFree(j) PROVE Life!KeyFree(j)
  BY <1>1 DEF KeyFree, Life!KeyFree, Live, Life!Live
<1>2. ASSUME NEW j \in Job, Dispatch(j) PROVE Life!Next
  <2>1. row'[j].status = "pending" /\ \A k \in Job \ {j} : row'[k] = row[k]
    BY <1>2 DEF Dispatch, TypeOK, NewRow
  <2>2. Life!Move({j}, {"absent", "dead", "cancelled"}, "pending")
    BY <1>2, <2>1 DEF Dispatch, Life!Move
  <2> QED
    BY <1>1, <1>2, <2>2 DEF Dispatch, Life!Enter, Life!Next
<1>3. ASSUME NEW j \in Job, Retry(j) PROVE Life!Next
  <2>1. row'[j].status = "pending" /\ \A k \in Job \ {j} : row'[k] = row[k]
    BY <1>3 DEF Retry, TypeOK, Row
  <2>2. Life!Move({j}, {"absent", "dead", "cancelled"}, "pending")
    BY <1>3, <2>1 DEF Retry, Life!Move
  <2> QED
    BY <1>1, <1>3, <2>2 DEF Retry, Life!Enter, Life!Next
<1>4. ASSUME NEW j \in Job, Cleanup(j) PROVE Life!Next
  <2>1. row'[j].status = "absent" /\ \A k \in Job \ {j} : row'[k] = row[k]
    BY <1>4 DEF Cleanup, TypeOK, NoRow
  <2>2. Life!Move({j}, {"done", "dead", "cancelled"}, "absent")
    BY <1>4, <2>1 DEF Cleanup, Terminal, Life!Move
  <2> QED
    BY <2>2 DEF Life!Forget, Life!Next
<1>5. ASSUME NEW i \in Instance, NEW j \in Job, Poll(i, j) PROVE Life!Next
  <2>1. row'[j].status = "running" /\ \A k \in Job \ {j} : row'[k] = row[k]
    BY <1>5 DEF Poll, TypeOK
  <2>2. Life!Move({j}, {"pending"}, "running")
    BY <1>5, <2>1 DEF Poll, Claimable, Life!Move
  <2> QED
    BY <2>2 DEF Life!Begin, Life!Next
<1>6. ASSUME NEW i \in Instance, NEW j \in Job, Cancel(i, j) PROVE Life!Next
  <2>1. row'[j].status = "cancelled" /\ \A k \in Job \ {j} : row'[k] = row[k]
    BY <1>6 DEF Cancel, TypeOK, Row
  <2>2. row[j].status \in {"pending", "running"}
    BY <1>6 DEF Cancel, Live
  <2>3. Life!Move({j}, {"pending", "running"}, "cancelled")
    BY <2>1, <2>2 DEF Life!Move
  <2> QED
    BY <2>3 DEF Life!Cancel, Life!Live, Life!Next
<1>7. ASSUME NEW i \in Instance, Start(i) \/ Sweep(i) PROVE Life!Next
  BY <1>7, RecoversJobs DEF Start, Sweep, SweepOwners
<1>8. ASSUME NEW x \in execs, Finish(x) \/ TimeOut(x) PROVE Life!Next \/ UNCHANGED Statuses
  BY <1>8, EndsJob DEF Finish, TimeOut, Failure
<1>9. ASSUME NEW s \in Scope, Purge(s) PROVE Life!Next
  <2> DEFINE S == {j \in Job : row[j].status = "pending" /\ InScope(j, s)}
  <2>1. \A j \in Job : row'[j].status = IF j \in S THEN "absent" ELSE row[j].status
    BY <1>9 DEF Purge, NoRow
  <2>2. Life!Move(S, {"pending"}, "absent")
    BY <2>1 DEF Life!Move
  <2>3. S \in SUBSET Job
    OBVIOUS
  <2> QED
    BY <2>2, <2>3 DEF Life!Next
<1>10. ASSUME NEW i \in Instance, NEW q \in Queue, PollIdle(i, q) PROVE UNCHANGED row
  BY <1>10 DEF PollIdle
<1>11. ASSUME NEW i \in Instance,
              Stop(i) \/ StopEnds(i) \/ Crash(i) \/ Stall(i) \/ Wake(i) \/ Expire(i)
       PROVE  UNCHANGED row
  BY <1>11 DEF Stop, StopEnds, Crash, Stall, Wake, Expire
<1>12. ASSUME NEW x \in execs, OrphanEnds(x) PROVE UNCHANGED row
  BY <1>12 DEF OrphanEnds
<1>13. ASSUME NEW s \in Scope, DrainReports(s) \/ DrainGivesUp(s) PROVE UNCHANGED row
  BY <1>13 DEF DrainReports, DrainGivesUp
<1>14. ASSUME NEW s \in Scope, NEW h \in Holder \union {Null},
              Pause(s, h) \/ Resume(s, h) \/ Drain(s, h)
       PROVE  UNCHANGED row
  BY <1>14 DEF Pause, Resume, Drain
<1>15. UNCHANGED vars => UNCHANGED row
  BY DEF vars
<1>16. UNCHANGED row => UNCHANGED Statuses
  BY DEF Statuses
<1> QED
  BY <1>2, <1>3, <1>4, <1>5, <1>6, <1>7, <1>8, <1>9, <1>10, <1>11, <1>12, <1>13,
     <1>14, <1>15, <1>16
  DEF Next, Attempt, Lifecycle, Operate

\* The queue keeps the promise its dispatchers rely on: under every crash, stall,
\* drain, refused write and operator verb, a job lives the life JobLife states.
THEOREM QueueKeepsItsPromise == Spec => ImplementsJobLife
<1>1. Init => Life!Init
  BY DEF Init, Life!Init, NoRow
<1> QED
  BY <1>1, StepRefines, TypeCorrect, PTL DEF Spec, ImplementsJobLife, Life!Spec, Statuses
=============================================================================
