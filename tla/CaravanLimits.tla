---------------------------- MODULE CaravanLimits ----------------------------
(***************************************************************************)
(* What TLAPS proves of Caravan's two limits, concurrency and maxAttempts. *)
(* The code keeps neither by looking at the handlers: a poll counts the    *)
(* ids in _running, and a completion compares the attempts of the record   *)
(* its claim returned.  Both rest on the fencing of CaravanFencing: an     *)
(* entry is about the attempt that wrote it, and a completion that lands   *)
(* knows the row's own count.                                              *)
(***************************************************************************)
EXTENDS CaravanFencing, FiniteSetTheorems, FunctionTheorems

-----------------------------------------------------------------------------
(* The invariant                                                           *)

\* The ids a worker has in _running.
Busy(i, q) == {k \in Job : QueueOf[k] = q /\ slot[i][k] # 0}

\* The entry of a job is about the attempt the worker has under way.
Tracked(x) == x.open /\ x.fate # "timeout" => slot[x.inst][x.job] = x.run
Entries == \A x \in execs : Tracked(x) /\ x.run # 0

\* Who is entitled to a row knows how often it has been tried.
Counted == \A x \in execs : x.fate = "held" => x.try = row[x.job].tries

Roomy ==
  \A i \in Instance, q \in Queue :
    IsFiniteSet(Busy(i, q)) /\ Cardinality(Busy(i, q)) <= Concurrency

LimitsInv == Entries /\ Counted /\ Roomy

-----------------------------------------------------------------------------
(* What a step does to the attempts                                        *)

\* y is x after a step that neither settled x nor timed it out.
Kept(y, x) ==
  /\ Same(y, x) /\ y.try = x.try
  /\ y.open => x.open
  /\ y.fate = "held" => x.fate = "held"
  /\ x.fate = "timeout" => y.fate = "timeout"

Begun(i, j) ==
  [job |-> j, inst |-> i, run |-> claims[j] + 1, try |-> row[j].tries + 1,
   fate |-> "held", open |-> TRUE, told |-> FALSE]

LEMMA KeptItself == \A x : Kept(x, x)
BY DEF Kept, Same

LEMMA HeardKeeps ==
  ASSUME TypeOK, NEW i \in Instance, NEW q \in Queue, NEW y \in Heard(i, q)
  PROVE  \E x \in execs : Kept(y, x) /\ y.fate = x.fate
<1>1. PICK x \in execs : y = x \/ y = [x EXCEPT !.told = TRUE]
  BY DEF Heard
<1>2. x \in Exec
  BY DEF TypeOK
<1> QED
  BY <1>1, <1>2 DEF Kept, Same, Exec

\* Any step but a claim and a settlement: each attempt there is was there, with
\* its entry if it is still tracked and its row if it is still entitled to it.
Undisturbed(y, x) ==
  /\ Kept(y, x)
  /\ y.open => slot'[x.inst][x.job] = slot[x.inst][x.job]
  /\ y.fate = "held" => row'[x.job].tries = row[x.job].tries

Quiet ==
  /\ \A y \in execs' : \E x \in execs : Undisturbed(y, x)
  /\ \A i \in Instance, k \in Job : slot'[i][k] \in {slot[i][k], 0}

LEMMA QuietSteps ==
  ASSUME TypeOK, Fenced, FencedInv, [Next]_vars,
         ~ \E i \in Instance, j \in Job : Poll(i, j),
         ~ \E x \in execs : Finish(x) \/ TimeOut(x)
  PROVE  Quiet
<1> USE DEF operators
<1>0. \A x \in execs : /\ x \in Exec /\ x.job \in Job /\ x.inst \in Instance
                       /\ x.fate = "held" => row[x.job].status = "running"
  BY DEF TypeOK, Exec, FencedInv, HeldOwnsRow, Holds
<1>1. ASSUME UNCHANGED slot, execs' \subseteq execs,
             \A k \in Job : row[k].status # "running" \/ row'[k].tries = row[k].tries
      PROVE  Quiet
  BY <1>0, <1>1, KeptItself DEF Quiet, Undisturbed
<1>2. ASSUME NEW j \in Job, Dispatch(j) \/ Retry(j) \/ Cleanup(j) PROVE Quiet
  BY <1>1, <1>2 DEF Dispatch, Retry, Cleanup, Terminal, TypeOK
<1>3. ASSUME NEW s \in Scope, Purge(s) PROVE Quiet
  BY <1>1, <1>3 DEF Purge
<1>4. ASSUME NEW i \in Instance, NEW j \in Job, Cancel(i, j) PROVE Quiet
  <2>1. ASSUME NEW y \in execs' PROVE \E x \in execs : Kept(y, x)
    <3>1. PICK x \in execs :
             y = IF x.job # j THEN x
                 ELSE [x EXCEPT !.fate = IF @ = "held" THEN "cancel" ELSE @,
                                !.told = @ \/ (x.inst = i /\ x.open /\ slot[i][j] = x.run)]
      BY <1>4 DEF Cancel
    <3>2. ASSUME NEW f, NEW b, x.fate = "timeout" => f = "timeout", f # "held"
          PROVE  Kept([x EXCEPT !.fate = f, !.told = b], x)
      BY <1>0, <3>2 DEF Exec, Kept, Same
    <3> QED
      BY <1>0, <3>1, <3>2, KeptItself
  <2>2. \A k \in Job : row'[k].tries = row[k].tries
    BY <1>4 DEF Cancel, TypeOK, Row
  <2> QED
    BY <1>0, <1>4, <2>1, <2>2 DEF Quiet, Undisturbed, Cancel
<1>5. ASSUME NEW i \in Instance, NEW q \in Queue, PollIdle(i, q) PROVE Quiet
  BY <1>0, <1>5, HeardKeeps DEF PollIdle, Quiet, Undisturbed
<1>6. ASSUME NEW i \in Instance, Start(i) \/ Sweep(i) PROVE Quiet
  <2>1. Reclaim(lease') /\ UNCHANGED slot
    BY <1>6 DEF Start, Sweep, SweepOwners
  <2>2. \A k \in Job : row'[k].tries = row[k].tries
    BY <2>1 DEF Reclaim, TypeOK, Row
  <2>3. ASSUME NEW y \in execs' PROVE \E x \in execs : Kept(y, x)
    <3>1. PICK x \in execs : y = x \/ (x.fate = "held" /\ y = [x EXCEPT !.fate = "lease"])
      BY <2>1 DEF Reclaim
    <3> QED
      BY <1>0, <3>1, KeptItself DEF Exec, Kept, Same
  <2> QED
    BY <1>0, <2>1, <2>2, <2>3 DEF Quiet, Undisturbed
<1>7. ASSUME NEW i \in Instance, StopEnds(i) PROVE Quiet
  <2>1. \A k \in Instance \ {i} : slot'[k] = slot[k]
    BY <1>7 DEF StopEnds, TypeOK
  <2>2. \A k \in Job : slot'[i][k] = 0
    BY <1>7 DEF StopEnds, TypeOK
  <2>3. ASSUME NEW y \in execs'
        PROVE  \E x \in execs : Kept(y, x) /\ (y.open => x.inst # i)
    <3>1. PICK x \in execs :
             y = IF x.inst = i
                 THEN [x EXCEPT !.told = @ \/ slot[i][x.job] = x.run, !.open = FALSE]
                 ELSE x
      BY <1>7 DEF StopEnds
    <3>2. ASSUME NEW b
          PROVE  LET z == [x EXCEPT !.told = b, !.open = FALSE]
                 IN  Kept(z, x) /\ z.open = FALSE
      BY <1>0 DEF Exec, Kept, Same
    <3> QED
      BY <3>1, <3>2, KeptItself
  <2> QED
    BY <1>0, <1>7, <2>1, <2>2, <2>3 DEF Quiet, Undisturbed, StopEnds
<1>8. ASSUME NEW i \in Instance, Crash(i) PROVE Quiet
  <2>1. \A k \in Instance \ {i} : slot'[k] = slot[k]
    BY <1>8 DEF Crash, TypeOK
  <2>2. \A k \in Job : slot'[i][k] = 0
    BY <1>8 DEF Crash, TypeOK
  <2> QED
    BY <1>0, <1>8, <2>1, <2>2, KeptItself DEF Quiet, Undisturbed, Crash
<1>9. ASSUME NEW i \in Instance, Stop(i) \/ Stall(i) \/ Wake(i) \/ Expire(i) PROVE Quiet
  BY <1>1, <1>9 DEF Stop, Stall, Wake, Expire
<1>10. ASSUME NEW x \in execs, OrphanEnds(x) PROVE Quiet
  BY <1>1, <1>10 DEF OrphanEnds
<1>11. ASSUME NEW s \in Scope, NEW h \in Holder \union {Null},
              DrainReports(s) \/ DrainGivesUp(s) \/ Pause(s, h) \/ Resume(s, h) \/ Drain(s, h)
       PROVE  Quiet
  BY <1>1, <1>11 DEF DrainReports, DrainGivesUp, Pause, Resume, Drain
<1>12. CASE UNCHANGED vars
  BY <1>1, <1>12 DEF vars
<1> QED
  BY <1>2, <1>3, <1>4, <1>5, <1>6, <1>7, <1>8, <1>9, <1>10, <1>11, <1>12
  DEF Next, Attempt, Lifecycle, Operate

-----------------------------------------------------------------------------
(* Every step keeps the invariant                                          *)

LEMMA QuietKeeps ==
  ASSUME TypeOK, LimitsInv, Quiet, execs' \subseteq Exec
  PROVE  LimitsInv'
<1>1. Entries' /\ Counted'
  BY DEF LimitsInv, Entries, Tracked, Counted, Quiet, Undisturbed, Kept, Same
<1>2. Roomy'
  <2> SUFFICES ASSUME NEW i \in Instance, NEW q \in Queue
               PROVE  IsFiniteSet(Busy(i, q)') /\ Cardinality(Busy(i, q)') <= Concurrency
    BY DEF Roomy
  <2>1. IsFiniteSet(Busy(i, q)) /\ Cardinality(Busy(i, q)) <= Concurrency
    BY DEF LimitsInv, Roomy
  <2>2. Busy(i, q)' \subseteq Busy(i, q)
    BY DEF Busy, Quiet
  <2> QED
    BY <2>1, <2>2, FS_Subset, FS_CardinalityType, CaravanAssumption
<1> QED
  BY <1>1, <1>2 DEF LimitsInv

LEMMA RoomForAnother ==
  ASSUME NEW S, IsFiniteSet(S), NEW n \in Nat, Cardinality(S) < n, NEW e
  PROVE  IsFiniteSet(S \union {e}) /\ Cardinality(S \union {e}) <= n
<1>1. Cardinality(S) \in Nat
  BY FS_CardinalityType
<1>2. /\ IsFiniteSet(S \union {e})
      /\ Cardinality(S \union {e}) = IF e \in S THEN Cardinality(S) ELSE Cardinality(S) + 1
  BY FS_AddElement
<1> QED
  BY <1>1, <1>2

\* A worker that begins an attempt had room, and nothing under way for the job.
LEMMA PollKeeps ==
  ASSUME TypeOK, FencedInv, LimitsInv, NEW i \in Instance, NEW j \in Job, Poll(i, j)
  PROVE  LimitsInv'
<1>1. QueueOf[j] \in Queue /\ claims[j] \in Nat /\ row[j].tries \in Nat
  BY CaravanAssumption DEF TypeOK, Row
<1>2. row[j].status = "pending" /\ phase[i] = "up" /\ Room(i, QueueOf[j])
  BY DEF Poll, Claimable
<1>3. /\ \A k \in Job \ {j} : row'[k] = row[k]
      /\ row'[j].tries = row[j].tries + 1
  BY DEF Poll, TypeOK
<1>4. /\ \A n \in Instance, k \in Job : n # i \/ k # j => slot'[n][k] = slot[n][k]
      /\ slot'[i][j] = claims[j] + 1
  BY DEF Poll, TypeOK
<1>5. PICK n : /\ n = Begun(i, j)
               /\ execs' = Heard(i, QueueOf[j]) \union {n}
  BY DEF Poll, Begun
<1>6. ASSUME NEW y \in Heard(i, QueueOf[j])
      PROVE  /\ Tracked(y)' /\ y.run # 0
             /\ y.fate = "held" => y.try = row'[y.job].tries
  <2>1. PICK x \in execs : Kept(y, x) /\ y.fate = x.fate
    BY <1>1, HeardKeeps
  <2>2. x.job \in Job /\ x.inst \in Instance /\ x.fate \in Fate
    BY DEF TypeOK, Exec
  <2>3. x.fate = "held" => x.job # j
    BY <1>2 DEF FencedInv, HeldOwnsRow, Holds
  <2>4. x.open /\ x.fate # "timeout" => ~(x.inst = i /\ x.job = j)
    BY <1>2, <2>2, <2>3 DEF Fate, FencedInv, CancelStays, LapseStays
  <2> QED
    BY <1>3, <1>4, <2>1, <2>2, <2>3, <2>4
    DEF LimitsInv, Entries, Tracked, Counted, Kept, Same
<1>7. Tracked(n)' /\ n.run # 0 /\ n.try = row'[n.job].tries
  BY <1>1, <1>3, <1>4, <1>5 DEF Begun, Tracked
<1>8. Entries' /\ Counted'
  BY <1>5, <1>6, <1>7 DEF Entries, Counted, Tracked
<1>9. Roomy'
  <2> SUFFICES ASSUME NEW m \in Instance, NEW q \in Queue
               PROVE  IsFiniteSet(Busy(m, q)') /\ Cardinality(Busy(m, q)') <= Concurrency
    BY DEF Roomy
  <2>1. IsFiniteSet(Busy(m, q)) /\ Cardinality(Busy(m, q)) <= Concurrency
    BY DEF LimitsInv, Roomy
  <2>2. CASE m = i /\ q = QueueOf[j]
    <3>0. slot'[i][j] # 0
      BY <1>1, <1>4
    <3>1. Busy(m, q)' = Busy(m, q) \union {j}
      <4>1. ASSUME NEW k \in Job, k # j PROVE slot'[i][k] = slot[i][k]
        BY <1>4, <4>1
      <4> QED
        BY <2>2, <3>0, <4>1 DEF Busy
    <3>2. Cardinality(Busy(m, q)) < Concurrency
      BY <1>2, <2>2 DEF Room, Busy
    <3>3. /\ IsFiniteSet(Busy(m, q) \union {j})
          /\ Cardinality(Busy(m, q) \union {j}) <= Concurrency
      <4> Concurrency \in Nat
        BY CaravanAssumption
      <4> QED
        BY <2>1, <3>2, RoomForAnother
    <3> QED
      BY <3>1, <3>3
  <2>3. CASE ~(m = i /\ q = QueueOf[j])
    <3>1. Busy(m, q)' = Busy(m, q)
      BY <1>4, <2>3 DEF Busy
    <3> QED
      BY <2>1, <3>1
  <2> QED
    BY <2>2, <2>3
<1> QED
  BY <1>8, <1>9 DEF LimitsInv

\* The entry an attempt deletes when it ends is its own.
LEMMA SettleKeeps ==
  ASSUME TypeOK, FencedInv, LimitsInv, NEW z \in execs, Finish(z) \/ TimeOut(z)
  PROVE  LimitsInv'
<1> DEFINE o == [z EXCEPT !.fate = "timeout", !.told = TRUE]
<1>1. execs' \subseteq (execs \ {z}) \union {o} /\ z.fate # "timeout" /\ Leave(z)
  BY DEF Finish, TimeOut
<1>2. o.fate = "timeout" /\ o.run = z.run
  BY DEF TypeOK, Exec
<1> HIDE DEF o
<1>3. z.job \in Job /\ z.inst \in Instance
  BY DEF TypeOK, Exec
<1>4. \A i \in Instance, k \in Job :
        slot'[i][k] = IF z.open /\ i = z.inst /\ k = z.job THEN 0 ELSE slot[i][k]
  BY <1>1, <1>3 DEF Leave, TypeOK
<1>5. ASSUME NEW y \in execs \ {z}
      PROVE  Tracked(y)' /\ y.run # 0 /\ (y.fate = "held" => y.try = row'[y.job].tries)
  <2>1. y.job \in Job /\ y.inst \in Instance
    BY DEF TypeOK, Exec
  <2>2. y.open /\ y.fate # "timeout" => ~(z.open /\ y.inst = z.inst /\ y.job = z.job)
    BY <1>1 DEF LimitsInv, Entries, Tracked, FencedInv, RunsDiffer
  <2>3. \E s \in {"done", "dead", "pending"} : Outcome(z, s)
    BY DEF Finish, TimeOut, Failure
  <2>4. y.fate = "held" => row'[y.job] = row[y.job]
    BY <1>1, <2>3, OutcomeSpares
  <2> QED
    BY <1>4, <2>1, <2>2, <2>4 DEF LimitsInv, Entries, Tracked, Counted
<1>6. Entries' /\ Counted'
  BY <1>1, <1>2, <1>5 DEF LimitsInv, Entries, Tracked, Counted
<1>7. Roomy'
  <2> SUFFICES ASSUME NEW i \in Instance, NEW q \in Queue
               PROVE  IsFiniteSet(Busy(i, q)') /\ Cardinality(Busy(i, q)') <= Concurrency
    BY DEF Roomy
  <2>1. IsFiniteSet(Busy(i, q)) /\ Cardinality(Busy(i, q)) <= Concurrency
    BY DEF LimitsInv, Roomy
  <2>2. Busy(i, q)' \subseteq Busy(i, q)
    BY <1>4 DEF Busy
  <2> QED
    BY <2>1, <2>2, FS_Subset, FS_CardinalityType, CaravanAssumption
<1> QED
  BY <1>6, <1>7 DEF LimitsInv

LEMMA LimitsNext ==
  ASSUME TypeOK, TypeOK', Fenced, FencedInv, LimitsInv, [Next]_vars
  PROVE  LimitsInv'
<1>1. CASE \E i \in Instance, j \in Job : Poll(i, j)
  BY <1>1, PollKeeps
<1>2. CASE \E x \in execs : Finish(x) \/ TimeOut(x)
  BY <1>2, SettleKeeps
<1>3. CASE /\ ~ \E i \in Instance, j \in Job : Poll(i, j)
           /\ ~ \E x \in execs : Finish(x) \/ TimeOut(x)
  BY <1>3, QuietSteps, QuietKeeps DEF TypeOK
<1> QED
  BY <1>1, <1>2, <1>3

LEMMA LimitsInit == Init => LimitsInv
<1> SUFFICES ASSUME Init PROVE LimitsInv
  OBVIOUS
<1>1. Entries /\ Counted
  BY DEF Init, Entries, Counted
<1>2. \A i \in Instance, q \in Queue : Busy(i, q) = {}
  BY DEF Init, Busy
<1> QED
  BY <1>1, <1>2, FS_EmptySet, CaravanAssumption DEF LimitsInv, Roomy

LEMMA LimitsAlways ==
  ASSUME Fenced
  PROVE  Spec => []LimitsInv
<1>1. TypeOK /\ TypeOK' /\ FencedInv /\ LimitsInv /\ [Next]_vars => LimitsInv'
  BY LimitsNext
<1> QED
  BY <1>1, LimitsInit, FencedAlways, TypeCorrect, PTL DEF Spec

-----------------------------------------------------------------------------
(* What it gives                                                           *)

\* A worker never has more attempts under way than its concurrency, whatever
\* is cancelled, reclaimed or timed out under it: _running, which is all a poll
\* counts, has an entry for each of them and of no two the same.
THEOREM ConcurrencyIsKept ==
  ASSUME Fenced
  PROVE  Spec => []WithinConcurrency
<1>1. ASSUME TypeOK, FencedInv, LimitsInv PROVE WithinConcurrency
  <2> SUFFICES ASSUME NEW i \in Instance, NEW q \in Queue
               PROVE  Cardinality(Working(i, q)) <= Concurrency
    BY DEF WithinConcurrency
  <2> DEFINE entry == [x \in Working(i, q) |-> x.job]
  <2>1. entry \in [Working(i, q) -> Busy(i, q)]
    BY <1>1 DEF Working, Busy, LimitsInv, Entries, Tracked, TypeOK, Exec
  <2>2. \A x, y \in Working(i, q) : entry[x] = entry[y] => x = y
    BY <1>1 DEF Working, LimitsInv, Entries, Tracked, FencedInv, RunsDiffer
  <2>3. entry \in Injection(Working(i, q), Busy(i, q))
    <3> HIDE DEF entry
    <3> QED
      BY <2>1, <2>2, Fun_IsInj
  <2>4. IsFiniteSet(Busy(i, q)) /\ Cardinality(Busy(i, q)) <= Concurrency
    BY <1>1 DEF LimitsInv, Roomy
  <2>5. IsFiniteSet(Working(i, q)) /\ Cardinality(Working(i, q)) <= Cardinality(Busy(i, q))
    <3> HIDE DEF entry
    <3> QED
      BY <2>3, <2>4, FS_Injection
  <2> QED
    BY <2>4, <2>5, FS_CardinalityType, CaravanAssumption
<1> QED
  BY <1>1, LimitsAlways, FencedAlways, TypeCorrect, PTL

\* maxAttempts: a job that has had them all is queued again by nobody but a
\* reclaim from an owner whose lease has lapsed.  A completion decides by the
\* attempts of its own record, and the one that lands knows the row's.
THEOREM LimitPassedOnlyByReclaim ==
  ASSUME Fenced
  PROVE  Spec => PastLimitByReclaim
<1>1. ASSUME TypeOK, FencedInv, LimitsInv, [Next]_vars, NEW j \in Job,
             row[j].status = "running", row[j].tries >= MaxAttempts,
             row'[j].status = "pending"
      PROVE  row[j].owner \notin lease'
  <2> USE DEF operators
  <2>1. ASSUME NEW i \in Instance, Start(i) \/ Sweep(i) PROVE row[j].owner \notin lease'
    BY <1>1, <2>1 DEF Start, Sweep, SweepOwners, Reclaim, Abandoned
  <2>2. ASSUME NEW z \in execs, NEW s \in {"done", "dead", "pending"}, Outcome(z, s),
               z.fate # "timeout"
        PROVE  s = "pending" /\ z.try >= MaxAttempts
    <3>1. s = "pending" /\ row'[j] # row[j]
      BY <1>1, <2>2, OutcomeMoves
    <3>2. Lands(z) /\ z.job = j
      BY <1>1, <2>2, <3>1 DEF Outcome, TypeOK, Exec
    <3>3. z.fate = "held"
      BY <1>1, <2>2, <3>2, LandsOnOwn
    <3> QED
      BY <1>1, <3>1, <3>2, <3>3 DEF LimitsInv, Counted
  <2>3. ASSUME NEW z \in execs, Finish(z) \/ TimeOut(z) PROVE FALSE
    <3>1. z.fate # "timeout"
      BY <2>3 DEF Finish, TimeOut
    <3>2. ~Outcome(z, "done")
      BY <2>2, <3>1
    <3>3. ASSUME NEW b \in BOOLEAN, Outcome(z, Failure(z, b)) PROVE FALSE
      <4>1. Failure(z, b) = "pending" /\ z.try >= MaxAttempts
        BY <2>2, <3>1, <3>3 DEF Failure
      <4> QED
        BY <4>1 DEF Failure
    <3> QED
      BY <2>3, <3>2, <3>3 DEF Finish, TimeOut
  <2>4. ASSUME NEW k \in Job, Dispatch(k) \/ Retry(k) \/ Cleanup(k) PROVE FALSE
    BY <1>1, <2>4 DEF Dispatch, Retry, Cleanup, NoRow, TypeOK, Terminal
  <2>5. ASSUME NEW i \in Instance, NEW k \in Job, Poll(i, k) PROVE FALSE
    BY <1>1, <2>5 DEF Poll, TypeOK
  <2>6. ASSUME NEW i \in Instance, NEW k \in Job, Cancel(i, k) PROVE FALSE
    BY <1>1, <2>6 DEF Cancel, TypeOK, Row
  <2>7. ASSUME NEW s \in Scope, Purge(s) PROVE FALSE
    BY <1>1, <2>7 DEF Purge
  <2>8. CASE UNCHANGED row
    BY <1>1, <2>8
  <2>9. ASSUME NEW i \in Instance, NEW q \in Queue, PollIdle(i, q) PROVE UNCHANGED row
    BY <2>9 DEF PollIdle
  <2>10. ASSUME NEW i \in Instance,
                Stop(i) \/ StopEnds(i) \/ Crash(i) \/ Stall(i) \/ Wake(i) \/ Expire(i)
         PROVE  UNCHANGED row
    BY <2>10 DEF Stop, StopEnds, Crash, Stall, Wake, Expire
  <2>11. ASSUME NEW z \in execs, OrphanEnds(z) PROVE UNCHANGED row
    BY <2>11 DEF OrphanEnds
  <2>12. ASSUME NEW s \in Scope, NEW h \in Holder \union {Null},
                DrainReports(s) \/ DrainGivesUp(s) \/ Pause(s, h) \/ Resume(s, h) \/ Drain(s, h)
         PROVE  UNCHANGED row
    BY <2>12 DEF DrainReports, DrainGivesUp, Pause, Resume, Drain
  <2>13. CASE UNCHANGED vars
    BY <2>8, <2>13 DEF vars
  <2> QED
    BY <1>1, <2>1, <2>3, <2>4, <2>5, <2>6, <2>7, <2>8, <2>9, <2>10, <2>11, <2>12, <2>13
    DEF Next, Attempt, Lifecycle, Operate
<1>2. TypeOK /\ FencedInv /\ LimitsInv /\ [Next]_vars
        => [\A j \in Job :
              /\ row[j].status = "running" /\ row[j].tries >= MaxAttempts
              /\ row'[j].status = "pending"
              => row[j].owner \notin lease']_vars
  BY <1>1
<1> QED
  BY <1>2, LimitsAlways, FencedAlways, TypeCorrect, PTL DEF Spec, PastLimitByReclaim
=============================================================================
