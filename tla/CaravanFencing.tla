--------------------------- MODULE CaravanFencing ---------------------------
(***************************************************************************)
(* What TLAPS proves of the owner guard.  A row names the instance that    *)
(* claimed it, and a completion lands only while it does.  That fences one *)
(* ATTEMPT off another only as far as no instance can hold two attempts at *)
(* one job, so the theorems state where that is so: no instance stalls     *)
(* past its lease and wakes, and no job is retried or cleaned up under a   *)
(* handler that still runs.  Instances may crash, drain past their lease,  *)
(* and be started again after stop() under the owner id they had.          *)
(***************************************************************************)
EXTENDS CaravanProofs

Fenced ==
  /\ Stalling = {}
  /\ "retry" \notin Verbs /\ "cleanup" \notin Verbs

-----------------------------------------------------------------------------
(* The invariant                                                           *)

\* An instance that is up renews its lease, so nobody reclaims from it.
Beating == \A i \in Instance : phase[i] # "stalled" /\ (phase[i] = "up" => i \in lease)

\* Every attempt came from a claim of an instance that had started.
Claimed == \A x \in execs : phase[x.inst] # "off" /\ x.run <= claims[x.job]

RunsDiffer == \A x, y \in execs : x.job = y.job /\ x.run = y.run => x = y

\* What an attempt lost its row to is still so.
CancelStays == \A x \in execs : x.fate = "cancel" => row[x.job].status = "cancelled"
LapseStays ==
  \A x \in execs : x.fate = "lease" =>
    /\ x.open => phase[x.inst] # "up" /\ row[x.job].owner # x.inst
    /\ Restarting = {} => phase[x.inst] # "up"

\* stop() returns with the worker of every attempt it left behind closed.
Closed == \A x \in execs : phase[x.inst] = "stopped" => ~x.open

FencedInv ==
  /\ Beating /\ Claimed /\ RunsDiffer
  /\ Closed /\ CancelStays /\ LapseStays /\ HeldOwnsRow

-----------------------------------------------------------------------------
(* Attempts that settle                                                    *)

\* An attempt whose outcome reaches its row is the one the row was claimed for.
LEMMA LandsOnOwn ==
  ASSUME TypeOK, FencedInv, NEW x \in execs, x.fate # "timeout", Lands(x)
  PROVE  x.fate = "held" /\ x.run = claims[x.job]
<1>1. x.fate \in Fate
  BY DEF TypeOK, Exec
<1>2. x.fate # "cancel"
  BY DEF FencedInv, CancelStays, Lands, Holds
<1>3. x.fate # "lease"
  BY DEF FencedInv, LapseStays, Lands, Holds
<1> QED
  BY <1>1, <1>2, <1>3 DEF Fate, FencedInv, HeldOwnsRow

\* So it disturbs no other attempt that is entitled to its row, or has lost it.
LEMMA OutcomeSpares ==
  ASSUME TypeOK, FencedInv, NEW x \in execs, x.fate # "timeout",
         NEW s \in {"done", "dead", "pending"}, Outcome(x, s),
         NEW y \in execs, y # x
  PROVE  /\ y.fate = "held" => row'[y.job] = row[y.job]
         /\ y.fate = "cancel" => row'[y.job] = row[y.job]
         /\ y.fate = "lease" /\ y.open => row'[y.job].owner # y.inst
<1>1. x.job \in Job /\ y.job \in Job /\ y.inst \in Instance /\ row[x.job] \in Row
  BY DEF TypeOK, Exec
<1>2. CASE row' = row
  BY <1>2 DEF FencedInv, LapseStays
<1>3. CASE row' # row
  <2>1. Lands(x) /\ row' = [row EXCEPT ![x.job] = [@ EXCEPT !.status = s, !.owner = Null]]
    BY <1>3 DEF Outcome
  <2>2. x.run = claims[x.job] /\ Holds(x.inst, x.job)
    BY <2>1, LandsOnOwn DEF Lands
  <2>3. y.job # x.job => row'[y.job] = row[y.job]
    BY <1>1, <2>1 DEF TypeOK
  <2>4. y.job = x.job => row'[y.job].owner = Null
    BY <1>1, <2>1 DEF TypeOK, Row
  <2>5. ASSUME y.job = x.job PROVE y.fate \notin {"held", "cancel"}
    BY <2>2, <2>5 DEF FencedInv, HeldOwnsRow, RunsDiffer, CancelStays, Holds
  <2> QED
    BY <1>1, <2>3, <2>4, <2>5, CaravanAssumption DEF FencedInv, LapseStays
<1> QED
  BY <1>2, <1>3

-----------------------------------------------------------------------------
(* Every step keeps the invariant                                          *)

LEMMA BeatingNext ==
  ASSUME TypeOK, Fenced, Beating, [Next]_vars
  PROVE  Beating'
<1> USE DEF operators
<1>1. CASE UNCHANGED <<phase, lease>>
  BY <1>1 DEF Beating
<1>2. ASSUME NEW i \in Instance, Start(i) \/ Sweep(i) PROVE Beating'
  BY <1>2 DEF Start, Sweep, SweepOwners, Beating, TypeOK
<1>3. ASSUME NEW i \in Instance, Stop(i) \/ StopEnds(i) \/ Crash(i) PROVE Beating'
  BY <1>3 DEF Stop, StopEnds, Crash, Beating, TypeOK
<1>4. ASSUME NEW i \in Instance, Stall(i) \/ Wake(i) PROVE Beating'
  BY <1>4 DEF Stall, Wake, Fenced, Beating
<1>5. ASSUME NEW i \in Instance, Expire(i) PROVE Beating'
  BY <1>5 DEF Expire, Beating, TypeOK
<1>6. \/ UNCHANGED <<phase, lease>>
      \/ \E i \in Instance : Lifecycle(i)
  BY DEF Next, Attempt, Operate, vars, Dispatch, Retry, Cleanup, Poll, Cancel, PollIdle,
         Finish, TimeOut, OrphanEnds, Purge, DrainReports, DrainGivesUp, Pause, Resume, Drain
<1> QED
  BY <1>1, <1>2, <1>3, <1>4, <1>5, <1>6 DEF Lifecycle

\* What Heard, Reclaim, StopEnds and Cancel do to an attempt leaves it the same
\* attempt of the same job: these are the attempts a step rewrites.
Same(y, x) == y.job = x.job /\ y.inst = x.inst /\ y.run = x.run

\* Claiming: the row was waiting, so no attempt was entitled to it; the new
\* attempt's run number is above every earlier one's.
LEMMA PollFenced ==
  ASSUME TypeOK, FencedInv, NEW i \in Instance, NEW j \in Job, Poll(i, j)
  PROVE  Claimed' /\ RunsDiffer' /\ Closed' /\ CancelStays' /\ LapseStays' /\ HeldOwnsRow'
<1> DEFINE n == [job |-> j, inst |-> i, run |-> claims[j] + 1, try |-> row[j].tries + 1,
                 fate |-> "held", open |-> TRUE, told |-> FALSE]
           h(x) == IF /\ x.inst = i /\ x.open /\ QueueOf[x.job] = QueueOf[j]
                      /\ slot[i][x.job] = x.run /\ ~Holds(i, x.job)
                   THEN [x EXCEPT !.told = TRUE] ELSE x
<1>1. execs' = {h(x) : x \in execs} \union {n}
  BY DEF Poll, Heard
<1>2. \A x \in execs : Same(h(x), x) /\ h(x).fate = x.fate /\ h(x).open = x.open
                       /\ x.job \in Job /\ x.inst \in Instance /\ x.run \in Nat
  BY DEF Same, TypeOK, Exec
<1>0. n.job = j /\ n.inst = i /\ n.run = claims[j] + 1 /\ n.fate = "held"
  OBVIOUS
<1> HIDE DEF h, n
<1>3. row' = [row EXCEPT ![j] = [status |-> "running", owner |-> i, tries |-> @.tries + 1]]
      /\ claims' = [claims EXCEPT ![j] = @ + 1] /\ phase' = phase
  BY DEF Poll
<1>4. row[j].status = "pending" /\ phase[i] = "up" /\ claims[j] \in Nat
  BY DEF Poll, Claimable, TypeOK
<1>5. Claimed'
  BY <1>0, <1>1, <1>2, <1>3, <1>4 DEF Claimed, FencedInv, Same, TypeOK
<1>6. RunsDiffer'
  <2>1. ASSUME NEW x \in execs PROVE ~(h(x).job = j /\ h(x).run = n.run)
    BY <1>0, <1>2, <1>4, <2>1 DEF Same, FencedInv, Claimed, TypeOK
  <2>2. ASSUME NEW x \in execs, NEW y \in execs, h(x).job = h(y).job, h(x).run = h(y).run
        PROVE  x = y
    BY <1>2, <2>2 DEF Same, FencedInv, RunsDiffer
  <2> QED
    BY <1>0, <1>1, <2>1, <2>2 DEF RunsDiffer
<1>7. CancelStays'
  <2>1. ASSUME NEW x \in execs, h(x).fate = "cancel"
        PROVE  row'[h(x).job].status = "cancelled"
    BY <1>2, <1>3, <1>4, <2>1 DEF Same, FencedInv, CancelStays, TypeOK
  <2> QED
    BY <1>0, <1>1, <2>1 DEF CancelStays
<1>8. LapseStays' /\ Closed'
  <2>1. ASSUME NEW x \in execs, h(x).fate = "lease"
        PROVE  /\ x.open => phase[x.inst] # "up" /\ row'[x.job].owner # x.inst
               /\ Restarting = {} => phase[x.inst] # "up"
    BY <1>2, <1>3, <1>4, <2>1 DEF Same, FencedInv, LapseStays, TypeOK
  <2>2. LapseStays'
    BY <1>0, <1>1, <1>2, <1>3, <2>1 DEF Same, LapseStays
  <2>3. Closed'
    BY <1>0, <1>1, <1>2, <1>3, <1>4 DEF Same, FencedInv, Closed
  <2> QED
    BY <2>2, <2>3
<1>9. HeldOwnsRow'
  <2>1. ASSUME NEW x \in execs, h(x).fate = "held"
        PROVE  /\ row'[h(x).job].status = "running" /\ row'[h(x).job].owner = h(x).inst
               /\ h(x).run = claims'[h(x).job]
    <3>1. x.job # j /\ Holds(x.inst, x.job) /\ x.run = claims[x.job]
      BY <1>2, <1>4, <2>1 DEF Same, FencedInv, HeldOwnsRow, Holds
    <3>2. row'[x.job] = row[x.job] /\ claims'[x.job] = claims[x.job]
      BY <1>3, <1>2, <3>1 DEF TypeOK
    <3> QED
      BY <1>2, <3>1, <3>2 DEF Same, Holds
  <2>2. row'[j].status = "running" /\ row'[j].owner = i /\ claims'[j] = claims[j] + 1
    BY <1>3 DEF TypeOK
  <2> QED
    BY <1>0, <1>1, <2>1, <2>2 DEF HeldOwnsRow, Holds
<1> QED
  BY <1>5, <1>6, <1>7, <1>8, <1>9

\* Recovery: only attempts of instances that are not up lose their rows.
LEMMA ReclaimFenced ==
  ASSUME TypeOK, FencedInv, NEW i \in Instance, SweepOwners(i),
         \/ phase' = phase
         \/ /\ phase[i] = "off" \/ (phase[i] = "stopped" /\ i \in Restarting)
            /\ phase' = [phase EXCEPT ![i] = "up"],
         UNCHANGED claims
  PROVE  Claimed' /\ RunsDiffer' /\ Closed' /\ CancelStays' /\ LapseStays' /\ HeldOwnsRow'
<1> DEFINE r(x) == IF Abandoned(x.job, lease') /\ x.fate = "held"
                   THEN [x EXCEPT !.fate = "lease"] ELSE x
<1>1. execs' = {r(x) : x \in execs}
  BY DEF SweepOwners, Reclaim
<1>2. \A x \in execs : Same(r(x), x) /\ r(x).open = x.open
                       /\ x.job \in Job /\ x.inst \in Instance /\ x.run \in Nat
  BY DEF Same, TypeOK, Exec
<1>3. \A x \in execs : r(x).fate = IF Abandoned(x.job, lease') /\ x.fate = "held"
                                   THEN "lease" ELSE x.fate
  BY DEF TypeOK, Exec
<1> HIDE DEF r
<1>4. \A k \in Job : IF Abandoned(k, lease')
                     THEN row'[k].status = "pending" /\ row'[k].owner = Null
                     ELSE row'[k] = row[k]
  BY DEF SweepOwners, Reclaim, TypeOK, Row
<1>5. \A x \in execs :
         \/ phase'[x.inst] = phase[x.inst]
         \/ phase'[x.inst] = "up" /\ ~x.open /\ Restarting # {} /\ x.inst = i
  BY <1>2 DEF FencedInv, Claimed, Closed, TypeOK
<1>6. Claimed' /\ RunsDiffer'
  BY <1>1, <1>2, <1>5 DEF Same, FencedInv, Claimed, RunsDiffer
<1>7. CancelStays'
  BY <1>1, <1>2, <1>3, <1>4 DEF Same, FencedInv, CancelStays, Abandoned
<1>8. LapseStays' /\ Closed'
  <2>1. Closed'
    BY <1>1, <1>2, <1>5 DEF Same, FencedInv, Closed
  <2> SUFFICES ASSUME NEW x \in execs, r(x).fate = "lease"
               PROVE  /\ x.open => phase'[x.inst] # "up" /\ row'[x.job].owner # x.inst
                      /\ Restarting = {} => phase'[x.inst] # "up"
    BY <1>1, <1>2, <2>1 DEF Same, LapseStays
  <2>2. CASE x.fate = "lease"
    BY <1>2, <1>4, <1>5, <2>2, CaravanAssumption DEF FencedInv, LapseStays
  <2>3. CASE x.fate = "held" /\ Abandoned(x.job, lease')
    <3>1. x.inst \notin lease'
      BY <2>3 DEF FencedInv, HeldOwnsRow, Holds, Abandoned
    <3>2. phase[x.inst] # "up" /\ x.inst # i
      BY <1>2, <3>1 DEF SweepOwners, FencedInv, Beating
    <3> QED
      BY <1>2, <1>4, <1>5, <2>3, <3>2, CaravanAssumption
  <2> QED
    BY <1>3, <2>2, <2>3
<1>9. HeldOwnsRow'
  BY <1>1, <1>2, <1>3, <1>4 DEF Same, FencedInv, HeldOwnsRow, Holds
<1> QED
  BY <1>6, <1>7, <1>8, <1>9

\* Cancelling: every attempt that was entitled to the row is so no longer.
LEMMA CancelFenced ==
  ASSUME TypeOK, FencedInv, NEW i \in Instance, NEW j \in Job, Cancel(i, j)
  PROVE  Claimed' /\ RunsDiffer' /\ Closed' /\ CancelStays' /\ LapseStays' /\ HeldOwnsRow'
<1> DEFINE c(x) == IF x.job # j THEN x
                   ELSE [x EXCEPT !.fate = IF @ = "held" THEN "cancel" ELSE @,
                                  !.told = @ \/ (x.inst = i /\ x.open /\ slot[i][j] = x.run)]
<1>1. execs' = {c(x) : x \in execs}
  BY DEF Cancel
<1>2. \A x \in execs : x.job \in Job /\ x.inst \in Instance
  BY DEF TypeOK, Exec
<1>3. ASSUME NEW x \in execs
      PROVE  Same(c(x), x) /\ c(x).open = x.open
             /\ c(x).fate = IF x.job = j /\ x.fate = "held" THEN "cancel" ELSE x.fate
  <2>1. x \in Exec
    BY DEF TypeOK
  <2>2. ASSUME NEW f, NEW b
        PROVE  LET y == [x EXCEPT !.fate = f, !.told = b]
               IN  Same(y, x) /\ y.fate = f /\ y.open = x.open
    BY <2>1 DEF Exec, Same
  <2> QED
    BY <2>2 DEF Same
<1> HIDE DEF c
<1>4. row' = [row EXCEPT ![j].status = "cancelled"] /\ UNCHANGED <<claims, phase>>
  BY DEF Cancel
<1>5. \A k \in Job : row'[k].owner = row[k].owner /\ (k # j => row'[k] = row[k])
  BY <1>4 DEF TypeOK, Row
<1>6. row'[j].status = "cancelled"
  BY <1>4 DEF TypeOK, Row
<1>7. Claimed' /\ RunsDiffer'
  BY <1>1, <1>3, <1>4 DEF Same, FencedInv, Claimed, RunsDiffer
<1>8. CancelStays' /\ LapseStays' /\ Closed'
  BY <1>1, <1>2, <1>3, <1>4, <1>5, <1>6
  DEF Same, FencedInv, CancelStays, LapseStays, Closed
<1>9. HeldOwnsRow'
  BY <1>1, <1>2, <1>3, <1>4, <1>5 DEF Same, FencedInv, HeldOwnsRow, Holds
<1> QED
  BY <1>7, <1>8, <1>9

\* Settling and timing out: the outcome lands on nobody else's row.
LEMMA SettleFenced ==
  ASSUME TypeOK, FencedInv, NEW x \in execs, Finish(x) \/ TimeOut(x)
  PROVE  Claimed' /\ RunsDiffer' /\ Closed' /\ CancelStays' /\ LapseStays' /\ HeldOwnsRow'
<1> DEFINE o == [x EXCEPT !.fate = "timeout", !.told = TRUE]
<1>1. execs' \subseteq (execs \ {x}) \union {o} /\ UNCHANGED <<claims, phase>>
  BY DEF Finish, TimeOut
<1>2. Same(o, x) /\ o.fate = "timeout" /\ o.open = x.open
  BY DEF TypeOK, Exec, Same
<1> HIDE DEF o
<1>3. ASSUME NEW y \in execs, y # x
      PROVE  /\ y.fate = "held" => row'[y.job] = row[y.job]
             /\ y.fate = "cancel" => row'[y.job] = row[y.job]
             /\ y.fate = "lease" /\ y.open => row'[y.job].owner # y.inst
  <2>1. x.fate # "timeout" /\ \E s \in {"done", "dead", "pending"} : Outcome(x, s)
    BY DEF Finish, TimeOut, Failure
  <2> QED
    BY <1>3, <2>1, OutcomeSpares
<1>4. Claimed' /\ RunsDiffer'
  BY <1>1, <1>2 DEF Same, FencedInv, Claimed, RunsDiffer
<1>5. CancelStays' /\ LapseStays' /\ Closed'
  BY <1>1, <1>2, <1>3 DEF Same, FencedInv, CancelStays, LapseStays, Closed
<1>6. HeldOwnsRow'
  BY <1>1, <1>2, <1>3 DEF FencedInv, HeldOwnsRow, Holds
<1> QED
  BY <1>4, <1>5, <1>6

LEMMA FencedNext ==
  ASSUME TypeOK, Fenced, FencedInv, [Next]_vars
  PROVE  FencedInv'
<1> USE DEF operators
<1> DEFINE Rest == Claimed /\ RunsDiffer /\ Closed /\ CancelStays /\ LapseStays /\ HeldOwnsRow
<1>1. Beating'
  BY BeatingNext DEF FencedInv
<1>2. Rest
  BY DEF FencedInv
\* Steps that leave every attempt, and the row of every attempted job, alone.
<1>3. ASSUME UNCHANGED <<execs, claims, phase>>,
             \A k \in Job : row[k].status \in {"absent", "pending"} \/ row'[k] = row[k],
             \A k \in Job : row'[k].owner \in {Null, row[k].owner}
      PROVE  Rest'
  <2>1. \A x \in execs : x.job \in Job /\ x.inst # Null
    BY CaravanAssumption DEF TypeOK, Exec
  <2>2. CancelStays' /\ HeldOwnsRow'
    BY <1>2, <1>3, <2>1 DEF CancelStays, HeldOwnsRow, Holds
  <2>3. LapseStays'
    BY <1>2, <1>3, <2>1 DEF LapseStays
  <2> QED
    BY <1>2, <1>3, <2>2, <2>3 DEF Claimed, RunsDiffer, Closed
<1>4. ASSUME NEW j \in Job, Dispatch(j) PROVE Rest'
  BY <1>3, <1>4 DEF Dispatch, NewRow, TypeOK
<1>5. ASSUME NEW j \in Job, Retry(j) \/ Cleanup(j) PROVE Rest'
  BY <1>5 DEF Retry, Cleanup, Fenced
<1>6. ASSUME NEW i \in Instance, NEW j \in Job, Poll(i, j) PROVE Rest'
  BY <1>6, PollFenced
<1>7. ASSUME NEW i \in Instance, NEW j \in Job, Cancel(i, j) PROVE Rest'
  BY <1>7, CancelFenced
\* Steps that drop attempts, or change only whether they are open and told.
<1>8. ASSUME UNCHANGED <<row, claims>>,
             NEW f, \A x \in execs : Same(f[x], x) /\ f[x].fate = x.fate
                                     /\ (f[x].open => x.open),
             execs' \subseteq {f[x] : x \in execs},
             \A x \in execs : f[x] \in execs' =>
               /\ phase'[x.inst] # "off"
               /\ phase'[x.inst] = "up" => phase[x.inst] = "up"
               /\ phase'[x.inst] = "stopped" => phase[x.inst] = "stopped" \/ ~f[x].open
      PROVE  Rest'
  <2>1. RunsDiffer'
    BY <1>2, <1>8 DEF Same, RunsDiffer
  <2>2. Claimed' /\ Closed' /\ CancelStays' /\ LapseStays'
    BY <1>2, <1>8 DEF Same, Claimed, Closed, CancelStays, LapseStays
  <2>3. HeldOwnsRow'
    BY <1>2, <1>8 DEF Same, HeldOwnsRow, Holds
  <2> QED
    BY <2>1, <2>2, <2>3
<1>9. ASSUME UNCHANGED <<row, claims>>, execs' \subseteq execs,
             \A x \in execs' :
               /\ phase'[x.inst] # "off"
               /\ phase'[x.inst] \in {"up", "stopped"} => phase[x.inst] = phase'[x.inst]
      PROVE  Rest'
  <2>1. RunsDiffer' /\ Claimed' /\ Closed' /\ CancelStays' /\ LapseStays'
    BY <1>2, <1>9 DEF RunsDiffer, Claimed, Closed, CancelStays, LapseStays
  <2>2. HeldOwnsRow'
    BY <1>2, <1>9 DEF HeldOwnsRow, Holds
  <2> QED
    BY <2>1, <2>2
<1>10. ASSUME NEW i \in Instance, NEW q \in Queue, PollIdle(i, q) PROVE Rest'
  <2> DEFINE f == [x \in execs |->
                    IF /\ x.inst = i /\ x.open /\ QueueOf[x.job] = q
                       /\ slot[i][x.job] = x.run /\ ~Holds(i, x.job)
                    THEN [x EXCEPT !.told = TRUE] ELSE x]
  <2>1. execs' = {f[x] : x \in execs} /\ UNCHANGED <<row, claims, phase>>
    BY <1>10 DEF PollIdle, Heard
  <2>2. \A x \in execs : Same(f[x], x) /\ f[x].fate = x.fate /\ f[x].open = x.open
    BY DEF TypeOK, Exec, Same
  <2>3. \A x \in execs : phase'[x.inst] # "off" /\ phase'[x.inst] = phase[x.inst]
    BY <1>2, <2>1 DEF Claimed
  <2> HIDE DEF f
  <2> QED
    BY <1>8, <2>1, <2>2, <2>3
<1>11. ASSUME NEW i \in Instance, Start(i) \/ Sweep(i) PROVE Rest'
  BY <1>11, ReclaimFenced DEF Start, Sweep, Fenced
<1>12. ASSUME NEW i \in Instance, StopEnds(i) PROVE Rest'
  <2> DEFINE f == [x \in execs |->
                    IF x.inst = i
                    THEN [x EXCEPT !.told = @ \/ slot[i][x.job] = x.run, !.open = FALSE]
                    ELSE x]
  <2>1. execs' = {f[x] : x \in execs} /\ UNCHANGED <<row, claims>>
        /\ phase' = [phase EXCEPT ![i] = "stopped"]
    BY <1>12 DEF StopEnds
  <2>2. ASSUME NEW x \in execs
        PROVE  /\ Same(f[x], x) /\ f[x].fate = x.fate
               /\ f[x].open = (x.open /\ x.inst # i)
    <3>1. x \in Exec
      BY DEF TypeOK
    <3>2. ASSUME NEW b
          PROVE  LET y == [x EXCEPT !.told = b, !.open = FALSE]
                 IN  Same(y, x) /\ y.fate = x.fate /\ y.open = FALSE
      BY <3>1 DEF Exec, Same
    <3> QED
      BY <3>1, <3>2 DEF Same, Exec
  <2>3. \A x \in execs : /\ phase'[x.inst] # "off"
                         /\ phase'[x.inst] = "up" => phase[x.inst] = "up"
                         /\ phase'[x.inst] = "stopped" => phase[x.inst] = "stopped" \/ x.inst = i
    BY <1>2, <2>1 DEF Claimed, TypeOK, Exec
  <2> HIDE DEF f
  <2> QED
    BY <1>8, <2>1, <2>2, <2>3
<1>13. ASSUME NEW i \in Instance, Stop(i) \/ Crash(i) PROVE Rest'
  <2>1. execs' \subseteq execs /\ UNCHANGED <<row, claims>>
    BY <1>13 DEF Stop, Crash
  <2>2. \A x \in execs' : phase'[x.inst] # "off"
                          /\ (phase'[x.inst] \in {"up", "stopped"} => phase[x.inst] = phase'[x.inst])
    BY <1>2, <1>13, <2>1 DEF Stop, Crash, Claimed, TypeOK, Exec
  <2> QED
    BY <1>9, <2>1, <2>2
<1>14. ASSUME NEW i \in Instance, Stall(i) \/ Wake(i) PROVE Rest'
  BY <1>14 DEF Stall, Wake, Fenced, FencedInv, Beating
<1>15. ASSUME UNCHANGED <<row, claims, execs, phase>> PROVE Rest'
  BY <1>2, <1>9, <1>15 DEF Claimed
<1>16. ASSUME NEW i \in Instance, Expire(i) PROVE Rest'
  BY <1>15, <1>16 DEF Expire
<1>17. ASSUME NEW x \in execs, Finish(x) \/ TimeOut(x) PROVE Rest'
  BY <1>17, SettleFenced
<1>18. ASSUME NEW x \in execs, OrphanEnds(x) PROVE Rest'
  <2>1. execs' \subseteq execs /\ UNCHANGED <<row, claims, phase>>
    BY <1>18 DEF OrphanEnds
  <2> QED
    BY <1>2, <1>9, <2>1 DEF Claimed
<1>19. ASSUME NEW s \in Scope, Purge(s) PROVE Rest'
  <2>1. \A k \in Job : row[k].status \in {"absent", "pending"} \/ row'[k] = row[k]
    BY <1>19 DEF Purge
  <2>2. \A k \in Job : row'[k].owner \in {Null, row[k].owner}
    BY <1>19 DEF Purge, NoRow
  <2> QED
    BY <1>3, <1>19, <2>1, <2>2 DEF Purge
<1>20. ASSUME NEW s \in Scope, DrainReports(s) \/ DrainGivesUp(s) PROVE Rest'
  BY <1>15, <1>20 DEF DrainReports, DrainGivesUp
<1>21. ASSUME NEW s \in Scope, NEW h \in Holder \union {Null},
              Pause(s, h) \/ Resume(s, h) \/ Drain(s, h)
       PROVE  Rest'
  BY <1>15, <1>21 DEF Pause, Resume, Drain
<1>22. ASSUME UNCHANGED vars PROVE Rest'
  BY <1>15, <1>22 DEF vars
<1> HIDE DEF Rest
<1>23. Rest'
  BY <1>4, <1>5, <1>6, <1>7, <1>10, <1>11, <1>12, <1>13, <1>14, <1>16, <1>17, <1>18,
     <1>19, <1>20, <1>21, <1>22
  DEF Next, Attempt, Lifecycle, Operate
<1> QED
  BY <1>1, <1>23 DEF Rest, FencedInv

-----------------------------------------------------------------------------
(* What it gives                                                           *)

LEMMA FencedInit == Init => FencedInv
BY DEF Init, FencedInv, Beating, Claimed, RunsDiffer, Closed, CancelStays, LapseStays, HeldOwnsRow

LEMMA FencedAlways ==
  ASSUME Fenced
  PROVE  Spec => []FencedInv
<1>1. TypeOK /\ FencedInv /\ [Next]_vars => FencedInv'
  BY FencedNext
<1> QED
  BY <1>1, FencedInit, TypeCorrect, PTL DEF Spec

\* An attempt that nobody cancelled, reclaimed or timed out keeps its row until
\* it settles: no other attempt's completion can take it.
THEOREM HeldRowsAreKept ==
  ASSUME Fenced
  PROVE  Spec => []HeldOwnsRow
<1>1. FencedInv => HeldOwnsRow
  BY DEF FencedInv
<1> QED
  BY <1>1, FencedAlways, PTL

\* FJS-294 for any number of instances and jobs: two handlers run one job at
\* once only if one of them was timed out, cancelled, or outlived its lease.
\* A handler left behind by stop() runs on in an instance that start() brings
\* up again, beside the attempt that replaced it, so here nothing restarts.
THEOREM NoHandlerRunsTwice ==
  ASSUME Fenced, Restarting = {}
  PROVE  Spec => []NoDoubleRun
<1>1. FencedInv => NoDoubleRun
  BY DEF FencedInv, HeldOwnsRow, RunsDiffer, LapseStays, NoDoubleRun, Entitled
<1> QED
  BY <1>1, FencedAlways, PTL

\* A step that changes a row while an attempt at it goes on has not settled it.
LEMMA GoesOn ==
  ASSUME TypeOK, NEW x \in execs, x.fate # "timeout", NEW y \in execs',
         Same(y, x), y.fate # "timeout"
  PROVE  ~Settled(x)
BY DEF Settled, Same

\* worker.ts: the guard keeps a late completion off the attempt that replaced
\* it.  Where no job is retried or cleaned up and no instance wakes from a stall,
\* only the attempt a row was claimed for ever writes its outcome there.
THEOREM LateCompletionsMiss ==
  ASSUME Fenced
  PROVE  Spec => LandsOnOwnAttempt
<1>1. ASSUME TypeOK, FencedInv, [Next]_vars,
             NEW x \in execs, Settled(x), x.fate # "timeout", row'[x.job] # row[x.job]
      PROVE  x.run = claims[x.job]
  <2> USE DEF operators
  <2>1. ASSUME NEW z \in execs, Finish(z) \/ TimeOut(z) PROVE x.run = claims[x.job]
    <3>1. z = x
      <4>1. x \in execs' \/ z = x
        BY <2>1 DEF Finish, TimeOut
      <4> QED
        BY <1>1, <4>1, GoesOn DEF Same
    <3>2. Lands(x)
      BY <1>1, <2>1, <3>1 DEF Finish, TimeOut, Outcome
    <3> QED
      BY <1>1, <3>2, LandsOnOwn
  <2>2. ASSUME UNCHANGED execs PROVE FALSE
    BY <1>1, <2>2, GoesOn DEF Same
  <2>3. ASSUME NEW j \in Job, Dispatch(j) \/ Retry(j) \/ Cleanup(j) PROVE FALSE
    BY <2>2, <2>3 DEF Dispatch, Retry, Cleanup
  <2>4. ASSUME NEW i \in Instance, NEW j \in Job, Poll(i, j) PROVE FALSE
    <3>1. PICK y \in execs' : Same(y, x) /\ y.fate = x.fate
      <4>1. x \in execs' \/ [x EXCEPT !.told = TRUE] \in execs'
        BY <2>4 DEF Poll, Heard
      <4> QED
        BY <1>1, <4>1 DEF Same, TypeOK, Exec
    <3> QED
      BY <1>1, <3>1, GoesOn
  <2>5. ASSUME NEW i \in Instance, NEW j \in Job, Cancel(i, j) PROVE FALSE
    <3> DEFINE t == x.told \/ (x.inst = i /\ x.open /\ slot[i][j] = x.run)
               g == IF x.fate = "held" THEN "cancel" ELSE x.fate
               c == [x EXCEPT !.fate = g, !.told = t]
    <3>1. x \in execs' \/ c \in execs'
      BY <2>5 DEF Cancel
    <3>2. Same(c, x) /\ c.fate = g
      <4>1. x \in Exec
        BY <1>1 DEF TypeOK
      <4> HIDE DEF t, g
      <4> QED
        BY <4>1 DEF Exec, Same
    <3>3. g # "timeout"
      BY <1>1
    <3> HIDE DEF c, g
    <3> QED
      BY <1>1, <3>1, <3>2, <3>3, GoesOn DEF Same
  <2>6. ASSUME NEW i \in Instance, SweepOwners(i) PROVE FALSE
    <3>1. x \in execs' \/ [x EXCEPT !.fate = "lease"] \in execs'
      BY <2>6 DEF SweepOwners, Reclaim
    <3>2. LET r == [x EXCEPT !.fate = "lease"] IN Same(r, x) /\ r.fate = "lease"
      BY <1>1 DEF Same, TypeOK, Exec
    <3> QED
      BY <1>1, <3>1, <3>2, GoesOn DEF Same
  <2>7. ASSUME NEW s \in Scope, Purge(s) PROVE FALSE
    BY <2>2, <2>7 DEF Purge
  <2>8. ASSUME UNCHANGED row PROVE FALSE
    BY <1>1, <2>8
  <2>9. ASSUME NEW i \in Instance, NEW q \in Queue, PollIdle(i, q) PROVE FALSE
    BY <2>8, <2>9 DEF PollIdle
  <2>10. ASSUME NEW i \in Instance, Lifecycle(i) PROVE FALSE
    BY <2>6, <2>8, <2>10 DEF Lifecycle, Start, Sweep, Stop, StopEnds, Crash, Stall, Wake, Expire
  <2>11. ASSUME NEW z \in execs, OrphanEnds(z) PROVE FALSE
    BY <2>8, <2>11 DEF OrphanEnds
  <2>12. ASSUME NEW s \in Scope, NEW h \in Holder \union {Null},
                DrainReports(s) \/ DrainGivesUp(s) \/ Pause(s, h) \/ Resume(s, h) \/ Drain(s, h)
         PROVE  FALSE
    BY <2>8, <2>12 DEF DrainReports, DrainGivesUp, Pause, Resume, Drain
  <2>13. ASSUME UNCHANGED vars PROVE FALSE
    BY <2>8, <2>13 DEF vars
  <2> QED
    BY <1>1, <2>1, <2>3, <2>4, <2>5, <2>7, <2>9, <2>10, <2>11, <2>12, <2>13
    DEF Next, Attempt, Operate
<1>2. TypeOK /\ FencedInv /\ [Next]_vars
        => [\A x \in execs :
              Settled(x) /\ x.fate # "timeout" /\ row'[x.job] # row[x.job]
                => x.run = claims[x.job]]_vars
  BY <1>1
<1> QED
  BY <1>2, FencedAlways, TypeCorrect, PTL DEF Spec, LandsOnOwnAttempt

-----------------------------------------------------------------------------
(* A heartbeating owner is executing its rows                              *)

\* Where SQLite refuses no completion and nobody is started again after stop().
Recorded == Refused = {} /\ Restarting = {}

OwnerStarted ==
  \A j \in Job : row[j].status = "running" => row[j].owner \in Instance /\ phase[row[j].owner] # "off"

Beats == {"up", "stalled", "draining"}
Runs(x, j) ==
  x.job = j /\ x.inst = row[j].owner /\ x.run = claims[j] /\ x.open /\ x.fate # "timeout"

LEMMA OwnerStartedNext ==
  ASSUME TypeOK, OwnerStarted, [Next]_vars
  PROVE  OwnerStarted'
<1> USE DEF operators
<1>1. ASSUME \A k \in Job : row'[k].status = "running" => row'[k] = row[k],
             \A i \in Instance : phase[i] # "off" => phase'[i] # "off"
      PROVE  OwnerStarted'
  BY <1>1 DEF OwnerStarted
<1>2. \A i \in Instance : phase[i] # "off" => phase'[i] # "off"
  BY DEF Next, Attempt, Operate, Lifecycle, vars, Dispatch, Retry, Cleanup, Poll, Cancel,
         PollIdle, Start, Sweep, Stop, StopEnds, Crash, Stall, Wake, Expire, Finish, TimeOut,
         OrphanEnds, Purge, DrainReports, DrainGivesUp, Pause, Resume, Drain, TypeOK
<1>3. ASSUME NEW i \in Instance, NEW j \in Job, Poll(i, j) PROVE OwnerStarted'
  BY <1>3 DEF Poll, OwnerStarted, TypeOK
<1>4. ASSUME NEW x \in execs, Finish(x) \/ TimeOut(x) PROVE OwnerStarted'
  <2>1. \E s \in {"done", "dead", "pending"} : Outcome(x, s)
    BY <1>4 DEF Finish, TimeOut, Failure
  <2> QED
    BY <1>1, <1>2, <2>1, OutcomeMoves
<1>5. ASSUME NEW i \in Instance, Start(i) \/ Sweep(i) PROVE OwnerStarted'
  BY <1>1, <1>2, <1>5, ReclaimMoves DEF Start, Sweep, SweepOwners
<1>6. ASSUME NEW j \in Job, Dispatch(j) \/ Cleanup(j) PROVE OwnerStarted'
  BY <1>1, <1>2, <1>6 DEF Dispatch, Cleanup, NewRow, NoRow, TypeOK
<1>7. ASSUME NEW j \in Job, Retry(j) PROVE OwnerStarted'
  <2>1. [row[j] EXCEPT !.status = "pending", !.tries = 0].status = "pending"
    BY DEF TypeOK, Row
  <2> QED
    BY <1>1, <1>2, <1>7, <2>1 DEF Retry, TypeOK
<1>8. ASSUME NEW i \in Instance, NEW j \in Job, Cancel(i, j) PROVE OwnerStarted'
  BY <1>1, <1>2, <1>8 DEF Cancel, TypeOK, Row
<1>9. ASSUME NEW s \in Scope, Purge(s) PROVE OwnerStarted'
  BY <1>1, <1>2, <1>9 DEF Purge, NoRow
<1>10. CASE UNCHANGED row
  BY <1>1, <1>2, <1>10
<1> QED
  BY <1>3, <1>4, <1>5, <1>6, <1>7, <1>8, <1>9, <1>10
  DEF Next, Attempt, Operate, Lifecycle, vars, PollIdle, Stop, StopEnds, Crash, Stall, Wake,
      Expire, OrphanEnds, DrainReports, DrainGivesUp, Pause, Resume, Drain

LEMMA RunningNext ==
  ASSUME Recorded, TypeOK, OwnerStarted, RunningIsExecuted, [Next]_vars,
         NEW j \in Job, row'[j].status = "running", phase'[row'[j].owner] \in Beats
  PROVE  \E y \in execs' : /\ y.job = j /\ y.inst = row'[j].owner /\ y.run = claims'[j]
                           /\ y.open /\ y.fate # "timeout"
<1> USE DEF operators
<1> DEFINE Goal == \E y \in execs' : /\ y.job = j /\ y.inst = row'[j].owner
                                     /\ y.run = claims'[j] /\ y.open /\ y.fate # "timeout"
\* The row stood, so its handler ran before the step: does it still?
<1>1. ASSUME row'[j] = row[j], claims'[j] = claims[j], phase[row[j].owner] \in Beats,
             \A x \in execs : Runs(x, j) =>
                \E y \in execs' : Same(y, x) /\ y.open = x.open /\ y.fate = x.fate
      PROVE  Goal
  <2>1. PICK x \in execs : Runs(x, j)
    BY <1>1 DEF RunningIsExecuted, Runs, Beats
  <2> QED
    BY <1>1, <2>1 DEF Same, Runs
<1>2. ASSUME row'[j] = row[j], UNCHANGED <<claims, execs, phase>> PROVE Goal
  BY <1>1, <1>2 DEF Same
<1>3. ASSUME NEW k \in Job, Dispatch(k) \/ Cleanup(k) PROVE Goal
  BY <1>2, <1>3 DEF Dispatch, Cleanup, NewRow, NoRow, TypeOK
<1>4. ASSUME NEW k \in Job, Retry(k) PROVE Goal
  <2>1. [row[k] EXCEPT !.status = "pending", !.tries = 0].status = "pending"
    BY DEF TypeOK, Row
  <2> QED
    BY <1>2, <1>4, <2>1 DEF Retry, TypeOK
<1>5. ASSUME NEW s \in Scope, Purge(s) PROVE Goal
  BY <1>2, <1>5 DEF Purge, NoRow
<1>6. ASSUME NEW i \in Instance, NEW k \in Job, Cancel(i, k) PROVE Goal
  <2>1. k # j
    BY <1>6 DEF Cancel, TypeOK, Row
  <2>2. \A x \in execs : Runs(x, j) => x \in execs'
    BY <1>6, <2>1 DEF Cancel, Runs
  <2> QED
    BY <1>1, <1>6, <2>1, <2>2 DEF Cancel, TypeOK, Same
<1>7. ASSUME NEW i \in Instance, NEW q \in Queue, NEW x \in execs, Heard(i, q) \subseteq execs'
      PROVE  \E y \in execs' : Same(y, x) /\ y.open = x.open /\ y.fate = x.fate
  <2>1. x \in execs' \/ [x EXCEPT !.told = TRUE] \in execs'
    BY <1>7 DEF Heard
  <2> QED
    BY <2>1 DEF Same, TypeOK, Exec
<1>8. ASSUME NEW i \in Instance, NEW q \in Queue, PollIdle(i, q) PROVE Goal
  BY <1>1, <1>7, <1>8 DEF PollIdle
<1>9. ASSUME NEW i \in Instance, NEW k \in Job, Poll(i, k) PROVE Goal
  <2>1. CASE k = j
    <3> DEFINE n == [job |-> j, inst |-> i, run |-> claims[j] + 1, try |-> row[j].tries + 1,
                     fate |-> "held", open |-> TRUE, told |-> FALSE]
    <3>1. n \in execs'
      BY <1>9, <2>1 DEF Poll
    <3>2. row'[j].owner = i /\ claims'[j] = claims[j] + 1
      BY <1>9, <2>1 DEF Poll, TypeOK
    <3> QED
      BY <3>1, <3>2
  <2>2. CASE k # j
    <3>1. QueueOf[k] \in Queue /\ Heard(i, QueueOf[k]) \subseteq execs'
      BY <1>9, CaravanAssumption DEF Poll
    <3>2. row'[j] = row[j] /\ claims'[j] = claims[j] /\ phase' = phase
      BY <1>9, <2>2 DEF Poll, TypeOK
    <3> QED
      BY <1>1, <1>7, <3>1, <3>2
  <2> QED
    BY <2>1, <2>2
<1>10. ASSUME NEW i \in Instance, Start(i) \/ Sweep(i) PROVE Goal
  <2>1. Reclaim(lease') /\ UNCHANGED claims
    BY <1>10 DEF Start, Sweep, SweepOwners
  <2>2. row'[j] = row[j] /\ ~Abandoned(j, lease')
    BY <2>1 DEF Reclaim, Abandoned, TypeOK, Row
  <2>3. row[j].owner \in Instance /\ phase[row[j].owner] # "off"
    BY <2>2 DEF OwnerStarted
  <2>4. phase[row[j].owner] \in Beats
    BY <1>10, <2>2, <2>3 DEF Start, Sweep, Recorded, Beats, TypeOK
  <2>5. \A x \in execs : Runs(x, j) => x \in execs'
    BY <2>1, <2>2 DEF Reclaim, Runs
  <2> QED
    BY <1>1, <2>1, <2>2, <2>4, <2>5 DEF Same
<1>11. ASSUME NEW i \in Instance, Stop(i) \/ Stall(i) \/ Wake(i) PROVE Goal
  <2>1. UNCHANGED <<row, claims, execs>>
    BY <1>11 DEF Stop, Stall, Wake
  <2>2. row[j].owner \in Instance
    BY <2>1 DEF OwnerStarted
  <2>3. phase[row[j].owner] \in Beats
    BY <1>11, <2>1, <2>2 DEF Stop, Stall, Wake, Beats, TypeOK
  <2> QED
    BY <1>1, <2>1, <2>3 DEF Same
<1>12. ASSUME NEW i \in Instance, StopEnds(i) \/ Crash(i) PROVE Goal
  <2>1. UNCHANGED <<row, claims>>
    BY <1>12 DEF StopEnds, Crash
  <2>2. row[j].owner \in Instance
    BY <2>1 DEF OwnerStarted
  <2>3. row[j].owner # i /\ phase[row[j].owner] \in Beats
    BY <1>12, <2>1, <2>2 DEF StopEnds, Crash, Beats, TypeOK
  <2>4. \A x \in execs : x.inst # i => x \in execs'
    BY <1>12 DEF StopEnds, Crash
  <2> QED
    BY <1>1, <2>1, <2>3, <2>4 DEF Same, Runs
<1>13. ASSUME NEW z \in execs, Finish(z) \/ TimeOut(z) PROVE Goal
  <2>1. UNCHANGED <<claims, phase>> /\ execs \ {z} \subseteq execs'
    BY <1>13 DEF Finish, TimeOut
  <2>2. PICK s \in {"done", "dead", "pending"} : Outcome(z, s)
    BY <1>13 DEF Finish, TimeOut, Failure
  <2>3. row'[j] = row[j]
    BY <2>2, OutcomeMoves
  <2>4. ASSUME Runs(z, j) PROVE FALSE
    <3>1. Lands(z)
      BY <2>3, <2>4 DEF Runs, Lands, Holds
    <3>2. z.job \in Job /\ row[z.job] \in Row
      BY DEF TypeOK, Exec
    <3>3. z.inst \notin Refused
      BY DEF Recorded
    <3>4. row' = [row EXCEPT ![z.job] = [@ EXCEPT !.status = s, !.owner = Null]]
      BY <2>2, <3>1, <3>3 DEF Outcome
    <3>5. row'[z.job] = [row[z.job] EXCEPT !.status = s, !.owner = Null]
      BY <3>2, <3>4 DEF TypeOK
    <3>6. row'[z.job].status = s
      BY <3>2, <3>5 DEF Row
    <3> QED
      BY <2>4, <3>6 DEF Runs
  <2> QED
    BY <1>1, <2>1, <2>3, <2>4 DEF Same
<1>14. ASSUME NEW z \in execs, OrphanEnds(z) PROVE Goal
  BY <1>1, <1>14 DEF OrphanEnds, Runs, Same
<1>15. ASSUME NEW i \in Instance, Expire(i) PROVE Goal
  BY <1>2, <1>15 DEF Expire
<1>16. ASSUME NEW s \in Scope, NEW h \in Holder \union {Null},
              DrainReports(s) \/ DrainGivesUp(s) \/ Pause(s, h) \/ Resume(s, h) \/ Drain(s, h)
       PROVE  Goal
  BY <1>2, <1>16 DEF DrainReports, DrainGivesUp, Pause, Resume, Drain
<1>17. ASSUME UNCHANGED vars PROVE Goal
  BY <1>2, <1>17 DEF vars
<1> HIDE DEF Goal
<1>18. Goal
  BY <1>3, <1>4, <1>5, <1>6, <1>8, <1>9, <1>10, <1>11, <1>12, <1>13, <1>14, <1>15, <1>16, <1>17
  DEF Next, Attempt, Operate, Lifecycle
<1> QED
  BY <1>18 DEF Goal

\* job_owners: a running row whose owner is heartbeating is being executed, by
\* the handler its latest claim invoked.  Nothing else would ever recover it.
THEOREM HeartbeatingOwnersExecute ==
  ASSUME Recorded
  PROVE  Spec => []RunningIsExecuted
<1>1. Init => OwnerStarted /\ RunningIsExecuted
  BY DEF Init, NoRow, OwnerStarted, RunningIsExecuted
<1>2. TypeOK /\ OwnerStarted /\ [Next]_vars => OwnerStarted'
  BY OwnerStartedNext
<1>3. TypeOK /\ OwnerStarted /\ RunningIsExecuted /\ [Next]_vars => RunningIsExecuted'
  BY RunningNext DEF RunningIsExecuted, Beats
<1> QED
  BY <1>1, <1>2, <1>3, TypeCorrect, PTL DEF Spec
=============================================================================
