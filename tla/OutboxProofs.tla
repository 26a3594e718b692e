---------------------------- MODULE OutboxProofs ----------------------------
(* Theorems about Outbox, for any rows, any passes and any bounds.         *)
EXTENDS Outbox, TLAPS

-----------------------------------------------------------------------------
(* Types                                                                   *)

\* A pass that has a row in hand has one.
HasRow == \A p \in Pass : pass[p].at \in {"hand", "mark", "fail"} => pass[p].row \in Row

Typed == TypeOK /\ HasRow

LEMMA TypedInit == Init => Typed
<1> SUFFICES ASSUME Init PROVE Typed
  OBVIOUS
<1>1. Idle \in Relay /\ Idle.at = "idle"
  BY DEF Idle, Relay
<1>2. pass \in [Pass -> Relay] /\ HasRow
  BY <1>1 DEF Init, HasRow
<1>3. box \in [Row -> Box]
  BY DEF Init, Box
<1>4. job \in [Row -> JobStatus] /\ held \subseteq Row
  BY OutboxAssumption DEF Init, JobStatus
<1> QED
  BY <1>2, <1>3, <1>4 DEF Init, Typed, TypeOK

\* The queue's own steps, and a dispatch that makes a job, move one status.
LEMMA QueueTypes ==
  ASSUME job \in [Row -> JobStatus], NEW r \in Row,
         Queue!Enter(r) \/ Queue!Begin(r) \/ Queue!End(r) \/ Queue!Cancel(r) \/ Queue!Forget(r)
  PROVE  /\ job' \in [Row -> JobStatus]
         /\ \A q \in Row : q # r => job'[q] = job[q]
         /\ job'[r] = "absent" => Queue!Forget(r)
<1>1. PICK to \in JobStatus : /\ job' = [q \in Row |-> IF q \in {r} THEN to ELSE job[q]]
                              /\ to = "absent" => Queue!Forget(r)
  BY DEF Queue!Enter, Queue!Begin, Queue!End, Queue!Cancel, Queue!Forget, Queue!Move, JobStatus
<1> QED
  BY <1>1

\* A pass's new record, with everything else about the passes as it was.
LEMMA PassTypes ==
  ASSUME Typed, NEW p \in Pass, NEW x \in Relay, pass' = [pass EXCEPT ![p] = x],
         x.at \in {"hand", "mark", "fail"} => x.row \in Row
  PROVE  pass' \in [Pass -> Relay] /\ HasRow'
<1>1. pass \in [Pass -> Relay] /\ HasRow
  BY DEF Typed, TypeOK
<1>2. \A q \in Pass : pass'[q] = IF q = p THEN x ELSE pass[q]
  BY <1>1
<1> QED
  BY <1>1, <1>2 DEF HasRow

LEMMA TypedNext == Typed /\ [Next]_vars => Typed'
<1> SUFFICES ASSUME Typed, [Next]_vars PROVE Typed'
  OBVIOUS
<1> USE DEF Typed, history
<1>1. ASSUME NEW r \in Row, Enqueue(r) \/ Rested(r) \/ Sweep(r) PROVE Typed'
  <2>1. box' \in [Row -> Box]
    <3>1. CASE Enqueue(r)
      BY <3>1 DEF Enqueue, TypeOK, Box
    <3>2. CASE Rested(r)
      BY <3>2 DEF Rested, TypeOK, Box
    <3>3. CASE Sweep(r)
      BY <3>3 DEF Sweep, TypeOK, Box
    <3> QED
      BY <1>1, <3>1, <3>2, <3>3
  <2>2. UNCHANGED <<job, pass, held, clock, horizon, crashes, history>>
    BY <1>1 DEF Enqueue, Rested, Sweep
  <2> QED
    BY <2>1, <2>2 DEF TypeOK, HasRow
<1>2. ASSUME NEW r \in Row, QueueMoves(r) PROVE Typed'
  <2>1. job' \in [Row -> JobStatus]
    BY <1>2, QueueTypes DEF QueueMoves, TypeOK
  <2> QED
    BY <1>2, <2>1 DEF QueueMoves, TypeOK, HasRow
<1>3. ASSUME NEW p \in Pass, Read(p) PROVE Typed'
  <2> DEFINE todo == {[row |-> r, claim |-> box[r].claim, tries |-> box[r].tries] :
                      r \in {q \in Row : Owed(q)}}
  <2>1. todo \in SUBSET Seen
    BY DEF TypeOK, Box, Seen
  <2> DEFINE relay == [at |-> "walk", now |-> clock + 1, row |-> Null, todo |-> todo]
  <2>2. pass' = [pass EXCEPT ![p] = relay]
    BY <1>3 DEF Read
  <2> HIDE DEF todo
  <2>3. relay \in Relay /\ relay.at = "walk"
    BY <2>1 DEF TypeOK, Relay
  <2> HIDE DEF relay
  <2>4. pass' \in [Pass -> Relay] /\ HasRow'
    BY <2>2, <2>3, PassTypes
  <2> QED
    BY <1>3, <2>4 DEF Read, TypeOK
<1>4. ASSUME NEW p \in Pass, NEW s \in pass[p].todo, Claim(p, s) PROVE Typed'
  <2>1. s \in Seen /\ pass[p] \in Relay
    BY DEF TypeOK, Relay
  <2>2. s.row \in Row /\ s.tries + 1 \in Nat /\ pass[p].now \in Nat
    BY <2>1 DEF Seen, Relay
  <2>3. box' \in [Row -> Box]
    BY <1>4, <2>2 DEF Claim, TypeOK, Box
  <2>4. Taking(p, s) \in Relay /\ Taking(p, s).row \in Row
    BY <2>1, <2>2 DEF Taking, Relay
  <2>5. pass' \in [Pass -> Relay] /\ HasRow'
    BY <1>4, <2>4, PassTypes DEF Claim
  <2>6. taken' \in [Row -> Nat] /\ overran' \subseteq Row
    BY <1>4, <2>2 DEF Claim, TypeOK
  <2> QED
    BY <1>4, <2>3, <2>5, <2>6 DEF Claim, TypeOK
<1>5. ASSUME NEW p \in Pass, NEW s \in pass[p].todo, Skip(p, s) PROVE Typed'
  BY <1>5 DEF Skip, TypeOK, Relay, HasRow
<1>6. ASSUME NEW p \in Pass, Dispatch(p) PROVE Typed'
  <2>1. pass[p].row \in Row
    BY <1>6 DEF Dispatch, HasRow
  <2>2. job' \in [Row -> JobStatus] /\ made' \in [Row -> Nat] /\ handed' \subseteq Row
    BY <1>6, <2>1, QueueTypes DEF Dispatch, TypeOK
  <2>3. pass' \in [Pass -> Relay] /\ HasRow'
    BY <1>6, <2>1 DEF Dispatch, Goes, TypeOK, Relay, HasRow
  <2> QED
    BY <1>6, <2>2, <2>3 DEF Dispatch, TypeOK
<1>7. ASSUME NEW p \in Pass, Refuse(p) PROVE Typed'
  BY <1>7 DEF Refuse, Goes, TypeOK, Relay, HasRow
<1>8. ASSUME NEW p \in Pass, Mark(p) \/ ReleaseClaim(p) PROVE Typed'
  <2>1. pass[p].row \in Row
    BY <1>8 DEF Mark, ReleaseClaim, HasRow
  <2>2. box' \in [Row -> Box]
    <3>1. CASE Mark(p)
      BY <2>1, <3>1 DEF Mark, TypeOK, Box
    <3>2. CASE ReleaseClaim(p)
      BY <2>1, <3>2 DEF ReleaseClaim, TypeOK, Box
    <3> QED
      BY <1>8, <3>1, <3>2
  <2>3. Onward(p) \in Relay /\ Onward(p).at = "walk"
    BY DEF Onward, TypeOK, Relay
  <2>4. pass' = [pass EXCEPT ![p] = Onward(p)]
    BY <1>8 DEF Mark, ReleaseClaim
  <2>5. pass' \in [Pass -> Relay] /\ HasRow'
    BY <2>3, <2>4 DEF TypeOK, HasRow
  <2> QED
    BY <1>8, <2>2, <2>5 DEF Mark, ReleaseClaim, TypeOK
<1>9. ASSUME NEW p \in Pass, End(p) \/ Crash(p) PROVE Typed'
  BY <1>9 DEF End, Crash, Idle, TypeOK, Relay, HasRow
<1>10. ASSUME Lapse PROVE Typed'
  BY <1>10 DEF Lapse, TypeOK, HasRow
<1>11. ASSUME Release PROVE Typed'
  BY <1>11 DEF Release, TypeOK, HasRow
<1>12. ASSUME NEW S \in SUBSET held, Drop(S) PROVE Typed'
  BY <1>12 DEF Drop, TypeOK, HasRow, Box
<1>13. ASSUME UNCHANGED vars PROVE Typed'
  BY <1>13 DEF vars, TypeOK, HasRow
<1> QED
  BY <1>1, <1>2, <1>3, <1>4, <1>5, <1>6, <1>7, <1>8, <1>9, <1>10, <1>11, <1>12, <1>13
  DEF Next, Walk, Settle

LEMMA TypedAlways == Spec => []Typed
BY TypedInit, TypedNext, PTL DEF Spec

\* Every reachable state of the outbox, its passes and the queue is in its types.
THEOREM OutboxTypeCorrect == Spec => []TypeOK
BY TypedAlways, PTL DEF Typed

-----------------------------------------------------------------------------
(* One relay to a row                                                      *)

\* Passes that run have different times, none past the clock.
Times ==
  /\ horizon <= clock
  /\ \A p \in Pass : pass[p].now <= clock
  /\ \A p, q \in Pass :
       pass[p].at # "idle" /\ pass[q].at # "idle" /\ pass[p].now = pass[q].now => p = q

\* What a pass read as its row's claim was NULL, or stale.
Walked == \A p \in Pass : \A s \in pass[p].todo : s.claim <= horizon

\* A pass that has not outlived its claim on the row in its hands still has it.
HandOwns ==
  \A r \in Row \ overran, p \in Pass :
    InHand(p, r) => box[r].claim = pass[p].now /\ pass[p].now > horizon

OwnInv == Times /\ Walked /\ HandOwns

LEMMA OwnOne == Typed /\ OwnInv => OneRelayPerRow
BY DEF OwnInv, Times, HandOwns, OneRelayPerRow, InHand

LEMMA OwnInit == Init => OwnInv
BY DEF Init, OwnInv, Times, Walked, HandOwns, InHand, Idle

\* No pass takes a row, and no claim or time changes.
LEMMA OwnKept ==
  ASSUME Typed, OwnInv, UNCHANGED <<clock, horizon, overran>>,
         \A r \in Row : box'[r].claim = box[r].claim,
         \A q \in Pass :
           /\ pass'[q].now \in {0, pass[q].now}
           /\ pass'[q].at # "idle" => pass[q].at # "idle" /\ pass'[q].now = pass[q].now
           /\ pass'[q].todo \subseteq pass[q].todo
           /\ \A r \in Row : InHand(q, r)' => InHand(q, r) /\ pass'[q].now = pass[q].now
  PROVE  OwnInv'
<1>1. Times'
  BY DEF OwnInv, Times, Typed, TypeOK
<1>2. Walked'
  BY DEF OwnInv, Walked
<1>3. HandOwns'
  <2> SUFFICES ASSUME NEW r \in Row \ overran, NEW p \in Pass, InHand(p, r)'
               PROVE  box'[r].claim = pass'[p].now /\ pass'[p].now > horizon
    BY DEF HandOwns
  <2> QED
    BY DEF OwnInv, HandOwns
<1> QED
  BY <1>1, <1>2, <1>3 DEF OwnInv

LEMMA OwnNext == Typed /\ Typed' /\ OwnInv /\ [Next]_vars => OwnInv'
<1> SUFFICES ASSUME Typed, Typed', OwnInv, [Next]_vars PROVE OwnInv'
  OBVIOUS
<1> USE DEF history
<1>1. pass \in [Pass -> Relay] /\ box \in [Row -> Box] /\ clock \in Nat /\ horizon \in Nat
  BY DEF Typed, TypeOK
\* The steps that leave the passes alone, and the claims.
<1>2. ASSUME UNCHANGED <<pass, clock, horizon, overran>>,
             \A r \in Row : box'[r].claim = box[r].claim
      PROVE  OwnInv'
  BY <1>2, OwnKept DEF InHand
<1>3. ASSUME NEW r \in Row, Enqueue(r) \/ Rested(r) \/ Sweep(r) PROVE OwnInv'
  <2>1. \A q \in Row : box'[q].claim = box[q].claim
    BY <1>1, <1>3 DEF Enqueue, Rested, Sweep, Box
  <2> QED
    BY <1>2, <1>3, <2>1 DEF Enqueue, Rested, Sweep
<1>4. ASSUME NEW r \in Row, QueueMoves(r) PROVE OwnInv'
  BY <1>2, <1>4 DEF QueueMoves
<1>5. ASSUME Release PROVE OwnInv'
  BY <1>2, <1>5 DEF Release
<1>6. ASSUME NEW S \in SUBSET held, Drop(S) PROVE OwnInv'
  <2>1. \A q \in Row : box'[q].claim = box[q].claim
    BY <1>1, <1>6 DEF Drop, Box
  <2> QED
    BY <1>2, <1>6, <2>1 DEF Drop
<1>7. ASSUME UNCHANGED vars PROVE OwnInv'
  BY <1>2, <1>7 DEF vars
\* The steps of one pass that take nothing and change no claim.
<1>8. ASSUME NEW p \in Pass, NEW x, pass' = [pass EXCEPT ![p] = x],
             UNCHANGED <<clock, horizon, overran>>,
             \A r \in Row : box'[r].claim = box[r].claim,
             x.todo \subseteq pass[p].todo,
             \/ x.at = "idle" /\ x.now = 0
             \/ /\ pass[p].at # "idle" /\ x.now = pass[p].now
                /\ x.at \in {"hand", "mark", "fail"} =>
                     x.row = pass[p].row /\ pass[p].at \in {"hand", "mark", "fail"}
      PROVE  OwnInv'
  <2>1. \A q \in Pass : pass'[q] = IF q = p THEN x ELSE pass[q]
    BY <1>1, <1>8
  <2> QED
    BY <1>8, <2>1, OwnKept DEF InHand
<1>9. ASSUME NEW p \in Pass, NEW s \in pass[p].todo, Skip(p, s) PROVE OwnInv'
  <2> DEFINE x == [pass[p] EXCEPT !.todo = @ \ {s}]
  <2>1. /\ pass' = [pass EXCEPT ![p] = x] /\ x.todo \subseteq pass[p].todo
        /\ x.at = "walk" /\ x.now = pass[p].now
    BY <1>1, <1>9 DEF Skip, Relay
  <2> HIDE DEF x
  <2> QED
    BY <1>8, <1>9, <2>1 DEF Skip
<1>10. ASSUME NEW p \in Pass, Dispatch(p) \/ Refuse(p) PROVE OwnInv'
  <2>1. PICK at \in {"mark", "fail"} : Goes(p, at)
    BY <1>10 DEF Dispatch, Refuse
  <2> DEFINE x == [pass[p] EXCEPT !.at = at]
  <2>2. /\ pass' = [pass EXCEPT ![p] = x] /\ x.todo = pass[p].todo
        /\ x.now = pass[p].now /\ x.row = pass[p].row
    BY <1>1, <2>1 DEF Goes, Relay
  <2> HIDE DEF x
  <2>3. pass[p].at \in {"hand", "mark"} /\ UNCHANGED <<box, clock, horizon, overran>>
    BY <1>10 DEF Dispatch, Refuse
  <2> QED
    BY <1>8, <2>2, <2>3
<1>11. ASSUME NEW p \in Pass, Mark(p) PROVE OwnInv'
  <2>1. /\ Onward(p).todo = pass[p].todo /\ Onward(p).now = pass[p].now
        /\ Onward(p).at = "walk"
    BY <1>1 DEF Onward, Relay
  <2>2. \A r \in Row : box'[r].claim = box[r].claim
    BY <1>1, <1>11 DEF Mark, Box
  <2> QED
    BY <1>8, <1>11, <2>1, <2>2 DEF Mark
<1>12. ASSUME NEW p \in Pass, End(p) \/ Crash(p) PROVE OwnInv'
  <2>1. Idle.todo = {} /\ Idle.at = "idle" /\ Idle.now = 0
    BY DEF Idle
  <2> QED
    BY <1>8, <1>12, <2>1 DEF End, Crash
\* The steps that change a claim, or a time.
<1>13. ASSUME NEW p \in Pass, Read(p) PROVE OwnInv'
  <2> DEFINE x == pass'[p]
  <2>1. \A q \in Pass : pass'[q] = IF q = p THEN x ELSE pass[q]
    BY <1>1, <1>13 DEF Read
  <2>2. x.now = clock + 1 /\ x.at = "walk" /\ clock' = clock + 1
    BY <1>1, <1>13 DEF Read
  <2>3. \A s \in x.todo : s.claim <= horizon
    BY <1>1, <1>13 DEF Read, Owed
  <2>4. UNCHANGED <<box, horizon, overran>>
    BY <1>13 DEF Read
  <2> HIDE DEF x
  <2>5. Times'
    BY <1>1, <2>1, <2>2, <2>4 DEF OwnInv, Times, Relay
  <2>6. Walked'
    BY <2>1, <2>3, <2>4 DEF OwnInv, Walked
  <2>7. HandOwns'
    BY <2>1, <2>2, <2>4 DEF OwnInv, HandOwns, InHand
  <2> QED
    BY <2>5, <2>6, <2>7 DEF OwnInv
<1>14. ASSUME NEW p \in Pass, NEW s \in pass[p].todo, Claim(p, s) PROVE OwnInv'
  <2>1. s \in Seen /\ s.row \in Row /\ s.claim <= horizon /\ pass[p] \in Relay
    BY <1>1 DEF Relay, Seen, OwnInv, Walked
  <2>2. /\ Taking(p, s).now = pass[p].now /\ Taking(p, s).at = "hand"
        /\ Taking(p, s).row = s.row /\ Taking(p, s).todo \subseteq pass[p].todo
    BY <2>1 DEF Taking, Relay
  <2>3. \A q \in Pass : pass'[q] = IF q = p THEN Taking(p, s) ELSE pass[q]
    BY <1>1, <1>14 DEF Claim
  <2>4. UNCHANGED <<clock, horizon>> /\ pass[p].at = "walk"
    BY <1>14 DEF Claim
  <2>5. /\ \A r \in Row : box'[r].claim = IF r = s.row THEN pass[p].now ELSE box[r].claim
        /\ box[s.row].claim = s.claim
    BY <1>1, <1>14, <2>1 DEF Claim, Matches, Box
  <2>6. overran \subseteq overran' /\ (s.row \notin overran' => pass[p].now > horizon)
    BY <1>1, <1>14, <2>1 DEF Claim, Relay
  <2>7. Times'
    BY <2>2, <2>3, <2>4 DEF OwnInv, Times
  <2>8. Walked'
    BY <2>2, <2>3, <2>4 DEF OwnInv, Walked
  <2>9. ASSUME NEW r \in Row \ overran', NEW q \in Pass, InHand(q, r)'
        PROVE  box'[r].claim = pass'[q].now /\ pass'[q].now > horizon
    <3>1. CASE q = p
      BY <2>2, <2>3, <2>5, <2>6, <2>9, <3>1 DEF InHand
    <3>2. CASE q # p
      <4>1. InHand(q, r) /\ pass'[q] = pass[q] /\ r \in Row \ overran
        BY <2>3, <2>6, <2>9, <3>2 DEF InHand
      <4>2. box[r].claim = pass[q].now /\ pass[q].now > horizon
        BY <4>1 DEF OwnInv, HandOwns
      <4>3. r # s.row
        BY <1>1, <2>1, <2>5, <4>2 DEF Seen
      <4> QED
        BY <2>5, <4>1, <4>2, <4>3
    <3> QED
      BY <3>1, <3>2
  <2> QED
    BY <2>4, <2>7, <2>8, <2>9 DEF OwnInv, HandOwns
<1>15. ASSUME NEW p \in Pass, ReleaseClaim(p) PROVE OwnInv'
  <2>1. /\ Onward(p).todo = pass[p].todo /\ Onward(p).now = pass[p].now
        /\ Onward(p).at = "walk"
    BY <1>1 DEF Onward, Relay
  <2>2. \A q \in Pass : pass'[q] = IF q = p THEN Onward(p) ELSE pass[q]
    BY <1>1, <1>15 DEF ReleaseClaim
  <2>3. UNCHANGED <<clock, horizon, overran>> /\ InHand(p, pass[p].row)
    BY <1>15 DEF ReleaseClaim, InHand
  <2>4. \A r \in Row : r # pass[p].row => box'[r].claim = box[r].claim
    BY <1>1, <1>15 DEF ReleaseClaim
  <2>5. Times' /\ Walked'
    BY <2>1, <2>2, <2>3 DEF OwnInv, Times, Walked, InHand
  <2>6. ASSUME NEW r \in Row \ overran, NEW q \in Pass, InHand(q, r)'
        PROVE  box'[r].claim = pass'[q].now /\ pass'[q].now > horizon
    <3>1. q # p /\ InHand(q, r) /\ pass'[q] = pass[q]
      BY <2>1, <2>2, <2>6 DEF InHand
    <3>2. r # pass[p].row
      BY <2>3, <3>1, OwnOne DEF OneRelayPerRow
    <3> QED
      BY <2>4, <3>1, <3>2 DEF OwnInv, HandOwns
  <2> QED
    BY <2>3, <2>5, <2>6 DEF OwnInv, HandOwns
<1>16. ASSUME Lapse PROVE OwnInv'
  <2>1. horizon < clock /\ horizon' = horizon + 1 /\ UNCHANGED <<box, pass, clock>>
    BY <1>16 DEF Lapse
  <2>2. Times' /\ Walked'
    BY <1>1, <2>1 DEF OwnInv, Times, Walked, Relay, Seen
  <2>3. ASSUME NEW r \in Row \ overran', NEW q \in Pass, InHand(q, r)
        PROVE  box[r].claim = pass[q].now /\ pass[q].now > horizon + 1
    <3>1. r \notin overran /\ pass[q].now # horizon + 1
      BY <1>16, <2>3 DEF Lapse
    <3>2. box[r].claim = pass[q].now /\ pass[q].now > horizon /\ pass[q].now \in Nat
      BY <1>1, <2>3, <3>1 DEF OwnInv, HandOwns, Relay
    <3> QED
      BY <1>1, <3>1, <3>2
  <2>4. HandOwns'
    BY <2>1, <2>3 DEF HandOwns, InHand
  <2> QED
    BY <2>2, <2>4 DEF OwnInv
<1> QED
  BY <1>3, <1>4, <1>5, <1>6, <1>7, <1>9, <1>10, <1>11, <1>12, <1>13, <1>14, <1>15, <1>16
  DEF Next, Walk, Settle

LEMMA OwnAlways == Spec => []OwnInv
BY TypedAlways, OwnInit, OwnNext, PTL DEF Spec

\* However many passes overlap, two have one row in hand only if a claim on it
\* went stale in a pass's hands: the compare and set of deliverFrom.
THEOREM OneRelay == Spec => []OneRelayPerRow
BY TypedAlways, OwnAlways, OwnOne, PTL

-----------------------------------------------------------------------------
(* One job to a row                                                        *)

Settled(r) == box[r].state \in {"delivered", "gone"} /\ \A p \in Pass : ~InHand(p, r)

\* A pass that marks a row, or lets its claim go, walks on with the same list.
LEMMA Onwards ==
  ASSUME Typed, NEW p \in Pass, Mark(p) \/ ReleaseClaim(p)
  PROVE  /\ \A q \in Pass : pass'[q] = IF q = p THEN Onward(p) ELSE pass[q]
         /\ Onward(p).at = "walk" /\ Onward(p).todo = pass[p].todo
<1>1. pass \in [Pass -> Relay]
  BY DEF Typed, TypeOK
<1>2. Onward(p).at = "walk" /\ Onward(p).todo = pass[p].todo
  BY <1>1 DEF Onward, Relay
<1>3. pass' = [pass EXCEPT ![p] = Onward(p)]
  BY DEF Mark, ReleaseClaim
<1> QED
  BY <1>1, <1>2, <1>3

\* A job that was made is in the queue until its row is of no use to any pass.
JobInv ==
  \A r \in Row : made[r] = 0 \/ (made[r] = 1 /\ (job[r] = "absent" => Settled(r)))

\* A settled row stays so, and the queue's record of a job goes only when it is.
LEMMA JobKept ==
  ASSUME Typed, JobInv, UNCHANGED made,
         \A r \in Row : Settled(r) => Settled(r)',
         \A r \in Row : job'[r] = "absent" => job[r] = "absent" \/ Settled(r)
  PROVE  JobInv'
BY DEF JobInv

LEMMA JobNext == Typed /\ Typed' /\ JobInv /\ [Next]_vars => JobInv'
<1> SUFFICES ASSUME Typed, Typed', JobInv, [Next]_vars PROVE JobInv'
  OBVIOUS
<1> USE DEF history
<1>1. pass \in [Pass -> Relay] /\ box \in [Row -> Box] /\ job \in [Row -> JobStatus]
  BY DEF Typed, TypeOK
\* The steps that leave the queue alone, settle what they like, and take no row.
<1>2. ASSUME UNCHANGED <<job, made>>,
             \A r \in Row : box[r].state \in {"delivered", "gone"}
                            => box'[r].state \in {"delivered", "gone"},
             \A r \in Row, p \in Pass : InHand(p, r)' => InHand(p, r)
      PROVE  JobInv'
  BY <1>2, JobKept DEF Settled
<1>3. ASSUME NEW r \in Row, Enqueue(r) \/ Rested(r) \/ Sweep(r) PROVE JobInv'
  <2>1. \A q \in Row : box[q].state \in {"delivered", "gone"}
                        => box'[q].state \in {"delivered", "gone"}
    BY <1>1, <1>3 DEF Enqueue, Rested, Sweep, Box
  <2>2. UNCHANGED <<job, made, pass>>
    BY <1>3 DEF Enqueue, Rested, Sweep
  <2> QED
    BY <1>2, <2>1, <2>2 DEF InHand
<1>4. ASSUME NEW r \in Row, QueueMoves(r) PROVE JobInv'
  <2>1. UNCHANGED <<box, pass, made>>
    BY <1>4 DEF QueueMoves
  <2>2. ASSUME NEW q \in Row, job'[q] = "absent" PROVE job[q] = "absent" \/ Settled(q)
    <3>1. CASE q # r
      BY <1>1, <1>4, <2>2, <3>1, QueueTypes DEF QueueMoves
    <3>2. CASE q = r
      <4>1. /\ Queue!Enter(r) => job'[r] = "pending"
            /\ Queue!Begin(r) => job'[r] = "running"
            /\ Queue!End(r) => job'[r] \in {"done", "dead", "pending"}
            /\ Queue!Cancel(r) => job'[r] = "cancelled"
        BY DEF Queue!Enter, Queue!Begin, Queue!End, Queue!Cancel, Queue!Move
      <4> QED
        BY <1>4, <2>2, <3>2, <4>1 DEF QueueMoves, Settled
    <3> QED
      BY <3>1, <3>2
  <2>3. \A q \in Row : Settled(q) => Settled(q)'
    BY <2>1 DEF Settled, InHand
  <2> QED
    BY <2>1, <2>2, <2>3, JobKept
<1>5. ASSUME NEW p \in Pass, Read(p) PROVE JobInv'
  <2>1. \A q \in Pass : q # p => pass'[q] = pass[q]
    BY <1>1, <1>5 DEF Read
  <2>2. pass'[p].at = "walk" /\ UNCHANGED <<job, made, box>>
    BY <1>1, <1>5 DEF Read
  <2> QED
    BY <1>2, <2>1, <2>2 DEF InHand
<1>6. ASSUME NEW p \in Pass, NEW s \in pass[p].todo, Claim(p, s) PROVE JobInv'
  <2>1. s.row \in Row /\ pass[p] \in Relay
    BY <1>1 DEF Relay, Seen
  <2>2. UNCHANGED <<job, made>> /\ box[s.row].state = "owed"
    BY <1>6 DEF Claim, Matches
  <2>3. \A q \in Row : box'[q].state = box[q].state
    BY <1>1, <1>6, <2>1 DEF Claim, Box
  <2>4. \A q \in Pass, r \in Row : InHand(q, r)' => InHand(q, r) \/ r = s.row
    BY <1>1, <1>6, <2>1 DEF Claim, Taking, InHand, Relay
  <2>5. \A r \in Row : Settled(r) => Settled(r)'
    BY <2>2, <2>3, <2>4 DEF Settled
  <2> QED
    BY <2>2, <2>5, JobKept
<1>7. ASSUME NEW p \in Pass, NEW s \in pass[p].todo, Skip(p, s) PROVE JobInv'
  BY <1>1, <1>2, <1>7 DEF Skip, InHand, Relay
<1>8. ASSUME NEW p \in Pass, Dispatch(p) PROVE JobInv'
  <2> DEFINE r == pass[p].row
  <2>1. r \in Row /\ InHand(p, r) /\ box' = box
    BY <1>8 DEF Dispatch, Typed, HasRow, InHand
  <2>2. \A q \in Pass, k \in Row : InHand(q, k)' => InHand(q, k)
    BY <1>1, <1>8 DEF Dispatch, Goes, InHand, Relay
  <2>3. \A k \in Row : Settled(k) => Settled(k)'
    BY <2>1, <2>2 DEF Settled
  <2>4. CASE job[r] = "absent"
    <3>1. made[r] = 0 /\ made \in [Row -> Nat]
      BY <2>1, <2>4 DEF JobInv, Settled, Typed, TypeOK
    <3>2. Queue!Enter(r) /\ made' = [made EXCEPT ![r] = @ + 1]
      BY <1>8, <2>4 DEF Dispatch
    <3>3. job'[r] = "pending" /\ \A k \in Row : k # r => job'[k] = job[k]
      BY <2>1, <3>2 DEF Queue!Enter, Queue!Move
    <3>4. made'[r] = 1 /\ \A k \in Row : k # r => made'[k] = made[k]
      BY <2>1, <3>1, <3>2
    <3> QED
      BY <2>3, <3>3, <3>4 DEF JobInv
  <2>5. CASE job[r] # "absent"
    BY <1>8, <2>3, <2>5, JobKept DEF Dispatch
  <2> QED
    BY <2>4, <2>5
<1>9. ASSUME NEW p \in Pass, Refuse(p) PROVE JobInv'
  <2>1. \A q \in Pass, r \in Row : InHand(q, r)' => InHand(q, r)
    BY <1>1, <1>9 DEF Refuse, Goes, InHand, Relay
  <2> QED
    BY <1>2, <1>9, <2>1 DEF Refuse
<1>10. ASSUME NEW p \in Pass, Mark(p) \/ ReleaseClaim(p) PROVE JobInv'
  <2>1. \A r \in Row : box[r].state \in {"delivered", "gone"}
                        => box'[r].state \in {"delivered", "gone"}
    <3>1. CASE Mark(p)
      BY <1>1, <3>1 DEF Mark, Box
    <3>2. CASE ReleaseClaim(p)
      BY <1>1, <3>2 DEF ReleaseClaim, Box
    <3> QED
      BY <1>10, <3>1, <3>2
  <2>2. \A q \in Pass, r \in Row : InHand(q, r)' => InHand(q, r)
    BY <1>10, Onwards DEF InHand
  <2>3. UNCHANGED <<job, made>>
    BY <1>10 DEF Mark, ReleaseClaim
  <2> QED
    BY <1>2, <2>1, <2>2, <2>3
<1>11. ASSUME NEW p \in Pass, End(p) \/ Crash(p) PROVE JobInv'
  <2>1. \A q \in Pass, r \in Row : InHand(q, r)' => InHand(q, r)
    BY <1>1, <1>11 DEF End, Crash, Idle, InHand
  <2> QED
    BY <1>2, <1>11, <2>1 DEF End, Crash
<1>12. ASSUME Lapse \/ Release PROVE JobInv'
  BY <1>2, <1>12 DEF Lapse, Release, InHand
<1>13. ASSUME NEW S \in SUBSET held, Drop(S) PROVE JobInv'
  <2>1. \A r \in Row : box[r].state \in {"delivered", "gone"}
                        => box'[r].state \in {"delivered", "gone"}
    BY <1>1, <1>13 DEF Drop, Box
  <2> QED
    BY <1>2, <1>13, <2>1 DEF Drop, InHand
<1>14. ASSUME UNCHANGED vars PROVE JobInv'
  BY <1>2, <1>14 DEF vars, InHand
<1> QED
  BY <1>3, <1>4, <1>5, <1>6, <1>7, <1>8, <1>9, <1>10, <1>11, <1>12, <1>13, <1>14
  DEF Next, Walk, Settle

\* "A no-op rather than duplicate work": whatever crashes, overlaps and outlives
\* its claim, one row makes one job of the queue, under the id it states.
THEOREM OneJob == Spec => []OneJobPerRow
<1>1. Init => JobInv
  BY DEF Init, JobInv
<1>2. JobInv => OneJobPerRow
  BY DEF JobInv, OneJobPerRow
<1> QED
  BY <1>1, <1>2, JobNext, TypedAlways, PTL DEF Spec

-----------------------------------------------------------------------------
(* What a mark says, and what a restore holds                              *)

MarkInv ==
  /\ \A p \in Pass : pass[p].at = "mark" => pass[p].row \in handed
  /\ \A r \in Row : box[r].state = "delivered" => r \in handed

LEMMA MarkNext == Typed /\ MarkInv /\ [Next]_vars => MarkInv'
<1> SUFFICES ASSUME Typed, MarkInv, [Next]_vars PROVE MarkInv'
  OBVIOUS
<1> USE DEF history
<1>1. pass \in [Pass -> Relay] /\ box \in [Row -> Box]
  BY DEF Typed, TypeOK
<1>2. ASSUME UNCHANGED handed,
             \A q \in Pass : pass'[q].at = "mark" => pass'[q] = pass[q],
             \A r \in Row : box'[r].state = "delivered" => r \in handed
      PROVE  MarkInv'
  BY <1>2 DEF MarkInv
<1>3. ASSUME NEW r \in Row, Enqueue(r) \/ Rested(r) \/ Sweep(r) PROVE MarkInv'
  <2>1. \A q \in Row : box'[q].state = "delivered" => box[q].state = "delivered"
    BY <1>1, <1>3 DEF Enqueue, Rested, Sweep, Box
  <2> QED
    BY <1>2, <1>3, <2>1 DEF Enqueue, Rested, Sweep, MarkInv
<1>4. ASSUME NEW r \in Row, QueueMoves(r) PROVE MarkInv'
  BY <1>2, <1>4 DEF QueueMoves, MarkInv
<1>5. ASSUME NEW p \in Pass, Read(p) PROVE MarkInv'
  <2>1. \A q \in Pass : pass'[q].at = "mark" => pass'[q] = pass[q]
    BY <1>1, <1>5 DEF Read
  <2> QED
    BY <1>2, <1>5, <2>1 DEF Read, MarkInv
<1>6. ASSUME NEW p \in Pass, NEW s \in pass[p].todo, Claim(p, s) PROVE MarkInv'
  <2>1. s.row \in Row /\ pass[p] \in Relay
    BY <1>1 DEF Relay, Seen
  <2>2. \A q \in Pass : pass'[q].at = "mark" => pass'[q] = pass[q]
    BY <1>1, <1>6, <2>1 DEF Claim, Taking, Relay
  <2>3. \A q \in Row : box'[q].state = box[q].state
    BY <1>1, <1>6, <2>1 DEF Claim, Box
  <2> QED
    BY <1>2, <1>6, <2>2, <2>3 DEF Claim, MarkInv
<1>7. ASSUME NEW p \in Pass, NEW s \in pass[p].todo, Skip(p, s) PROVE MarkInv'
  <2>1. \A q \in Pass : pass'[q].at = "mark" => pass'[q] = pass[q]
    BY <1>1, <1>7 DEF Skip, Relay
  <2> QED
    BY <1>2, <1>7, <2>1 DEF Skip, MarkInv
<1>8. ASSUME NEW p \in Pass, Dispatch(p) PROVE MarkInv'
  <2>1. \A q \in Pass : pass'[q].row = pass[q].row /\ (q # p => pass'[q] = pass[q])
    BY <1>1, <1>8 DEF Dispatch, Goes, Relay
  <2>2. handed' = handed \union {pass[p].row} /\ box' = box
    BY <1>8 DEF Dispatch
  <2> QED
    BY <2>1, <2>2 DEF MarkInv
<1>9. ASSUME NEW p \in Pass, Refuse(p) PROVE MarkInv'
  <2>1. \A q \in Pass : pass'[q].at = "mark" => pass'[q] = pass[q]
    BY <1>1, <1>9 DEF Refuse, Goes, Relay
  <2> QED
    BY <1>2, <1>9, <2>1 DEF Refuse, MarkInv
<1>10. ASSUME NEW p \in Pass, Mark(p) \/ ReleaseClaim(p) PROVE MarkInv'
  <2>1. \A q \in Pass : pass'[q].at = "mark" => pass'[q] = pass[q]
    BY <1>10, Onwards
  <2>2. \A r \in Row : box'[r].state = "delivered" => r \in handed
    <3>1. CASE Mark(p)
      <4>1. \A r \in Row : r # pass[p].row => box'[r].state = box[r].state
        BY <1>1, <3>1 DEF Mark, Box
      <4>2. pass[p].row \in handed
        BY <3>1 DEF Mark, MarkInv
      <4> QED
        BY <4>1, <4>2 DEF MarkInv
    <3>2. CASE ReleaseClaim(p)
      <4>1. \A r \in Row : box'[r].state = box[r].state
        BY <1>1, <3>2 DEF ReleaseClaim, Box
      <4> QED
        BY <4>1 DEF MarkInv
    <3> QED
      BY <1>10, <3>1, <3>2
  <2>3. UNCHANGED handed
    BY <1>10 DEF Mark, ReleaseClaim
  <2> QED
    BY <1>2, <2>1, <2>2, <2>3
<1>11. ASSUME NEW p \in Pass, End(p) \/ Crash(p) PROVE MarkInv'
  <2>1. \A q \in Pass : pass'[q].at = "mark" => pass'[q] = pass[q]
    BY <1>1, <1>11 DEF End, Crash, Idle
  <2> QED
    BY <1>2, <1>11, <2>1 DEF End, Crash, MarkInv
<1>12. ASSUME Lapse \/ Release PROVE MarkInv'
  BY <1>2, <1>12 DEF Lapse, Release, MarkInv
<1>13. ASSUME NEW S \in SUBSET held, Drop(S) PROVE MarkInv'
  <2>1. \A q \in Row : box'[q].state = "delivered" => box[q].state = "delivered"
    BY <1>1, <1>13 DEF Drop, Box
  <2> QED
    BY <1>2, <1>13, <2>1 DEF Drop, MarkInv
<1>14. ASSUME UNCHANGED vars PROVE MarkInv'
  BY <1>14 DEF vars, MarkInv
<1> QED
  BY <1>3, <1>4, <1>5, <1>6, <1>7, <1>8, <1>9, <1>10, <1>11, <1>12, <1>13, <1>14
  DEF Next, Walk, Settle

\* No row is marked delivered whose dispatch the queue has not accepted.
THEOREM MarkIsTrue == Spec => []DeliveredWasHandedOver
<1>1. Init => MarkInv
  BY DEF Init, MarkInv, Idle
<1>2. MarkInv => DeliveredWasHandedOver
  BY DEF MarkInv, DeliveredWasHandedOver
<1> QED
  BY <1>1, <1>2, MarkNext, TypedAlways, PTL DEF Spec

\* No pass has even read a held row.
HeldInv == \A r \in held : taken[r] = 0 /\ \A p \in Pass : \A s \in pass[p].todo : s.row # r

LEMMA HeldNext == Typed /\ HeldInv /\ [Next]_vars => HeldInv'
<1> SUFFICES ASSUME Typed, HeldInv, [Next]_vars PROVE HeldInv'
  OBVIOUS
<1> USE DEF history
<1>1. pass \in [Pass -> Relay] /\ held \subseteq Row /\ taken \in [Row -> Nat]
  BY DEF Typed, TypeOK
<1>2. ASSUME UNCHANGED taken, held' \subseteq held,
             \A q \in Pass : pass'[q].todo \subseteq pass[q].todo
      PROVE  HeldInv'
  BY <1>2 DEF HeldInv
<1>3. ASSUME NEW r \in Row, Enqueue(r) \/ Rested(r) \/ Sweep(r) \/ QueueMoves(r) PROVE HeldInv'
  BY <1>2, <1>3 DEF Enqueue, Rested, Sweep, QueueMoves
<1>4. ASSUME NEW p \in Pass, Read(p) PROVE HeldInv'
  <2>1. \A q \in Pass : q # p => pass'[q] = pass[q]
    BY <1>1, <1>4 DEF Read
  <2>2. \A s \in pass'[p].todo : s.row \notin held
    BY <1>1, <1>4 DEF Read, Owed
  <2> QED
    BY <1>4, <2>1, <2>2 DEF Read, HeldInv
<1>5. ASSUME NEW p \in Pass, NEW s \in pass[p].todo, Claim(p, s) PROVE HeldInv'
  <2>1. s.row \in Row /\ pass[p] \in Relay
    BY <1>1 DEF Relay, Seen
  <2>2. \A q \in Pass : pass'[q].todo \subseteq pass[q].todo
    BY <1>1, <1>5, <2>1 DEF Claim, Taking, Relay
  <2>3. \A r \in Row : r # s.row => taken'[r] = taken[r]
    BY <1>1, <1>5, <2>1 DEF Claim
  <2>4. s.row \notin held /\ UNCHANGED held
    BY <1>5 DEF Claim, HeldInv
  <2> QED
    BY <1>1, <2>2, <2>3, <2>4 DEF HeldInv
<1>6. ASSUME NEW p \in Pass, NEW s \in pass[p].todo, Skip(p, s) PROVE HeldInv'
  <2>1. \A q \in Pass : pass'[q].todo \subseteq pass[q].todo
    BY <1>1, <1>6 DEF Skip, Relay
  <2> QED
    BY <1>2, <1>6, <2>1 DEF Skip
<1>7. ASSUME NEW p \in Pass, Settle(p) \/ Crash(p) PROVE HeldInv'
  <2>1. \A q \in Pass : pass'[q].todo \subseteq pass[q].todo
    <3>1. CASE Dispatch(p) \/ Refuse(p)
      BY <1>1, <3>1 DEF Dispatch, Refuse, Goes, Relay
    <3>2. CASE Mark(p) \/ ReleaseClaim(p)
      BY <3>2, Onwards
    <3>3. CASE End(p) \/ Crash(p)
      BY <1>1, <3>3 DEF End, Crash, Idle
    <3> QED
      BY <1>7, <3>1, <3>2, <3>3 DEF Settle
  <2>2. UNCHANGED <<taken, held>>
    BY <1>7 DEF Settle, Dispatch, Refuse, Mark, ReleaseClaim, End, Crash
  <2> QED
    BY <1>2, <2>1, <2>2
<1>8. ASSUME Lapse \/ Release PROVE HeldInv'
  BY <1>2, <1>8 DEF Lapse, Release
<1>9. ASSUME NEW S \in SUBSET held, Drop(S) PROVE HeldInv'
  BY <1>2, <1>9 DEF Drop
<1>10. ASSUME UNCHANGED vars PROVE HeldInv'
  BY <1>2, <1>10 DEF vars
<1> QED
  BY <1>3, <1>4, <1>5, <1>6, <1>7, <1>8, <1>9, <1>10 DEF Next, Walk

\* After a restore no relay takes a row of the backup until an operator has
\* released it: not even a pass that was already walking its list.
THEOREM HeldUntilReleased == Spec => []HeldWaits
<1>1. Init => HeldInv
  BY OutboxAssumption DEF Init, HeldInv, Idle
<1>2. HeldInv => HeldWaits
  BY DEF HeldInv, HeldWaits
<1> QED
  BY <1>1, <1>2, HeldNext, TypedAlways, PTL DEF Spec
=============================================================================
