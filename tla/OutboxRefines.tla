--------------------------- MODULE OutboxRefines ---------------------------
(* The outbox hands its rows over as Handover promises.                    *)
EXTENDS OutboxProofs

-----------------------------------------------------------------------------
(* What a pass has in hand, the queue does not know for settled            *)

\* No held row is in hand or has been handed over.  A row in hand is owed, unless
\* another pass has handed it over first; and a row that was handed over has its
\* job in the queue until it is settled.
OverInv ==
  /\ \A p \in Pass, r \in Row :
       InHand(p, r) => r \notin held /\ (box[r].state = "owed" \/ r \in handed)
  /\ \A r \in handed : /\ r \notin held /\ box[r].state # "new"
                       /\ job[r] = "absent" => Settled(r)
  /\ \A r \in held : box[r].state \in {"owed", "gone"}

\* A row's state moves forward, for a reason.
Forward(r) ==
  \/ box'[r].state = box[r].state
  \/ box[r].state = "new" /\ box'[r].state = "owed"
  \/ box[r].state = "owed" /\ box'[r].state = "delivered" /\ r \in handed
  \/ box[r].state = "owed" /\ box'[r].state = "gone" /\ r \in held
  \/ box[r].state = "delivered" /\ box'[r].state = "gone"

\* Steps that take no row, and hand none over.
LEMMA OverKept ==
  ASSUME Typed, OverInv, UNCHANGED handed, held' \subseteq held,
         \A r \in Row : Forward(r),
         \A r \in Row : job'[r] = "absent" => job[r] = "absent" \/ Settled(r),
         \A p \in Pass, r \in Row : InHand(p, r)' => InHand(p, r)
  PROVE  OverInv'
<1>0. handed \subseteq Row /\ held \subseteq Row
  BY DEF Typed, TypeOK
<1>1. \A r \in Row : Settled(r) => Settled(r)'
  BY DEF Settled, Forward
<1>2. ASSUME NEW p \in Pass, NEW r \in Row, InHand(p, r)'
      PROVE  r \notin held' /\ (box'[r].state = "owed" \/ r \in handed)
  <2>1. r \notin held /\ (box[r].state = "owed" \/ r \in handed)
    BY <1>2 DEF OverInv
  <2> QED
    BY <2>1 DEF Forward
<1>3. ASSUME NEW r \in handed
      PROVE  /\ r \notin held' /\ box'[r].state # "new"
             /\ job'[r] = "absent" => Settled(r)'
  <2>1. r \notin held /\ box[r].state # "new" /\ (job[r] = "absent" => Settled(r))
    BY DEF OverInv
  <2> QED
    BY <1>0, <1>1, <2>1 DEF Forward
<1>4. ASSUME NEW r \in held' PROVE box'[r].state \in {"owed", "gone"}
  <2>1. r \in Row /\ box[r].state \in {"owed", "gone"} /\ r \notin handed
    BY <1>0 DEF OverInv
  <2> QED
    BY <2>1 DEF Forward
<1> QED
  BY <1>2, <1>3, <1>4 DEF OverInv

-----------------------------------------------------------------------------
(* One step of the outbox, seen as a step of Handover                      *)

Stage == [r \in Row |-> IF box[r].state = "owed" /\ r \in handed THEN "accepted" ELSE box[r].state]
Known == {r \in Row : job[r] # "absent"}

OverStep == Over!Next \/ UNCHANGED Over!vars

LEMMA OverSame ==
  ASSUME UNCHANGED <<held, made, handed>>, \A r \in Row : box'[r].state = box[r].state,
         \A r \in Row : job'[r] = "absent" <=> job[r] = "absent"
  PROVE  OverStep
<1>1. Stage' = Stage /\ Known' = Known
  BY DEF Stage, Known
<1> QED
  BY <1>1 DEF OverStep, Over!vars, Stage, Known

\* One row moves on, and the queue and the hold are as they were.
LEMMA OverMoves ==
  ASSUME NEW r \in Row, UNCHANGED <<held, made, job>>,
         \A q \in Row \ {r} : Stage'[q] = Stage[q],
         \/ Stage[r] = "new" /\ Stage'[r] = "owed"
         \/ Stage[r] = "accepted" /\ Stage'[r] = "delivered"
         \/ Stage[r] = "delivered" /\ Stage'[r] = "gone"
  PROVE  OverStep
<1>1. Known' = Known
  BY DEF Known
<1>2. Stage' = [Stage EXCEPT ![r] = Stage'[r]]
  BY DEF Stage
<1>3. Over!Commit(r) \/ Over!Deliver(r) \/ Over!Sweep(r)
  BY <1>1, <1>2 DEF Over!Commit, Over!Deliver, Over!Sweep, Over!Move, Stage, Known
<1> QED
  BY <1>3 DEF OverStep, Over!Next

\* One step keeps the invariant, and is a step of Handover.
Hands == OverInv' /\ OverStep

LEMMA QuietHands ==
  ASSUME Typed, OverInv, UNCHANGED <<held, made, handed, job>>,
         \A r \in Row : box'[r].state = box[r].state,
         \A p \in Pass, r \in Row : InHand(p, r)' => InHand(p, r)
  PROVE  Hands
BY OverKept, OverSame DEF Forward, Hands

LEMMA RowsHand ==
  ASSUME Typed, OverInv, NEW r \in Row, Enqueue(r) \/ Sweep(r)
  PROVE  Hands
<1>1. box \in [Row -> Box] /\ UNCHANGED <<job, pass, held, made, handed>>
  BY DEF Enqueue, Sweep, history, Typed, TypeOK
<1>2. \A q \in Row \ {r} : box'[q] = box[q]
  BY <1>1 DEF Enqueue, Sweep
<1>3. \/ box[r].state = "new" /\ box'[r].state = "owed" /\ Enqueue(r)
      \/ box[r].state = "delivered" /\ box'[r].state = "gone"
  BY <1>1 DEF Enqueue, Sweep, Box
<1>4. OverInv'
  BY <1>1, <1>2, <1>3, OverKept DEF Forward, InHand
<1>5. box[r].state = "new" => r \notin handed
  BY DEF OverInv
<1>6. /\ \A q \in Row \ {r} : Stage'[q] = Stage[q]
      /\ \/ Stage[r] = "new" /\ Stage'[r] = "owed"
         \/ Stage[r] = "delivered" /\ Stage'[r] = "gone"
  BY <1>1, <1>2, <1>3, <1>5 DEF Stage
<1> QED
  BY <1>1, <1>4, <1>6, OverMoves DEF Hands

LEMMA QueueHands ==
  ASSUME Typed, OverInv, NEW r \in Row, QueueMoves(r)
  PROVE  Hands
<1>1. UNCHANGED <<box, pass, held, made, handed>> /\ job \in [Row -> JobStatus]
  BY DEF QueueMoves, history, Typed, TypeOK
<1>2. \A p \in Pass, q \in Row : InHand(p, q)' => InHand(p, q)
  BY <1>1 DEF InHand
<1>3. CASE Settled(r) /\ Queue!Forget(r)
  <2>1. /\ job[r] # "absent" /\ job'[r] = "absent"
        /\ \A q \in Row \ {r} : job'[q] = job[q]
    BY <1>3 DEF Queue!Forget, Queue!Move
  <2>2. OverInv'
    BY <1>1, <1>2, <1>3, <2>1, OverKept DEF Forward
  <2>3. Known' = Known \ {r} /\ Stage' = Stage /\ Stage[r] \in {"delivered", "gone"}
    BY <1>1, <1>3, <2>1 DEF Known, Stage, Settled
  <2>4. Over!Forget(r)
    BY <1>1, <2>3 DEF Over!Forget, Stage, Known
  <2> QED
    BY <2>2, <2>4 DEF Hands, OverStep, Over!Next
<1>4. CASE \/ Queue!Begin(r) \/ Queue!End(r) \/ Queue!Cancel(r)
           \/ job[r] # "absent" /\ Queue!Enter(r)
  <2>1. /\ job[r] # "absent" /\ job'[r] # "absent"
        /\ \A q \in Row \ {r} : job'[q] = job[q]
    BY <1>4 DEF Queue!Begin, Queue!End, Queue!Cancel, Queue!Enter, Queue!Move, Queue!Live
  <2>2. \A q \in Row : job'[q] = "absent" <=> job[q] = "absent"
    BY <2>1
  <2> QED
    BY <1>1, <1>2, <2>2, OverKept, OverSame DEF Forward, Hands
<1> QED
  BY <1>3, <1>4 DEF QueueMoves, Settled

LEMMA ClaimHands ==
  ASSUME Typed, HeldInv, OverInv, NEW p \in Pass, NEW s \in pass[p].todo, Claim(p, s)
  PROVE  Hands
<1>0. pass \in [Pass -> Relay] /\ box \in [Row -> Box] /\ handed \subseteq Row /\ held \subseteq Row
  BY DEF Typed, TypeOK
<1>1. s.row \in Row /\ pass[p] \in Relay
  BY <1>0 DEF Relay, Seen
<1>2. /\ UNCHANGED <<job, held, made, handed>>
      /\ \A r \in Row : box'[r].state = box[r].state
  BY <1>0, <1>1 DEF Claim, Box
<1>3. \A q \in Pass, r \in Row : InHand(q, r)' => InHand(q, r) \/ r = s.row
  BY <1>0, <1>1 DEF Claim, Taking, InHand, Relay
<1>4. box[s.row].state = "owed" /\ s.row \notin held
  BY DEF Claim, Matches, HeldInv
<1>5. \A r \in Row : Settled(r) => Settled(r)'
  BY <1>2, <1>3, <1>4 DEF Settled
<1>6. OverInv'
  BY <1>0, <1>2, <1>3, <1>4, <1>5 DEF OverInv
<1> QED
  BY <1>2, <1>6, OverSame DEF Hands

LEMMA DispatchHands ==
  ASSUME Typed, OverInv, NEW p \in Pass, Dispatch(p)
  PROVE  Hands
<1> SUFFICES ASSUME NEW r \in Row, r = pass[p].row PROVE Hands
  BY DEF Dispatch, Typed, HasRow
<1>0. /\ pass \in [Pass -> Relay] /\ job \in [Row -> JobStatus] /\ made \in [Row -> Nat]
      /\ handed \subseteq Row /\ held \subseteq Row
  BY DEF Typed, TypeOK
<1>1. InHand(p, r)
  BY DEF Dispatch, InHand
<1>2. handed' = handed \union {r} /\ UNCHANGED <<box, held>>
  BY DEF Dispatch
<1>3. \A q \in Pass, k \in Row : InHand(q, k)' => InHand(q, k)
  BY <1>0 DEF Dispatch, Goes, InHand, Relay
<1>4. r \notin held /\ (box[r].state = "owed" \/ r \in handed) /\ ~Settled(r)
  BY <1>1 DEF OverInv, Settled
<1>5. /\ job'[r] # "absent" /\ \A k \in Row \ {r} : job'[k] = job[k]
      /\ job[r] # "absent" => UNCHANGED <<job, made>>
      /\ job[r] = "absent" => made' = [made EXCEPT ![r] = @ + 1]
  BY DEF Dispatch, Queue!Enter, Queue!Move
<1>6. \A k \in Row : Settled(k) => Settled(k)'
  BY <1>2, <1>3 DEF Settled
<1>7. OverInv'
  <2>1. ASSUME NEW k \in handed'
        PROVE  /\ k \notin held /\ box[k].state # "new"
               /\ job'[k] = "absent" => Settled(k)'
    <3>1. CASE k = r
      BY <1>4, <1>5, <3>1 DEF OverInv
    <3>2. CASE k # r
      BY <1>0, <1>2, <1>5, <1>6, <3>2 DEF OverInv
    <3> QED
      BY <3>1, <3>2
  <2> QED
    BY <1>2, <1>3, <2>1 DEF OverInv
<1>8. CASE r \in handed
  <2>1. job[r] # "absent" /\ handed' = handed
    BY <1>2, <1>4, <1>8 DEF OverInv
  <2> QED
    BY <1>2, <1>5, <1>7, <2>1, OverSame DEF Hands
<1>9. CASE r \notin handed
  <2>1. Stage[r] = "owed" /\ Stage' = [Stage EXCEPT ![r] = "accepted"]
    BY <1>0, <1>2, <1>4, <1>9 DEF Stage
  <2>2. Known' = Known \union {r}
    BY <1>5 DEF Known
  <2>3. made' = IF r \in Known THEN made ELSE [made EXCEPT ![r] = @ + 1]
    BY <1>5 DEF Known
  <2>4. Over!Accept(r)
    BY <1>2, <1>4, <2>1, <2>2, <2>3 DEF Over!Accept, Over!Move, Stage, Known
  <2> QED
    BY <1>7, <2>4 DEF Hands, OverStep, Over!Next
<1> QED
  BY <1>8, <1>9

LEMMA MarkHands ==
  ASSUME Typed, MarkInv, OverInv, NEW p \in Pass, Mark(p)
  PROVE  Hands
<1> DEFINE r == pass[p].row
<1>1. box \in [Row -> Box] /\ r \in Row /\ r \in handed
  BY DEF Mark, Typed, TypeOK, HasRow, MarkInv
<1>2. UNCHANGED <<job, held, made, handed>>
  BY DEF Mark, history
<1>3. /\ \A q \in Row \ {r} : box'[q] = box[q]
      /\ box'[r].state = IF box[r].state = "owed" THEN "delivered" ELSE box[r].state
  BY <1>1 DEF Mark, Box
<1>4. \A q \in Pass, k \in Row : InHand(q, k)' => InHand(q, k)
  BY Onwards DEF InHand
<1>5. CASE box[r].state = "owed"
  <2>1. OverInv'
    BY <1>1, <1>2, <1>3, <1>4, <1>5, OverKept DEF Forward
  <2>2. /\ \A q \in Row \ {r} : Stage'[q] = Stage[q]
        /\ Stage[r] = "accepted" /\ Stage'[r] = "delivered"
    BY <1>1, <1>2, <1>3, <1>5 DEF Stage
  <2> QED
    BY <1>1, <1>2, <2>1, <2>2, OverMoves DEF Hands
<1>6. CASE box[r].state # "owed"
  BY <1>2, <1>3, <1>4, <1>6, QuietHands
<1> QED
  BY <1>5, <1>6

\* An operator releases or drops what a restore holds.
LEMMA HoldHands ==
  ASSUME Typed, OverInv, Release \/ \E S \in SUBSET held : Drop(S)
  PROVE  Hands
<1>0. box \in [Row -> Box] /\ handed \subseteq Row /\ held \subseteq Row
  BY DEF Typed, TypeOK
<1>1. \A p \in Pass, r \in Row : InHand(p, r)' => InHand(p, r)
  BY DEF Release, Drop, InHand
<1>2. CASE Release
  <2>1. UNCHANGED <<box, job, made, handed>> /\ held' = {}
    BY <1>2 DEF Release, history
  <2>2. Stage' = Stage /\ Known' = Known
    BY <2>1 DEF Stage, Known
  <2>3. Over!Release
    BY <2>1, <2>2 DEF Over!Release, Stage, Known
  <2> QED
    BY <1>1, <2>1, <2>3, OverKept DEF Forward, Hands, OverStep, Over!Next
<1>3. ASSUME NEW S \in SUBSET held, Drop(S) PROVE Hands
  <2>1. UNCHANGED <<job, made, handed>> /\ held' = IF S = held THEN {} ELSE held
    BY <1>3 DEF Drop, history
  <2>2. \A r \in Row : box'[r].state = IF r \in S /\ box[r].state = "owed" THEN "gone" ELSE box[r].state
    BY <1>0, <1>3 DEF Drop, Box
  <2>3. OverInv'
    BY <1>1, <2>1, <2>2, OverKept DEF Forward
  <2>4. \A r \in S : r \notin handed
    BY DEF OverInv
  <2>5. Stage' = [r \in Row |-> IF r \in S /\ Stage[r] = "owed" THEN "gone" ELSE Stage[r]]
    BY <2>1, <2>2, <2>4 DEF Stage
  <2>6. Known' = Known
    BY <2>1 DEF Known
  <2>7. Over!Drop(S)
    BY <2>1, <2>5, <2>6 DEF Over!Drop, Stage, Known
  <2> QED
    BY <2>3, <2>7 DEF Hands, OverStep, Over!Next
<1> QED
  BY <1>2, <1>3

\* What a pass does besides claiming, dispatching and marking, and what time does.
LEMMA RestHands ==
  ASSUME Typed, OverInv,
         \/ \E r \in Row : Rested(r)
         \/ \E p \in Pass : \/ Read(p) \/ Refuse(p) \/ ReleaseClaim(p) \/ End(p) \/ Crash(p)
                            \/ \E s \in pass[p].todo : Skip(p, s)
         \/ Lapse \/ UNCHANGED vars
  PROVE  Hands
<1>0. box \in [Row -> Box] /\ pass \in [Pass -> Relay]
  BY DEF Typed, TypeOK
<1>1. UNCHANGED <<job, held, made, handed>>
  BY DEF Rested, Read, Refuse, ReleaseClaim, End, Crash, Skip, Lapse, vars, history
<1>2. \A r \in Row : box'[r].state = box[r].state
  <2>1. ASSUME NEW r \in Row, Rested(r) PROVE \A q \in Row : box'[q].state = box[q].state
    BY <1>0, <2>1 DEF Rested, Box
  <2>2. ASSUME NEW p \in Pass, ReleaseClaim(p) PROVE \A q \in Row : box'[q].state = box[q].state
    BY <1>0, <2>2 DEF ReleaseClaim, Box
  <2> QED
    BY <2>1, <2>2 DEF Read, Refuse, End, Crash, Skip, Lapse, vars
<1>3. \A p \in Pass, r \in Row : InHand(p, r)' => InHand(p, r)
  <2>1. ASSUME NEW p \in Pass, Read(p) PROVE \A q \in Pass, r \in Row : InHand(q, r)' => InHand(q, r)
    <3>1. pass'[p].at = "walk" /\ \A q \in Pass \ {p} : pass'[q] = pass[q]
      BY <1>0, <2>1 DEF Read
    <3> QED
      BY <3>1 DEF InHand
  <2>2. ASSUME NEW p \in Pass, Refuse(p) PROVE \A q \in Pass, r \in Row : InHand(q, r)' => InHand(q, r)
    BY <1>0, <2>2 DEF Refuse, Goes, InHand, Relay
  <2>3. ASSUME NEW p \in Pass, ReleaseClaim(p)
        PROVE  \A q \in Pass, r \in Row : InHand(q, r)' => InHand(q, r)
    BY <2>3, Onwards DEF InHand
  <2>4. ASSUME NEW p \in Pass, End(p) \/ Crash(p)
        PROVE  \A q \in Pass, r \in Row : InHand(q, r)' => InHand(q, r)
    BY <1>0, <2>4 DEF End, Crash, Idle, InHand
  <2>5. ASSUME NEW p \in Pass, NEW s \in pass[p].todo, Skip(p, s)
        PROVE  \A q \in Pass, r \in Row : InHand(q, r)' => InHand(q, r)
    BY <1>0, <2>5 DEF Skip, InHand, Relay
  <2>6. CASE UNCHANGED pass
    BY <2>6 DEF InHand
  <2> QED
    BY <2>1, <2>2, <2>3, <2>4, <2>5, <2>6 DEF Rested, Lapse, vars
<1> QED
  BY <1>1, <1>2, <1>3, QuietHands

-----------------------------------------------------------------------------
(* The theorem                                                             *)

LEMMA NextHands == Typed /\ HeldInv /\ MarkInv /\ OverInv /\ [Next]_vars => Hands
BY RowsHand, QueueHands, ClaimHands, DispatchHands, MarkHands, HoldHands, RestHands
DEF Next, Walk, Settle

LEMMA OverInit == Init => OverInv /\ Over!Init
<1> SUFFICES ASSUME Init PROVE OverInv /\ Over!Init
  OBVIOUS
<1>1. /\ held \in SUBSET Held /\ held \subseteq Row /\ handed = {}
      /\ \A r \in Row : box[r].state = IF r \in held THEN "owed" ELSE "new"
  BY OutboxAssumption DEF Init
<1>2. OverInv
  BY <1>1 DEF Init, OverInv, InHand, Idle
<1>3. Stage = [r \in Row |-> IF r \in held THEN "owed" ELSE "new"] /\ Known \in SUBSET held
  BY <1>1 DEF Init, Stage, Known
<1> QED
  BY <1>1, <1>2, <1>3 DEF Init, Over!Init, Stage, Known

\* Whatever passes overlap, crash and outlive their claims, and whatever the queue
\* does meanwhile: a committed row is accepted once, as one job under its own id,
\* and only then delivered; a restored one not before an operator lets it.
THEOREM HandedOverAsPromised == Spec => ImplementsHandover
<1>1. Init => MarkInv /\ HeldInv
  BY OutboxAssumption DEF Init, MarkInv, HeldInv, Idle
<1>2. Typed /\ HeldInv /\ MarkInv /\ OverInv /\ [Next]_vars => OverInv' /\ [Over!Next]_(Over!vars)
  BY NextHands DEF Hands, OverStep
<1> QED
  BY <1>1, <1>2, OverInit, TypedAlways, MarkNext, HeldNext, PTL
     DEF Spec, ImplementsHandover, Over!Spec
=============================================================================
