------------------------------- MODULE Outbox -------------------------------
(***************************************************************************)
(* The transactional outbox of packages/junction: rows written inside a    *)
(* call's transaction, and relay passes that hand each to the job queue    *)
(* and mark it delivered.  A pass is one run of deliverFrom, begun by a    *)
(* timer or by the kick after a commit, in any process: passes over one    *)
(* database overlap, and the queue is another file.  Every statement is    *)
(* one atomic step, with other passes' between.  The queue is JobLife.     *)
(*                                                                         *)
(* A claim's time is its pass's `now`; claimed at 0 is SQL's NULL.  Times  *)
(* are ranks: 1 for the first pass begun, and so on.  Those up to horizon  *)
(* are older than claimTimeoutMs.  A batch takes every row that is owed,   *)
(* in any order.                                                           *)
(***************************************************************************)
EXTENDS Naturals, FiniteSets

CONSTANTS
  Row, Pass, Null,
  Timer,         \* the passes a clock begins; the others are kicks
  Held,          \* rows a restored backup may hold
  MaxAttempts,   \* attempts before a row is dead; 0 never gives up
  Refusing,      \* whether the queue, or the database, may refuse a write
  MaxPasses,     \* bound: how many passes are ever begun
  MaxCrashes     \* bound: how many passes die

ASSUME OutboxAssumption ==
  /\ Null \notin Row /\ Held \subseteq Row /\ Timer \subseteq Pass
  /\ MaxAttempts \in Nat /\ MaxPasses \in Nat /\ MaxCrashes \in Nat
  /\ Refusing \in BOOLEAN

VARIABLES
  box,      \* the outbox rows
  job,      \* the status of each row's job in the queue
  pass,     \* what each pass is doing
  held,     \* the rows at or before the backup's stamp
  clock, horizon, crashes,
  taken,    \* history: how many claims of each row have succeeded
  handed,   \* history: the rows whose dispatch has been accepted
  made,     \* history: how many jobs the queue has made for each row
  overran   \* history: rows in a pass's hands when its claim was stale

history == <<taken, handed, made, overran>>
vars == <<box, job, pass, held, clock, horizon, crashes, history>>

Queue == INSTANCE JobLife WITH Job <- Row, KeyOf <- [r \in Row |-> Null], status <- job

JobStatus == {"absent", "pending", "running", "done", "dead", "cancelled"}
Box == [state: {"new", "owed", "delivered", "gone"}, claim: Nat, tries: Nat, resting: BOOLEAN]
Seen == [row: Row, claim: Nat, tries: Nat]
Relay == [at: {"idle", "walk", "hand", "mark", "fail"}, now: Nat,
          todo: SUBSET Seen, row: Row \union {Null}]

Idle == [at |-> "idle", now |-> 0, todo |-> {}, row |-> Null]

\* The database may be a restored one.  Its rows were owed when the backup was
\* taken: their jobs may be over since, or never have been.
Init ==
  /\ held \in SUBSET Held
  /\ box = [r \in Row |-> [state |-> IF r \in held THEN "owed" ELSE "new",
                           claim |-> 0, tries |-> 0, resting |-> FALSE]]
  /\ job \in [Row -> {"absent", "done"}]
  /\ \A r \in Row \ held : job[r] = "absent"
  /\ pass = [p \in Pass |-> Idle]
  /\ clock = 0 /\ horizon = 0 /\ crashes = 0
  /\ taken = [r \in Row |-> 0]
  /\ handed = {}
  /\ made = [r \in Row |-> 0]
  /\ overran = {}

InHand(p, r) == pass[p].at \in {"hand", "mark", "fail"} /\ pass[p].row = r

Dead(r) == MaxAttempts > 0 /\ box[r].tries >= MaxAttempts

-----------------------------------------------------------------------------
(* A call, and one pass of the relay                                       *)

\* The transaction that enqueued the row commits.
Enqueue(r) ==
  /\ box[r].state = "new"
  /\ box' = [box EXCEPT ![r].state = "owed"]
  /\ UNCHANGED <<job, pass, held, clock, horizon, crashes, history>>

\* owedWhere.
OwedUnclaimed(r) ==
  /\ box[r].state = "owed" /\ ~Dead(r) /\ r \notin held
  /\ box[r].claim = 0 /\ ~box[r].resting
OwedHeldToo(r) ==
  /\ box[r].state = "owed" /\ ~Dead(r)
  /\ box[r].claim <= horizon /\ ~box[r].resting
Owed(r) ==
  /\ box[r].state = "owed" /\ ~Dead(r) /\ r \notin held
  /\ box[r].claim <= horizon /\ ~box[r].resting

\* A pass that reads nothing owed ends as it began.
Read(p) ==
  /\ pass[p].at = "idle" /\ clock < MaxPasses
  /\ \E r \in Row : Owed(r)
  /\ clock' = clock + 1
  /\ pass' = [pass EXCEPT ![p] =
       [at |-> "walk", now |-> clock + 1, row |-> Null,
        todo |-> {[row |-> r, claim |-> box[r].claim, tries |-> box[r].tries] :
                  r \in {q \in Row : Owed(q)}}]]
  /\ UNCHANGED <<box, job, held, horizon, crashes, history>>

\* The compare and set: the claim the pass read is still the row's.
MatchesAnyClaim(s) == box[s.row].state = "owed"
Matches(s) == box[s.row].state = "owed" /\ box[s.row].claim = s.claim

Taking(p, s) == [pass[p] EXCEPT !.at = "hand", !.todo = @ \ {s}, !.row = s.row]

Claim(p, s) ==
  /\ pass[p].at = "walk" /\ s \in pass[p].todo /\ Matches(s)
  /\ box' = [box EXCEPT ![s.row] = [@ EXCEPT !.claim = pass[p].now, !.tries = s.tries + 1]]
  /\ pass' = [pass EXCEPT ![p] = Taking(p, s)]
  /\ taken' = [taken EXCEPT ![s.row] = @ + 1]
  /\ overran' = IF pass[p].now <= horizon THEN overran \union {s.row} ELSE overran
  /\ UNCHANGED <<job, held, clock, horizon, crashes, handed, made>>

Skip(p, s) ==
  /\ pass[p].at = "walk" /\ s \in pass[p].todo /\ ~Matches(s)
  /\ pass' = [pass EXCEPT ![p].todo = @ \ {s}]
  /\ UNCHANGED <<box, job, held, clock, horizon, crashes, history>>

Goes(p, at) == pass' = [pass EXCEPT ![p].at = at]

\* dispatch under the row's own id: a job of that id, in any state, is the one.
DispatchMisnamed(p) ==
  /\ pass[p].at = "hand"
  /\ job' = [job EXCEPT ![pass[p].row] = IF @ = "absent" THEN "queued" ELSE @]
  /\ handed' = handed \union {pass[p].row}
  /\ Goes(p, "mark")
  /\ UNCHANGED <<box, held, clock, horizon, crashes, taken, made, overran>>
DispatchUnstated(p) ==
  /\ pass[p].at = "hand"
  /\ LET r == pass[p].row IN
       /\ job' = [job EXCEPT ![r] = "pending"]
       /\ made' = [made EXCEPT ![r] = @ + 1]
       /\ handed' = handed \union {r}
  /\ Goes(p, "mark")
  /\ UNCHANGED <<box, held, clock, horizon, crashes, taken, overran>>
Dispatch(p) ==
  /\ pass[p].at = "hand"
  /\ LET r == pass[p].row IN
       /\ IF job[r] = "absent"
          THEN Queue!Enter(r) /\ made' = [made EXCEPT ![r] = @ + 1]
          ELSE UNCHANGED <<job, made>>
       /\ handed' = handed \union {r}
  /\ Goes(p, "mark")
  /\ UNCHANGED <<box, held, clock, horizon, crashes, taken, overran>>

\* The dispatch throws, or the mark after it.
RefuseIgnored(p) ==
  /\ Refusing /\ pass[p].at = "hand"
  /\ Goes(p, "mark")
  /\ UNCHANGED <<box, job, held, clock, horizon, crashes, history>>
Refuse(p) ==
  /\ Refusing /\ pass[p].at \in {"hand", "mark"}
  /\ Goes(p, "fail")
  /\ UNCHANGED <<box, job, held, clock, horizon, crashes, history>>

Onward(p) == [pass[p] EXCEPT !.at = "walk", !.row = Null]

\* Neither this update nor Release's is guarded on the claim.
Mark(p) ==
  /\ pass[p].at = "mark"
  /\ box' = [box EXCEPT ![pass[p].row].state = IF @ = "owed" THEN "delivered" ELSE @]
  /\ pass' = [pass EXCEPT ![p] = Onward(p)]
  /\ UNCHANGED <<job, held, clock, horizon, crashes, history>>

\* The catch block: the claim goes, the backoff starts, the attempt stays counted.
ReleaseClaim(p) ==
  /\ pass[p].at = "fail"
  /\ box' = [box EXCEPT ![pass[p].row] = [@ EXCEPT !.claim = 0, !.resting = TRUE]]
  /\ pass' = [pass EXCEPT ![p] = Onward(p)]
  /\ UNCHANGED <<job, held, clock, horizon, crashes, history>>

\* The list is done; or the catch block's own update is refused, which ends
\* the pass with its claim in place.
End(p) ==
  /\ \/ pass[p].at = "walk" /\ pass[p].todo = {}
     \/ pass[p].at = "fail" /\ Refusing
  /\ pass' = [pass EXCEPT ![p] = Idle]
  /\ UNCHANGED <<box, job, held, clock, horizon, crashes, history>>

Crash(p) ==
  /\ pass[p].at # "idle" /\ crashes < MaxCrashes
  /\ crashes' = crashes + 1
  /\ pass' = [pass EXCEPT ![p] = Idle]
  /\ UNCHANGED <<box, job, held, clock, horizon, history>>

-----------------------------------------------------------------------------
(* Time, the operator, the sweeps and the queue                            *)

\* One more pass's `now` falls behind claimTimeoutMs, whether or not the pass is over.
Lapse ==
  /\ horizon < clock
  /\ horizon' = horizon + 1
  /\ overran' = overran \union
       {r \in Row : \E p \in Pass : InHand(p, r) /\ pass[p].now = horizon + 1}
  /\ UNCHANGED <<box, job, pass, held, clock, crashes, taken, handed, made>>

\* nextAttemptAt is reached.
Rested(r) ==
  /\ box[r].resting
  /\ box' = [box EXCEPT ![r].resting = FALSE]
  /\ UNCHANGED <<job, pass, held, clock, horizon, crashes, history>>

Release ==
  /\ held # {} /\ held' = {}
  /\ UNCHANGED <<box, job, pass, clock, horizon, crashes, history>>

Drop(S) ==
  /\ S # {} /\ S \subseteq held
  /\ box' = [r \in Row |-> IF r \in S /\ box[r].state = "owed"
                           THEN [box[r] EXCEPT !.state = "gone"] ELSE box[r]]
  /\ held' = IF S = held THEN {} ELSE held
  /\ UNCHANGED <<job, pass, clock, horizon, crashes, history>>

SweepByAge(r) ==
  /\ box[r].state \in {"owed", "delivered"}
  /\ box' = [box EXCEPT ![r].state = "gone"]
  /\ UNCHANGED <<job, pass, held, clock, horizon, crashes, history>>
\* Delivered rows past their retention.
Sweep(r) ==
  /\ box[r].state = "delivered"
  /\ box' = [box EXCEPT ![r].state = "gone"]
  /\ UNCHANGED <<job, pass, held, clock, horizon, crashes, history>>

\* The queue runs the jobs.  It keeps a finished one for days: not until the row
\* is settled and out of every pass's hands does it forget it.
QueueMoves(r) ==
  /\ \/ Queue!Begin(r) \/ Queue!End(r) \/ Queue!Cancel(r)
     \/ job[r] # "absent" /\ Queue!Enter(r)
     \/ /\ box[r].state \in {"delivered", "gone"} /\ \A p \in Pass : ~InHand(p, r)
        /\ Queue!Forget(r)
  /\ UNCHANGED <<box, pass, held, clock, horizon, crashes, history>>

Walk(p) == \E s \in pass[p].todo : Claim(p, s) \/ Skip(p, s)
Settle(p) == Dispatch(p) \/ Refuse(p) \/ Mark(p) \/ ReleaseClaim(p) \/ End(p)

Next ==
  \/ \E r \in Row : Enqueue(r) \/ Rested(r) \/ Sweep(r) \/ QueueMoves(r)
  \/ \E p \in Pass : Read(p) \/ Walk(p) \/ Settle(p) \/ Crash(p)
  \/ Lapse
  \/ Release
  \/ \E S \in SUBSET held : Drop(S)

Spec == Init /\ [][Next]_vars

\* The relay's interval fires, every await of a pass settles, and time passes.
Fairness ==
  /\ \A p \in Timer : WF_vars(Read(p))
  /\ \A p \in Pass : WF_vars(Walk(p) \/ Settle(p))
  /\ WF_vars(Lapse)
  /\ \A r \in Row : WF_vars(Rested(r))

FairSpec == Spec /\ Fairness

-----------------------------------------------------------------------------
(* What must hold                                                          *)

TypeOK ==
  /\ box \in [Row -> Box]
  /\ job \in [Row -> JobStatus]
  /\ pass \in [Pass -> Relay]
  /\ held \subseteq Row
  /\ clock \in Nat /\ horizon \in Nat /\ crashes \in Nat
  /\ taken \in [Row -> Nat] /\ made \in [Row -> Nat]
  /\ handed \subseteq Row /\ overran \subseteq Row

\* "Only the one whose UPDATE matches takes it": two passes have one row in hand
\* at once only if one of them outlived its claim on it.
OneRelayPerRow ==
  \A r \in Row \ overran, p, q \in Pass : InHand(p, r) /\ InHand(q, r) => p = q

\* "A no-op rather than duplicate work": however often a row is handed over, by
\* passes that crash, overlap and outlive their claims, the queue makes one job.
OneJobPerRow == \A r \in Row : made[r] <= 1

\* A row is marked delivered only when the queue has accepted its job.
DeliveredWasHandedOver ==
  \A r \in Row : box[r].state = "delivered" => r \in handed

\* After a restore nothing takes a row of the backup before an operator has
\* released it.
HeldWaits == \A r \in held : taken[r] = 0

\* A committed row that is not held is delivered, dead or dropped in the end.
NoneForgotten ==
  \A r \in Row :
    (box[r].state = "owed" /\ r \notin held) ~> (box[r].state \in {"delivered", "gone"} \/ Dead(r))

\* outbox.lite: attempts is "how many times a relay has TAKEN this row".
TakenIsCounted == \A r \in Row : box[r].tries = taken[r]

-----------------------------------------------------------------------------
(* What the writer of a row is promised                                    *)

Over == INSTANCE Handover WITH
  stage <- [r \in Row |-> IF box[r].state = "owed" /\ r \in handed THEN "accepted"
                          ELSE box[r].state],
  known <- {r \in Row : job[r] # "absent"}
ImplementsHandover == Over!Spec
=============================================================================
