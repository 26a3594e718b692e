----------------------------- MODULE Handover ------------------------------
(***************************************************************************)
(* What the outbox promises whoever writes a row in a transaction: once    *)
(* committed, the row is accepted by the job queue under its own id, then  *)
(* marked delivered, each once and in that order, whatever relays overlap, *)
(* crash or outlive their claims.  A row restored from a backup waits for  *)
(* an operator, and may be known to the queue already.                     *)
(***************************************************************************)
EXTENDS Naturals

CONSTANTS Row, Held

VARIABLES
  stage,  \* of each row: new, owed, accepted, delivered or gone
  known,  \* the rows whose id the queue has a job for
  made,   \* how many jobs the queue has made for each row, ever
  held    \* the rows an operator has still to release

vars == <<stage, known, made, held>>

Init ==
  /\ held \in SUBSET Held
  /\ stage = [r \in Row |-> IF r \in held THEN "owed" ELSE "new"]
  /\ known \in SUBSET held
  /\ made = [r \in Row |-> 0]

Move(r, from, to) == stage[r] = from /\ stage' = [stage EXCEPT ![r] = to]

Commit(r) == Move(r, "new", "owed") /\ UNCHANGED <<known, made, held>>

\* The queue makes a job of the row, unless it has one of that id.
Accept(r) ==
  /\ r \notin held /\ Move(r, "owed", "accepted")
  /\ known' = known \union {r}
  /\ made' = IF r \in known THEN made ELSE [made EXCEPT ![r] = @ + 1]
  /\ UNCHANGED held

Deliver(r) == Move(r, "accepted", "delivered") /\ UNCHANGED <<known, made, held>>
Sweep(r) == Move(r, "delivered", "gone") /\ UNCHANGED <<known, made, held>>

\* The queue forgets a job: never one whose row may still be handed over.
Forget(r) ==
  /\ stage[r] \in {"delivered", "gone"} /\ known' = known \ {r}
  /\ UNCHANGED <<stage, made, held>>

\* The operator drops held rows, or lets all of them go on.
Drop(S) ==
  /\ stage' = [r \in Row |-> IF r \in S /\ stage[r] = "owed" THEN "gone" ELSE stage[r]]
  /\ held' = IF S = held THEN {} ELSE held
  /\ UNCHANGED <<known, made>>
Release == held' = {} /\ UNCHANGED <<stage, known, made>>

Next ==
  \/ \E r \in Row : Commit(r) \/ Accept(r) \/ Deliver(r) \/ Sweep(r) \/ Forget(r)
  \/ \E S \in SUBSET held : Drop(S)
  \/ Release

Spec == Init /\ [][Next]_vars
=============================================================================
