------------------------------ MODULE RunLife ------------------------------
(***************************************************************************)
(* What orion promises of a run: the statuses it moves between, as the Run *)
(* model declares them (@@transitions in orion.lite, which nothing at      *)
(* runtime holds the engine to), and the resume keys that go with them.  A *)
(* run takes a key when it suspends, and whatever ends the wait spends it. *)
(*                                                                         *)
(* A run may come loose: two attempts were inside it at once, or a cancel  *)
(* ended it on a stale reading.  Then its own moves are no longer promised,*)
(* but a key is still drawn once, and no other run is touched.             *)
(***************************************************************************)

CONSTANTS Run, Key, Null

VARIABLES
  status,  \* of each run
  holder,  \* the run that waits for each key, or Null
  drawn,   \* the keys some run has taken, ever
  loose    \* the runs of which no move is promised any more

vars == <<status, holder, drawn, loose>>

Init ==
  /\ status = [r \in Run |-> "absent"]
  /\ holder = [k \in Key |-> Null]
  /\ drawn = {} /\ loose = {}

Move(r, from, to) ==
  /\ r \notin loose /\ status[r] \in from
  /\ status' = [status EXCEPT ![r] = to]

\* k is the only key the run waits for, and from now on nobody's.
Spend(r, k) ==
  /\ \A l \in Key : holder[l] = r <=> l = k
  /\ holder' = [holder EXCEPT ![k] = Null]

Create(r) == Move(r, {"absent"}, "pending") /\ UNCHANGED <<holder, drawn, loose>>
Start(r) == Move(r, {"pending"}, "running") /\ UNCHANGED <<holder, drawn, loose>>
Suspend(r, k) ==
  /\ k \notin drawn /\ drawn' = drawn \union {k}
  /\ holder' = [holder EXCEPT ![k] = r]
  /\ Move(r, {"pending", "running"}, "waiting")
  /\ UNCHANGED loose
Resume(r, k) == Spend(r, k) /\ Move(r, {"waiting"}, "running") /\ UNCHANGED <<drawn, loose>>
Complete(r) == Move(r, {"running"}, "completed") /\ UNCHANGED <<holder, drawn, loose>>

\* Failing and cancelling: on its way, or while it waits, with the key it waits for.
Stop(r, to) == Move(r, {"pending", "running"}, to) /\ UNCHANGED <<holder, drawn, loose>>
StopWaiting(r, k, to) ==
  Spend(r, k) /\ Move(r, {"waiting"}, to) /\ UNCHANGED <<drawn, loose>>

\* A loose run moves anyhow, and takes a fresh key or spends some of its own.
Stray(r) ==
  /\ loose' = loose \union {r}
  /\ \A q \in Run \ {r} : status'[q] = status[q]
  /\ \/ /\ drawn' = drawn
        /\ \A k \in Key : holder'[k] = holder[k] \/ (holder[k] = r /\ holder'[k] = Null)
     \/ \E k \in Key \ drawn : drawn' = drawn \union {k} /\ holder' = [holder EXCEPT ![k] = r]

Next ==
  \E r \in Run :
    \/ Create(r) \/ Start(r) \/ Complete(r) \/ Stray(r)
    \/ \E to \in {"failed", "cancelled"} : Stop(r, to) \/ \E k \in Key : StopWaiting(r, k, to)
    \/ \E k \in Key : Suspend(r, k) \/ Resume(r, k)

Spec == Init /\ [][Next]_vars
=============================================================================
