------------------------------ MODULE JobLife ------------------------------
(***************************************************************************)
(* What the job queue promises whoever dispatches: the states one job can  *)
(* be in and the ways it moves between them, whichever process, timer or   *)
(* operator moves it.  Caravan implements it; a component that hands work  *)
(* to the queue relies on no more than this.                               *)
(***************************************************************************)

CONSTANTS Job, Null, KeyOf

VARIABLE status

Live == {"pending", "running"}

KeyFree(j) ==
  KeyOf[j] # Null =>
    \A k \in Job \ {j} : KeyOf[k] = KeyOf[j] => status[k] \notin Live

Init == status = [j \in Job |-> "absent"]

\* The jobs of S, all in one of the states from, move to the state to.
Move(S, from, to) ==
  /\ \A j \in S : status[j] \in from
  /\ status' = [j \in Job |-> IF j \in S THEN to ELSE status[j]]

\* A job becomes live: dispatched, or brought back from dead or cancelled.
\* Never from done, and never while another live job has its unique key.
Enter(j) == KeyFree(j) /\ Move({j}, {"absent", "dead", "cancelled"}, "pending")

Begin(j) == Move({j}, {"pending"}, "running")

\* An attempt ends, well or badly.
End(j) == \E s \in {"done", "dead", "pending"} : Move({j}, {"running"}, s)

\* Cancelled, from either live state, and final until somebody brings it back.
Cancel(j) == Move({j}, Live, "cancelled")

\* The row goes: purged while waiting, or swept once over.
Forget(j) == Move({j}, {"done", "dead", "cancelled"}, "absent")

Next ==
  \/ \E j \in Job : Enter(j) \/ Begin(j) \/ End(j) \/ Cancel(j) \/ Forget(j)
  \/ \E S \in SUBSET Job : \/ Move(S, {"running"}, "pending")   \* recovery
                           \/ Move(S, {"pending"}, "absent")    \* a purge

Spec == Init /\ [][Next]_status
=============================================================================
