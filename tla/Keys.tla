-------------------------------- MODULE Keys --------------------------------
(***************************************************************************)
(* Idempotency keys in packages/junction: what a service call does with    *)
(* the cache entry of the key it carries.  The claim runs from get to set  *)
(* without an await, so it is one step; the settle is another, after the   *)
(* method, and writes whatever the cache holds by then.                    *)
(*                                                                         *)
(* An entry names the request it was made for: two requests under one key  *)
(* have different fingerprints.                                            *)
(***************************************************************************)
CONSTANTS Key, Request, Null

VARIABLE entry

Entry == [state : {"pending", "done"}, of : Request]
KeysType == entry \in [Key -> Entry \union {Null}]

Pending(r) == [state |-> "pending", of |-> r]
Done(r) == [state |-> "done", of |-> r]

Empty == entry = [k \in Key |-> Null]

Another(k, r) == entry[k] # Null /\ entry[k].of # r

\* claimIdempotency: the key is free, the answer is known, or the call is
\* refused: 409 while the first is running, 422 for another request's key.
ClaimsPending(k, r) ==
  /\ entry[k] \in {Null, Pending(r)}
  /\ entry' = [entry EXCEPT ![k] = Pending(r)]
Claims(k, r) == entry[k] = Null /\ entry' = [entry EXCEPT ![k] = Pending(r)]
ReplaysUnfinished(k, r) == entry[k] \in {Pending(r), Done(r)} /\ UNCHANGED entry
Replays(k, r) == entry[k] = Done(r) /\ UNCHANGED entry
Refuses(k, r) == (entry[k] = Pending(r) \/ Another(k, r)) /\ UNCHANGED entry

\* settle, of a call that succeeded and of one that failed.
Keeps(k, r) == entry' = [entry EXCEPT ![k] = Done(r)]
Frees(k) == entry' = [entry EXCEPT ![k] = Null]

\* The memory driver's cache after a restart.
Clears == entry' = [k \in Key |-> Null]
=============================================================================
