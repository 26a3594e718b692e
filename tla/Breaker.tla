------------------------------ MODULE Breaker ------------------------------
(***************************************************************************)
(* The Resilience of packages/conduit: for one target, a circuit breaker   *)
(* and a cap on the sends in flight.  Every method is synchronous, so each *)
(* is one atomic step; what happens between an admission and its release   *)
(* is the business of whoever sends.                                       *)
(*                                                                         *)
(* openedAt is the circuit: "closed" is null, "open" a time within the     *)
(* reset window, "due" an older one.  What a target declares of its        *)
(* threshold and cap is kept beside its counts, goes with them, and may be *)
(* replaced under them; a target that declared nothing is graded by the    *)
(* conduit's own.                                                          *)
(***************************************************************************)
EXTENDS Naturals

CONSTANTS
  Terms,      \* what a target may be graded by: its failure_threshold and
              \* max_concurrent; a threshold of 0 turns the breaker off
  Standard,   \* the conduit's own terms
  Most        \* no threshold is higher

VARIABLES failures, circuit, halfOpen, inFlight,
          terms   \* what the target is graded by

breaker == <<failures, circuit, halfOpen, inFlight, terms>>

\* Failures beyond every threshold are counted by the code and told apart by
\* nothing.
BreakerType ==
  /\ failures \in 0..Most
  /\ circuit \in {"closed", "open", "due"}
  /\ halfOpen \in BOOLEAN
  /\ inFlight \in Nat /\ terms \in Terms

Fresh ==
  /\ failures = 0 /\ circuit = "closed" /\ halfOpen = FALSE /\ inFlight = 0
  /\ terms \in Terms

-----------------------------------------------------------------------------
(* admit: three answers                                                    *)

Trips == terms.threshold > 0 /\ circuit # "closed"
Sheds == Trips /\ (circuit = "open" \/ halfOpen)

\* The first request after the window takes the trial.
AdmitStampede ==
  /\ ~(Trips /\ circuit = "open") /\ inFlight < terms.cap
  /\ halfOpen' = (halfOpen \/ Trips)
  /\ inFlight' = inFlight + 1
  /\ UNCHANGED <<failures, circuit, terms>>
Admit ==
  /\ ~Sheds /\ inFlight < terms.cap
  /\ halfOpen' = (halfOpen \/ Trips)
  /\ inFlight' = inFlight + 1
  /\ UNCHANGED <<failures, circuit, terms>>

CircuitOpen == Sheds /\ UNCHANGED breaker

\* A trial that finds no slot is undone.
Overloaded ==
  /\ ~Sheds /\ inFlight >= terms.cap
  /\ halfOpen' = (halfOpen /\ circuit = "closed")
  /\ UNCHANGED <<failures, circuit, inFlight, terms>>

-----------------------------------------------------------------------------
(* release, by the outcome                                                 *)

Freed == inFlight' = (IF inFlight = 0 THEN 0 ELSE inFlight - 1) /\ terms' = terms

Success ==
  /\ failures' = 0 /\ circuit' = "closed" /\ halfOpen' = FALSE

OtherKeepingTrial == UNCHANGED <<failures, circuit, halfOpen>>
Other == halfOpen' = FALSE /\ UNCHANGED <<failures, circuit>>

TargetFault ==
  LET counted == IF failures < Most THEN failures + 1 ELSE Most IN
  /\ failures' = counted
  /\ circuit' = IF halfOpen \/ counted >= terms.threshold THEN "open" ELSE circuit
  /\ halfOpen' = FALSE

\* With the breaker off, a release frees its slot and reports nothing.
Release(outcome) ==
  /\ Freed
  /\ IF terms.threshold = 0 THEN UNCHANGED <<failures, circuit, halfOpen>>
     ELSE \/ outcome = "success" /\ Success
          \/ outcome = "other" /\ Other
          \/ outcome = "target_fault" /\ TargetFault

\* The target is deregistered: its state goes, whatever is in flight, and what
\* it declared with it.
Forget ==
  /\ failures' = 0 /\ circuit' = "closed" /\ halfOpen' = FALSE /\ inFlight' = 0
  /\ terms' = Standard

\* setResilience: the terms change and the counts do not.  Under a longer reset
\* window a circuit that was due is open again.
Regrade ==
  /\ terms' \in Terms
  /\ circuit' = circuit \/ (circuit = "due" /\ circuit' = "open")
  /\ UNCHANGED <<failures, halfOpen, inFlight>>

\* Time.
Elapse ==
  /\ circuit = "open" /\ circuit' = "due"
  /\ UNCHANGED <<failures, halfOpen, inFlight, terms>>
=============================================================================
