------------------------------- MODULE Calls -------------------------------
(***************************************************************************)
(* One conduit sending to one Junction app: Conduit's send with the        *)
(* breaker (Breaker) before it and the http transport's retry ladder under *)
(* it, the service calls the requests become with their idempotency keys   *)
(* (Keys), and above it a caller that sends again whatever it was told is  *)
(* retryable, as a caravan job does.                                       *)
(*                                                                         *)
(* A copy is one request on the wire and the service call it becomes.  A   *)
(* client that stops listening stops nothing: the copy goes on.  Every     *)
(* send is of a write that is not idempotent by method.                    *)
(***************************************************************************)
EXTENDS Naturals, FiniteSets

CONSTANTS
  Call,        \* the calls a caller has to make
  Key, Null,
  KeyOf,       \* a call's idempotency key, or Null
  Impatient,   \* the calls whose timeout is shorter than the target's
  Retries,     \* retry_limit
  Terms, Standard, Most,  \* as in Breaker
  Copy,        \* names for the copies; bound: that many at once
  MaxLosses    \* bound: entries lost for each key

ASSUME CallsAssumption ==
  /\ KeyOf \in [Call -> Key \union {Null}] /\ Impatient \subseteq Call
  /\ Null \notin Call \union Key \union Copy
  /\ Null \notin [state : {"pending", "done"}, of : Call]
  /\ Terms \subseteq [threshold : Nat, cap : Nat] /\ Standard \in Terms
  /\ Most \in Nat /\ \A t \in Terms : t.threshold <= Most
  /\ Retries \in Nat /\ MaxLosses \in Nat
  /\ IsFiniteSet(Call) /\ IsFiniteSet(Copy)

VARIABLES
  at,          \* where each send is, or what its caller was told
  left,        \* the retries left to it
  copy,        \* the copy it is listening to
  of, doing,   \* whose copy each is, and what it is doing
  registered,  \* whether the store has the target
  failures, circuit, halfOpen, inFlight, terms,
  entry,
  rows,        \* history: the rows each call has written
  made,        \* history: the rows written under each key
  lost,        \* history: the entries of each key lost behind a row or a run
  trial,       \* history: the sends admitted as a trial and not yet released
  crossed,     \* history: a trial was cut short by somebody else
  muted,       \* history: a trial was released with the breaker turned off
  forgot       \* history: the target was forgotten with sends in flight

client == <<at, left, copy>>
server == <<of, doing>>
breaker == <<failures, circuit, halfOpen, inFlight, terms>>
tally == <<rows, made, lost>>
trials == <<trial, crossed, muted, forgot>>
vars == <<client, server, registered, breaker, entry, tally, trials>>

B == INSTANCE Breaker
K == INSTANCE Keys WITH Request <- Call

Told == {"ok", "permanent", "retryable", "unknown"}
InSend == {"admitted", "out", "wait"}
\* What an attempt hears: a 2xx; a 4xx; a 5xx, or a connection that failed once
\* the request was on it; a 429, or a 503 with a Retry-After.
Answers == {"ok", "refused", "fault", "paced"}
Working == {"run", "wrote"}

Out == {c \in Call : at[c] \in InSend}
Keyed(c) == KeyOf[c] # Null

Init ==
  /\ at = [c \in Call |-> "idle"]
  /\ left = [c \in Call |-> 0]
  /\ copy = [c \in Call |-> Null]
  /\ of = [x \in Copy |-> Null]
  /\ doing = [x \in Copy |-> "free"]
  /\ registered = TRUE
  /\ B!Fresh /\ K!Empty
  /\ rows = [c \in Call |-> 0]
  /\ made = [k \in Key |-> 0]
  /\ lost = [k \in Key |-> 0]
  /\ trial = {} /\ crossed = FALSE /\ muted = FALSE /\ forgot = FALSE

-----------------------------------------------------------------------------
(* send: admission                                                         *)

Begins(c) == at[c] \in {"idle", "retryable"}

\* The flag went while a trial was out, in this step or before it.
Crosses == crossed' = (trial' # {} /\ (crossed \/ (halfOpen /\ ~halfOpen')))

Turned(c) ==
  /\ at' = [at EXCEPT ![c] = "retryable"]
  /\ UNCHANGED <<left, copy, server, registered, entry, tally>>

\* An overload takes back whatever trial there is: its own, or, with the breaker
\* off, one that is out.
Shed(c) ==
  /\ Begins(c) /\ (B!CircuitOpen \/ B!Overloaded) /\ Turned(c)
  /\ UNCHANGED <<trial, forgot>> /\ Crosses /\ muted' = (muted /\ halfOpen')

\* The caller is gone before admission.
AbortEarly(c) == Begins(c) /\ Turned(c) /\ UNCHANGED <<breaker, trials>>

Admit(c) ==
  /\ Begins(c) /\ B!Admit
  /\ at' = [at EXCEPT ![c] = "admitted"]
  /\ left' = [left EXCEPT ![c] = Retries]
  /\ trial' = IF B!Trips THEN trial \union {c} ELSE trial
  /\ UNCHANGED <<copy, server, registered, entry, tally, crossed, muted, forgot>>

-----------------------------------------------------------------------------
(* send: the answer, and the release in the finally                        *)

Releases(c, outcome) ==
  /\ B!Release(outcome)
  /\ trial' = trial \ {c}
  /\ Crosses
  /\ muted' = (halfOpen' /\ (muted \/ (c \in trial /\ terms.threshold = 0)))
  /\ forgot' = (forgot /\ Out # {c})

Tells(c, verdict, outcome) ==
  /\ at' = [at EXCEPT ![c] = verdict]
  /\ left' = [left EXCEPT ![c] = 0]
  /\ Releases(c, outcome)

NotFoundHolding(c) ==
  /\ at[c] = "admitted" /\ ~registered
  /\ at' = [at EXCEPT ![c] = "permanent"] /\ left' = [left EXCEPT ![c] = 0]
  /\ UNCHANGED <<copy, server, registered, breaker, entry, tally, trials>>
NotFound(c) ==
  /\ at[c] = "admitted" /\ ~registered
  /\ Tells(c, "permanent", "other")
  /\ UNCHANGED <<copy, server, registered, entry, tally>>

\* What the last result of a ladder comes to.  A fault that may have been
\* applied is not handed back as retryable when conduit would not replay it.
Indeterminate == {"fault", "timeout", "aborted"}
VerdictUndeclined(c, result) ==
  CASE result = "ok" -> "ok"
    [] result = "refused" -> "permanent"
    [] OTHER -> "retryable"
Verdict(c, result) ==
  CASE result = "ok" -> "ok"
    [] result = "refused" -> "permanent"
    [] result \in Indeterminate /\ ~Keyed(c) -> "unknown"
    [] OTHER -> "retryable"

Outcome(c, result) ==
  CASE result = "ok" -> "success"
    [] result = "timeout" /\ c \in Impatient -> "other"
    [] result \in {"fault", "timeout", "unreached"} -> "target_fault"
    [] OTHER -> "other"

\* A keyed request sleeps and goes again, while it has retries and the
\* deadline is further away than the wait; anything else is the answer.
MayReplayPastLast(c, result) == Keyed(c) /\ result \notin {"ok", "refused", "aborted"}
MayReplay(c, result) ==
  /\ Keyed(c) /\ left[c] > 0
  /\ result \notin {"ok", "refused", "aborted"}

Result(c, result) ==
  \/ /\ MayReplay(c, result)
     /\ at' = [at EXCEPT ![c] = "wait"]
     /\ left' = [left EXCEPT ![c] = @ - 1]
     /\ UNCHANGED <<breaker, trials>>
  \/ Tells(c, Verdict(c, result), Outcome(c, result))

-----------------------------------------------------------------------------
(* The transport: one attempt                                              *)

Attempts(c) == (at[c] = "admitted" /\ registered) \/ at[c] = "wait"

Dispatch(c) ==
  /\ Attempts(c)
  /\ \E x \in Copy :
       /\ doing[x] = "free"
       /\ doing' = [doing EXCEPT ![x] = "sent"]
       /\ of' = [of EXCEPT ![x] = c]
       /\ copy' = [copy EXCEPT ![c] = x]
  /\ at' = [at EXCEPT ![c] = "out"]
  /\ UNCHANGED <<left, registered, breaker, entry, tally, trials>>

\* Nothing was sent: no connection, or nothing that can be sent.
Unsent(c) ==
  /\ Attempts(c)
  /\ \E result \in {"unreached", "refused"} : Result(c, result)
  /\ UNCHANGED <<copy, server, registered, entry, tally>>

\* The caller has gone before the attempt, or the sleep before it ends past the
\* deadline.
GiveUp(c) ==
  /\ Attempts(c)
  /\ \/ Tells(c, "retryable", "other")
     \/ at[c] = "wait" /\ Tells(c, "retryable", "target_fault")
  /\ UNCHANGED <<copy, server, registered, entry, tally>>

\* The client stops listening.
Leaves(c) ==
  /\ copy' = [copy EXCEPT ![c] = Null]
  /\ LET x == copy[c]  over == doing[x] \in Answers IN
       /\ doing' = IF over THEN [doing EXCEPT ![x] = "free"] ELSE doing
       /\ of' = IF over THEN [of EXCEPT ![x] = Null] ELSE of

Hear(c) ==
  /\ at[c] = "out" /\ doing[copy[c]] \in Answers
  /\ Result(c, doing[copy[c]]) /\ Leaves(c)
  /\ UNCHANGED <<registered, entry, tally>>

\* The attempt's own timer, armed until the body is read.
TimeOutHeaders(c) ==
  /\ at[c] = "out" /\ doing[copy[c]] = "sent"
  /\ Result(c, "timeout") /\ Leaves(c)
  /\ UNCHANGED <<registered, entry, tally>>
TimeOut(c) ==
  /\ at[c] = "out"
  /\ Result(c, "timeout") /\ Leaves(c)
  /\ UNCHANGED <<registered, entry, tally>>

\* The connection fails, the app answers 503 for a call that it goes on with, or
\* the caller goes away.
Break(c) ==
  /\ at[c] = "out"
  /\ \E result \in {"fault", "aborted"} : Result(c, result)
  /\ Leaves(c)
  /\ UNCHANGED <<registered, entry, tally>>

-----------------------------------------------------------------------------
(* The app: one copy, as a service call                                    *)

Heard(x) == \E c \in Call : copy[c] = x

Goes(x, step) == doing' = [doing EXCEPT ![x] = step] /\ of' = of

\* A copy ends with its answer, if anybody is listening.
Answer(x, answer) ==
  /\ doing' = [doing EXCEPT ![x] = IF Heard(x) THEN answer ELSE "free"]
  /\ of' = IF Heard(x) THEN of ELSE [of EXCEPT ![x] = Null]

\* It never arrives, and whoever sent it has given it up.
Vanish(x) ==
  /\ doing[x] = "sent" /\ ~Heard(x)
  /\ doing' = [doing EXCEPT ![x] = "free"]
  /\ of' = [of EXCEPT ![x] = Null]
  /\ UNCHANGED <<client, registered, breaker, entry, tally, trials>>

\* ServerBusy, or a 429: refused before it is read.
Pace(x) ==
  /\ doing[x] = "sent" /\ Answer(x, "paced")
  /\ UNCHANGED <<client, registered, breaker, entry, tally, trials>>

\* The method is about to run, for a call with no key or a key that is free.
Start(x) ==
  /\ doing[x] = "sent"
  /\ LET k == KeyOf[of[x]] IN
       IF k = Null THEN UNCHANGED entry ELSE K!Claims(k, of[x])
  /\ Goes(x, "run")
  /\ UNCHANGED <<client, registered, breaker, tally, trials>>

Repeat(x) ==
  /\ doing[x] = "sent" /\ Keyed(of[x])
  /\ LET k == KeyOf[of[x]] IN
       \/ K!Replays(k, of[x]) /\ Answer(x, "ok")
       \/ K!Refuses(k, of[x]) /\ Answer(x, "refused")
  /\ UNCHANGED <<client, registered, breaker, tally, trials>>

\* The write is durable.
Write(x) ==
  /\ doing[x] = "run" /\ Goes(x, "wrote")
  /\ LET c == of[x] IN
       /\ rows' = [rows EXCEPT ![c] = @ + 1]
       /\ made' = IF Keyed(c) THEN [made EXCEPT ![KeyOf[c]] = @ + 1] ELSE made
  /\ UNCHANGED <<client, registered, breaker, entry, lost, trials>>

\* An entry goes while its row stays, or its method still runs.
MayLose(k) == entry[k] = Null \/ lost[k] < MaxLosses
Loses(k) ==
  /\ MayLose(k) /\ K!Frees(k)
  /\ lost' = IF entry[k] = Null THEN lost ELSE [lost EXCEPT ![k] = @ + 1]

Finish(x) ==
  /\ doing[x] = "wrote" /\ Answer(x, "ok")
  /\ IF Keyed(of[x]) THEN K!Keeps(KeyOf[of[x]], of[x]) ELSE UNCHANGED entry
  /\ UNCHANGED <<client, registered, breaker, tally, trials>>

\* The call fails and its write is taken back, or was never made.
Fail(x) ==
  /\ doing[x] = "run"
  /\ \E answer \in {"refused", "fault"} : Answer(x, answer)
  /\ IF Keyed(of[x]) THEN K!Frees(KeyOf[of[x]]) ELSE UNCHANGED entry
  /\ UNCHANGED <<client, registered, breaker, tally, trials>>

\* A hook throws after the method, with no transaction to take the write back.
FailCommitted(x) ==
  /\ doing[x] = "wrote"
  /\ \E answer \in {"refused", "fault"} : Answer(x, answer)
  /\ IF Keyed(of[x]) THEN Loses(KeyOf[of[x]]) ELSE UNCHANGED <<entry, lost>>
  /\ UNCHANGED <<client, registered, breaker, rows, made, trials>>

\* The announcement throws: the settle is never reached.
Escape(x) ==
  /\ doing[x] = "wrote" /\ Answer(x, "fault")
  /\ UNCHANGED <<client, registered, breaker, entry, tally, trials>>

\* pendingTtl, ttl, or the memory driver's eviction.
Expire(k) ==
  /\ entry[k] # Null /\ Loses(k)
  /\ UNCHANGED <<client, server, registered, breaker, rows, made, trials>>

\* The app's process dies: its calls stop, and the memory driver's cache goes.
Restart ==
  /\ \E x \in Copy : doing[x] \in Working
  /\ doing' = [x \in Copy |-> IF doing[x] \notin Working THEN doing[x]
                              ELSE IF Heard(x) THEN "fault" ELSE "free"]
  /\ of' = [x \in Copy |-> IF doing[x] \in Working /\ ~Heard(x) THEN Null ELSE of[x]]
  /\ \/ UNCHANGED <<entry, lost>>
     \/ /\ \A k \in Key : MayLose(k)
        /\ K!Clears
        /\ lost' = [k \in Key |-> IF entry[k] = Null THEN lost[k] ELSE lost[k] + 1]
  /\ UNCHANGED <<client, registered, breaker, rows, made, trials>>

-----------------------------------------------------------------------------
(* The target's registration, and time                                     *)

Deregister ==
  /\ registered /\ registered' = FALSE
  /\ B!Forget
  /\ UNCHANGED <<client, server, entry, tally, trial>>
  /\ Crosses /\ muted' = FALSE /\ forgot' = (Out # {})

\* A descriptor is put here, or read: its terms reach the breaker before the
\* store has it, and after it may have gone.
Learns ==
  /\ B!Regrade
  /\ UNCHANGED <<client, server, registered, entry, tally, trials>>

Register ==
  /\ ~registered /\ registered' = TRUE
  /\ UNCHANGED <<client, server, breaker, entry, tally, trials>>

Elapse ==
  /\ B!Elapse
  /\ UNCHANGED <<client, server, registered, entry, tally, trials>>

-----------------------------------------------------------------------------
Proceed(c) == NotFound(c) \/ Dispatch(c) \/ Unsent(c)

Next ==
  \/ \E c \in Call :
       \/ Shed(c) \/ AbortEarly(c) \/ Admit(c)
       \/ NotFound(c) \/ Dispatch(c) \/ Unsent(c) \/ GiveUp(c)
       \/ Hear(c) \/ TimeOut(c) \/ Break(c)
  \/ \E x \in Copy :
       \/ Vanish(x) \/ Pace(x) \/ Start(x) \/ Repeat(x) \/ Write(x)
       \/ Finish(x) \/ Fail(x) \/ FailCommitted(x) \/ Escape(x)
  \/ \E k \in Key : Expire(k)
  \/ Restart \/ Deregister \/ Learns \/ Register \/ Elapse

Spec == Init /\ [][Next]_vars

\* The store answers, the transport dispatches or fails, and timers fire.
\* Nothing is asked of the network, the app, or the caller.
Advance(c) == at[c] \in InSend /\ (TimeOut(c) \/ GiveUp(c) \/ Proceed(c))
Fairness == \A c \in Call : WF_client(Advance(c))
FairSpec == Spec /\ Fairness

-----------------------------------------------------------------------------
(* Properties                                                              *)

\* Every variable has its type; a copy is somebody's while it is not free, and
\* a send has no more retries left than it was given.
TypeOK ==
  /\ at \in [Call -> {"idle"} \union InSend \union Told]
  /\ left \in [Call -> 0..Retries]
  /\ copy \in [Call -> Copy \union {Null}]
  /\ of \in [Copy -> Call \union {Null}]
  /\ doing \in [Copy -> {"free", "sent"} \union Working \union Answers]
  /\ \A x \in Copy : doing[x] = "free" <=> of[x] = Null
  /\ registered \in BOOLEAN /\ B!BreakerType /\ K!KeysType
  /\ rows \in [Call -> Nat] /\ made \in [Key -> Nat] /\ lost \in [Key -> Nat]
  /\ trial \subseteq Call
  /\ crossed \in BOOLEAN /\ muted \in BOOLEAN /\ forgot \in BOOLEAN

\* A call with no key is applied at most once, however often its caller sends
\* it again: whenever it may have been applied its caller was told otherwise
\* than retryable, and while it is retryable no copy of it is anywhere.
AppliedOnce == \A c \in Call : ~Keyed(c) => rows[c] <= 1

\* Under one key the app writes one row more, at most, than it has lost entries:
\* retries, repeats and late settles of other runs add none of their own.
OncePerLoss == \A k \in Key : made[k] <= 1 + lost[k]

\* A caller told that its call succeeded has its own row, though the answer may
\* be a replay and the key another request's too.
OkMeansApplied == \A c \in Call : at[c] = "ok" => rows[c] > 0

\* The slots counted are the sends in flight, on every path out of a send,
\* whatever terms they were admitted under; a target forgotten under its sends
\* is counted right again once they are over.
SlotsMatch ==
  /\ inFlight <= Cardinality(Out)
  /\ ~forgot => inFlight = Cardinality(Out)

\* A half-open breaker has a trial that will report: it is never left waiting
\* for a request that is not in flight, unless the target's terms turned the
\* breaker off under its trial, whose release then reports nothing.
NeverWedged == halfOpen => trial \subseteq Out /\ (muted \/ trial # {})

\* One trial at a time, unless the release of a request that was no trial, an
\* overload met with the breaker off, or a deregistration, cleared the flag under
\* the trial in flight.
OneTrial == crossed \/ \A c, d \in trial : c = d

\* Every send is answered, whatever the network, the app and the registration do.
Answered == \A c \in Call : []<>(at[c] \notin InSend)
=============================================================================
