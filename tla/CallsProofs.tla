----------------------------- MODULE CallsProofs -----------------------------
(* Theorems about Calls, for any calls, keys, copies and bounds.           *)
EXTENDS Calls, FiniteSetTheorems, TLAPS

-----------------------------------------------------------------------------
(* What the steps of a send do to the breaker                              *)

AtType == at \in [Call -> {"idle"} \union InSend \union Told]

Slots ==
  /\ B!BreakerType
  /\ trial \subseteq Call
  /\ crossed \in BOOLEAN /\ muted \in BOOLEAN /\ forgot \in BOOLEAN

LEMMA ReleaseTypes ==
  ASSUME Slots, NEW c \in Call, NEW o \in {"success", "other", "target_fault"}, Releases(c, o)
  PROVE  Slots'
<1>1. failures \in 0..Most /\ circuit \in {"closed", "open", "due"} /\ halfOpen \in BOOLEAN
      /\ inFlight \in Nat /\ terms \in Terms /\ trial \subseteq Call
      /\ Most \in Nat
  BY CallsAssumption DEF Slots, B!BreakerType
<1>2. inFlight' \in Nat /\ terms' \in Terms
  BY <1>1 DEF Releases, B!Release, B!Freed
<1> DEFINE OK == /\ failures' \in 0..Most /\ circuit' \in {"closed", "open", "due"}
                 /\ halfOpen' \in BOOLEAN
<1>3. ASSUME terms.threshold = 0 PROVE OK
  BY <1>1, <1>3 DEF Releases, B!Release
<1>4. ASSUME B!Success PROVE OK
  <2>1. failures' \in 0..Most
    BY <1>1, <1>4 DEF B!Success
  <2> QED
    BY <1>4, <2>1 DEF B!Success
<1>5. ASSUME B!Other PROVE OK
  <2>1. failures' = failures /\ circuit' = circuit /\ halfOpen' = FALSE
    BY <1>5 DEF B!Other
  <2> QED
    BY <1>1, <2>1
<1>6. ASSUME B!TargetFault PROVE OK
  <2>1. failures' \in 0..Most
    BY <1>1, <1>6 DEF B!TargetFault
  <2>2. circuit' \in {"open", circuit} /\ halfOpen' = FALSE
    BY <1>6 DEF B!TargetFault
  <2> QED
    BY <1>1, <2>1, <2>2
<1>7. OK
  BY <1>3, <1>4, <1>5, <1>6 DEF Releases, B!Release
<1>8. trial' \subseteq Call /\ crossed' \in BOOLEAN /\ muted' \in BOOLEAN /\ forgot' \in BOOLEAN
  <2>1. trial' \subseteq Call
    BY <1>1 DEF Releases
  <2>2. crossed' \in BOOLEAN /\ muted' \in BOOLEAN /\ forgot' \in BOOLEAN
    BY <1>1, SMT DEF Releases, Crosses
  <2> QED
    BY <2>1, <2>2
<1> QED
  BY <1>2, <1>7, <1>8 DEF Slots, B!BreakerType

Results == Answers \union {"timeout", "aborted", "unreached"}

\* What a result comes to: a wait, with a retry less, or the end of the send.
Ending(c) ==
  /\ at[c] \in InSend
  /\ at' = [at EXCEPT ![c] = at'[c]] /\ at'[c] \in Told
  /\ left' = [left EXCEPT ![c] = 0]
  /\ \E o \in {"success", "other", "target_fault"} : Releases(c, o)

Waiting(c) ==
  /\ Keyed(c) /\ left[c] > 0
  /\ at' = [at EXCEPT ![c] = "wait"]
  /\ left' = [left EXCEPT ![c] = @ - 1]
  /\ UNCHANGED <<breaker, trials>>

LEMMA TellsEnds ==
  ASSUME AtType, NEW c \in Call, at[c] \in InSend, NEW v \in Told,
         NEW o \in {"success", "other", "target_fault"}, Tells(c, v, o)
  PROVE  Ending(c) /\ at'[c] = v
BY DEF AtType, Tells, Ending

LEMMA VerdictIs ==
  ASSUME NEW c \in Call, NEW r \in Results
  PROVE  /\ Verdict(c, r) \in Told
         /\ Verdict(c, r) = "ok" <=> r = "ok"
         /\ ~Keyed(c) /\ Verdict(c, r) = "retryable" => r \in {"paced", "unreached"}
         /\ Outcome(c, r) \in {"success", "other", "target_fault"}
<1>1. Verdict(c, r) \in Told /\ (Verdict(c, r) = "ok" <=> r = "ok")
  <2>1. CASE r = "ok"
    BY <2>1 DEF Verdict, Told, Indeterminate
  <2>2. CASE r = "refused"
    BY <2>2 DEF Verdict, Told, Indeterminate
  <2>3. CASE r \notin {"ok", "refused"} /\ r \in Indeterminate /\ ~Keyed(c)
    BY <2>3 DEF Verdict, Told
  <2>4. CASE r \notin {"ok", "refused"} /\ ~(r \in Indeterminate /\ ~Keyed(c))
    BY <2>4 DEF Verdict, Told
  <2> QED
    BY <2>1, <2>2, <2>3, <2>4
<1>2. ~Keyed(c) /\ Verdict(c, r) = "retryable" => r \in {"paced", "unreached"}
  <2> SUFFICES ASSUME ~Keyed(c), r \notin {"paced", "unreached"} PROVE Verdict(c, r) # "retryable"
    OBVIOUS
  <2>1. r \in {"ok", "refused"} \/ r \in Indeterminate
    BY DEF Results, Answers, Indeterminate
  <2> QED
    BY <2>1 DEF Verdict, Indeterminate
<1>3. Outcome(c, r) \in {"success", "other", "target_fault"}
  BY DEF Outcome
<1> QED
  BY <1>1, <1>2, <1>3

LEMMA ResultIs ==
  ASSUME AtType, NEW c \in Call, at[c] \in InSend, NEW r \in Results, Result(c, r)
  PROVE  Waiting(c) \/ (Ending(c) /\ at'[c] = Verdict(c, r))
<1>1. CASE /\ MayReplay(c, r) /\ at' = [at EXCEPT ![c] = "wait"]
           /\ left' = [left EXCEPT ![c] = @ - 1] /\ UNCHANGED <<breaker, trials>>
  BY <1>1 DEF MayReplay, Waiting
<1>2. CASE Tells(c, Verdict(c, r), Outcome(c, r))
  BY <1>2, TellsEnds, VerdictIs
<1> QED
  BY <1>1, <1>2 DEF Result

-----------------------------------------------------------------------------
(* Types, and who listens to what                                          *)

ClientType ==
  /\ AtType /\ left \in [Call -> 0..Retries] /\ copy \in [Call -> Copy \union {Null}]

ServerType ==
  /\ of \in [Copy -> Call \union {Null}]
  /\ doing \in [Copy -> {"free", "sent"} \union Working \union Answers]
  /\ \A x \in Copy : doing[x] = "free" <=> of[x] = Null

StoreType ==
  /\ registered \in BOOLEAN /\ K!KeysType
  /\ rows \in [Call -> Nat] /\ made \in [Key -> Nat] /\ lost \in [Key -> Nat]

\* A send listens while it is out, to a copy of its own; an answer waits only
\* for somebody who listens.
Listening ==
  \A c \in Call : IF at[c] = "out" THEN copy[c] \in Copy /\ of[copy[c]] = c ELSE copy[c] = Null
AnswersHeard == \A x \in Copy : doing[x] \in Answers => of[x] \in Call /\ copy[of[x]] = x

Typed == TypeOK /\ Listening /\ AnswersHeard

LEMMA TypedParts ==
  Typed <=> ClientType /\ ServerType /\ Slots /\ StoreType /\ Listening /\ AnswersHeard
BY DEF Typed, TypeOK, ClientType, AtType, ServerType, Slots, StoreType

LEMMA TypedPartsAfter ==
  ClientType' /\ ServerType' /\ Slots' /\ StoreType' /\ Listening' /\ AnswersHeard' => Typed'
BY DEF Typed, TypeOK, ClientType, AtType, ServerType, Slots, StoreType

LEMMA NullIsNone == Null \notin Call /\ Null \notin Copy /\ Null \notin Key
BY CallsAssumption

LEMMA TypedInit == Init => Typed
<1> SUFFICES ASSUME Init PROVE Typed
  OBVIOUS
<1>1. ClientType /\ Listening
  BY CallsAssumption DEF Init, ClientType, AtType, Listening
<1>2. ServerType /\ AnswersHeard
  BY DEF Init, ServerType, AnswersHeard, Answers
<1>3. Slots
  <2>1. failures \in 0..Most /\ inFlight \in Nat /\ terms \in Terms
    BY CallsAssumption DEF Init, B!Fresh
  <2>2. /\ halfOpen = FALSE /\ crossed = FALSE /\ muted = FALSE /\ forgot = FALSE
        /\ trial = {} /\ circuit = "closed"
    BY DEF Init, B!Fresh
  <2> QED
    BY <2>1, <2>2 DEF Slots, B!BreakerType
<1>4. StoreType
  BY DEF Init, StoreType, K!Empty, K!KeysType
<1> QED
  BY <1>1, <1>2, <1>3, <1>4, TypedParts

LEMMA WaitingTypes ==
  ASSUME ClientType, Slots, NEW c \in Call, Waiting(c)
  PROVE  AtType' /\ left' \in [Call -> 0..Retries] /\ Slots'
<1>1. AtType' /\ left' \in [Call -> 0..Retries]
  BY CallsAssumption DEF ClientType, AtType, Waiting, InSend
<1>2. Slots'
  BY DEF Slots, B!BreakerType, Waiting, breaker, trials
<1> QED
  BY <1>1, <1>2

LEMMA EndingTypes ==
  ASSUME ClientType, Slots, NEW c \in Call, Ending(c)
  PROVE  AtType' /\ left' \in [Call -> 0..Retries] /\ Slots'
<1>1. AtType' /\ left' \in [Call -> 0..Retries]
  BY CallsAssumption DEF ClientType, AtType, Ending
<1>2. Slots'
  BY ReleaseTypes DEF Ending
<1> QED
  BY <1>1, <1>2

\* A send that stops listening, for a wait or for good.
LEMMA LeavesTypes ==
  ASSUME ClientType, ServerType, Listening, AnswersHeard, NEW c \in Call, at[c] = "out",
         Leaves(c), NEW v, v # "out", at' = [at EXCEPT ![c] = v]
  PROVE  /\ copy' \in [Call -> Copy \union {Null}] /\ ServerType'
         /\ Listening' /\ AnswersHeard'
<1> DEFINE x == copy[c]
<1>1. x \in Copy /\ of[x] = c /\ c # Null
  BY NullIsNone DEF Listening
<1>2. copy' \in [Call -> Copy \union {Null}]
  BY DEF Leaves, ClientType
<1>3. /\ \A d \in Call : copy'[d] = IF d = c THEN Null ELSE copy[d]
      /\ \A d \in Call : at'[d] = IF d = c THEN v ELSE at[d]
  BY DEF Leaves, ClientType, AtType
<1>4. \A y \in Copy : /\ doing'[y] = IF y = x /\ doing[x] \in Answers THEN "free" ELSE doing[y]
                      /\ of'[y] = IF y = x /\ doing[x] \in Answers THEN Null ELSE of[y]
  BY <1>1 DEF Leaves, ServerType
<1>5. ServerType'
  <2>1. of' \in [Copy -> Call \union {Null}]
    BY <1>1 DEF Leaves, ServerType
  <2>2. doing' \in [Copy -> {"free", "sent"} \union Working \union Answers]
    BY <1>1 DEF Leaves, ServerType
  <2> QED
    BY <1>1, <1>4, <2>1, <2>2 DEF ServerType
<1>6. Listening'
  BY <1>1, <1>3, <1>4 DEF Listening
<1>7. AnswersHeard'
  <2> SUFFICES ASSUME NEW y \in Copy, doing'[y] \in Answers
               PROVE  of'[y] \in Call /\ copy'[of'[y]] = y
    BY DEF AnswersHeard
  <2>1. doing[y] \in Answers /\ of'[y] = of[y] /\ y # x
    BY <1>4 DEF Answers
  <2>2. of[y] \in Call /\ copy[of[y]] = y
    BY <2>1 DEF AnswersHeard
  <2> QED
    BY <1>3, <2>1, <2>2
<1> QED
  BY <1>2, <1>5, <1>6, <1>7

\* Nobody comes to listen, or stops.
LEMMA ClientStill ==
  ASSUME ClientType, ServerType, Listening, AnswersHeard, UNCHANGED <<copy, server>>,
         NEW c \in Call, NEW v, at[c] # "out", v # "out", at' = [at EXCEPT ![c] = v]
  PROVE  copy' \in [Call -> Copy \union {Null}] /\ ServerType' /\ Listening' /\ AnswersHeard'
<1>1. \A d \in Call : at'[d] = IF d = c THEN v ELSE at[d]
  BY DEF ClientType, AtType
<1>2. UNCHANGED <<copy, of, doing>>
  BY DEF server
<1> QED
  BY <1>1, <1>2 DEF ClientType, ServerType, Listening, AnswersHeard

LEMMA StoreStill ==
  ASSUME StoreType, UNCHANGED <<registered, entry, tally>>
  PROVE  StoreType'
BY DEF StoreType, K!KeysType, tally

LEMMA ClientStepTyped ==
  ASSUME Typed, NEW c \in Call,
         Shed(c) \/ AbortEarly(c) \/ Admit(c) \/ NotFound(c) \/ Dispatch(c) \/ Unsent(c)
           \/ GiveUp(c) \/ Hear(c) \/ TimeOut(c) \/ Break(c)
  PROVE  Typed'
<1> USE TypedParts, TypedPartsAfter
<1>1. CASE Shed(c) \/ AbortEarly(c)
  <2>1. /\ at[c] \in {"idle", "retryable"} /\ at' = [at EXCEPT ![c] = "retryable"]
        /\ UNCHANGED <<left, copy, server, registered, entry, tally>>
    BY <1>1 DEF Shed, AbortEarly, Begins, Turned
  <2>2. ClientType' /\ ServerType' /\ Listening' /\ AnswersHeard'
    <3>1. ServerType' /\ Listening' /\ AnswersHeard' /\ copy' \in [Call -> Copy \union {Null}]
      BY <2>1, ClientStill
    <3> QED
      BY <2>1, <3>1 DEF ClientType, AtType, Told
  <2>3. Slots'
    <3>1. trial' \subseteq Call /\ crossed' \in BOOLEAN /\ muted' \in BOOLEAN /\ forgot' \in BOOLEAN
      <4>1. CASE Shed(c)
        <5>1. trial' \subseteq Call /\ forgot' \in BOOLEAN
          BY <4>1 DEF Shed, Slots
        <5>2. crossed' \in BOOLEAN /\ muted' \in BOOLEAN
          BY <4>1, SMT DEF Shed, Crosses
        <5> QED
          BY <5>1, <5>2
      <4>2. CASE AbortEarly(c)
        BY <4>2 DEF AbortEarly, trials, Slots
      <4> QED
        BY <1>1, <4>1, <4>2
    <3>2. B!BreakerType'
      <4>1. CASE UNCHANGED breaker
        BY <4>1 DEF Slots, B!BreakerType, breaker
      <4>2. CASE B!Overloaded
        BY <4>2 DEF Slots, B!BreakerType, B!Overloaded
      <4> QED
        BY <1>1, <4>1, <4>2 DEF Shed, AbortEarly, B!CircuitOpen, B!breaker, breaker
    <3> QED
      BY <3>1, <3>2 DEF Slots
  <2> QED
    BY <2>1, <2>2, <2>3, StoreStill
<1>2. CASE Admit(c)
  <2>1. ServerType' /\ Listening' /\ AnswersHeard' /\ copy' \in [Call -> Copy \union {Null}]
    BY <1>2, ClientStill DEF Admit, Begins
  <2>2. ClientType'
    BY <1>2, <2>1, CallsAssumption DEF Admit, ClientType, AtType, InSend
  <2>3. Slots'
    <3>1. /\ failures' \in 0..Most /\ circuit' \in {"closed", "open", "due"}
          /\ inFlight' \in Nat /\ terms' \in Terms
      BY <1>2 DEF Admit, B!Admit, Slots, B!BreakerType
    <3>2. halfOpen' \in BOOLEAN
      BY <1>2, SMT DEF Admit, B!Admit
    <3>3. trial' \subseteq Call /\ crossed' \in BOOLEAN /\ muted' \in BOOLEAN /\ forgot' \in BOOLEAN
      BY <1>2 DEF Admit, Slots
    <3> QED
      BY <3>1, <3>2, <3>3 DEF Slots, B!BreakerType
  <2> QED
    BY <1>2, <2>1, <2>2, <2>3, StoreStill DEF Admit
<1>3. ASSUME at[c] # "out", Waiting(c) \/ Ending(c), UNCHANGED <<copy, server, registered, entry, tally>>
      PROVE  Typed'
  <2>1. at' = [at EXCEPT ![c] = at'[c]] /\ at'[c] # "out"
    BY <1>3 DEF Waiting, Ending, Told, ClientType, AtType
  <2>2. ServerType' /\ Listening' /\ AnswersHeard' /\ copy' \in [Call -> Copy \union {Null}]
    BY <1>3, <2>1, ClientStill
  <2>3. AtType' /\ left' \in [Call -> 0..Retries] /\ Slots'
    BY <1>3, WaitingTypes, EndingTypes
  <2> QED
    BY <1>3, <2>2, <2>3, StoreStill DEF ClientType
<1>4. CASE NotFound(c)
  BY <1>3, <1>4, TellsEnds DEF NotFound, InSend, Told, ClientType
<1>5. CASE Unsent(c)
  <2>1. PICK r \in {"unreached", "refused"} : Result(c, r)
    BY <1>5 DEF Unsent
  <2>2. at[c] \in InSend /\ at[c] # "out"
    BY <1>5 DEF Unsent, Attempts, InSend
  <2>3. r \in Results
    BY DEF Results, Answers
  <2> QED
    BY <1>3, <1>5, <2>1, <2>2, <2>3, ResultIs DEF Unsent, ClientType
<1>6. CASE GiveUp(c)
  <2>1. PICK o \in {"target_fault", "other"} : Tells(c, "retryable", o)
    BY <1>6 DEF GiveUp
  <2>2. at[c] \in InSend /\ at[c] # "out" /\ UNCHANGED <<copy, server, registered, entry, tally>>
    BY <1>6 DEF GiveUp, Attempts, InSend
  <2> QED
    BY <1>3, <2>1, <2>2, TellsEnds DEF Told, ClientType
<1>7. CASE Hear(c) \/ TimeOut(c) \/ Break(c)
  <2>1. at[c] = "out" /\ Leaves(c) /\ UNCHANGED <<registered, entry, tally>>
    BY <1>7 DEF Hear, TimeOut, Break
  <2>2. PICK r \in Results : Result(c, r)
    <3>1. doing[copy[c]] \in Answers => doing[copy[c]] \in Results
      BY DEF Results
    <3>2. {"timeout", "fault", "aborted"} \subseteq Results
      BY DEF Results, Answers
    <3> QED
      BY <1>7, <3>1, <3>2 DEF Hear, TimeOut, Break
  <2>3. Waiting(c) \/ Ending(c)
    BY <2>1, <2>2, ResultIs DEF ClientType, InSend
  <2>4. at' = [at EXCEPT ![c] = at'[c]] /\ at'[c] # "out"
    BY <2>3 DEF Waiting, Ending, Told, ClientType, AtType
  <2>5. ServerType' /\ Listening' /\ AnswersHeard' /\ copy' \in [Call -> Copy \union {Null}]
    BY <2>1, <2>4, LeavesTypes
  <2>6. AtType' /\ left' \in [Call -> 0..Retries] /\ Slots'
    BY <2>3, WaitingTypes, EndingTypes
  <2> QED
    BY <2>1, <2>5, <2>6, StoreStill DEF ClientType
<1>8. CASE Dispatch(c)
  <2>1. PICK x \in Copy : /\ doing[x] = "free" /\ doing' = [doing EXCEPT ![x] = "sent"]
                          /\ of' = [of EXCEPT ![x] = c] /\ copy' = [copy EXCEPT ![c] = x]
    BY <1>8 DEF Dispatch
  <2>2. ClientType'
    BY <1>8, <2>1 DEF Dispatch, ClientType, AtType, InSend
  <2>3. ServerType'
    BY <2>1, NullIsNone DEF ServerType
  <2>4. /\ \A d \in Call : at'[d] = IF d = c THEN "out" ELSE at[d]
        /\ \A d \in Call : copy'[d] = IF d = c THEN x ELSE copy[d]
        /\ \A y \in Copy : of'[y] = IF y = x THEN c ELSE of[y]
        /\ \A y \in Copy : doing'[y] = IF y = x THEN "sent" ELSE doing[y]
    BY <1>8, <2>1 DEF Dispatch, ClientType, AtType, ServerType
  <2>5. of[x] = Null
    BY <2>1 DEF ServerType
  <2>6. Listening'
    BY <2>4, <2>5, NullIsNone DEF Listening
  <2>7. AnswersHeard'
    <3> SUFFICES ASSUME NEW y \in Copy, doing'[y] \in Answers
                 PROVE  of'[y] \in Call /\ copy'[of'[y]] = y
      BY DEF AnswersHeard
    <3>1. y # x /\ doing[y] \in Answers
      BY <2>4 DEF Answers
    <3>2. of[y] \in Call /\ copy[of[y]] = y /\ copy[c] = Null
      BY <1>8, <3>1 DEF AnswersHeard, Dispatch, Attempts, Listening
    <3>3. of[y] # c
      BY <3>2, NullIsNone
    <3> QED
      BY <2>4, <3>1, <3>2, <3>3
  <2>8. Slots'
    BY <1>8 DEF Dispatch, Slots, B!BreakerType, breaker, trials
  <2> QED
    BY <1>8, <2>2, <2>3, <2>6, <2>7, <2>8, StoreStill DEF Dispatch
<1> QED
  BY <1>1, <1>2, <1>4, <1>5, <1>6, <1>7, <1>8

\* Which copies anybody listens to.
LEMMA HeardIs ==
  ASSUME Typed, NEW x \in Copy
  PROVE  Heard(x) <=> of[x] \in Call /\ copy[of[x]] = x
<1>1. Listening /\ of[x] \in Call \union {Null}
  BY TypedParts DEF ServerType
<1>2. ASSUME NEW c \in Call, copy[c] = x PROVE of[x] = c
  BY <1>1, <1>2, NullIsNone DEF Listening
<1> QED
  BY <1>2 DEF Heard

\* A copy that works on, or answers.
LEMMA GoesTypes ==
  ASSUME Typed, NEW x \in Copy, doing[x] # "free", NEW v \in {"sent"} \union Working, Goes(x, v)
  PROVE  /\ of' = of /\ doing' = [doing EXCEPT ![x] = v]
         /\ UNCHANGED copy => ServerType' /\ AnswersHeard'
<1>1. ServerType /\ AnswersHeard /\ doing' = [doing EXCEPT ![x] = v] /\ of' = of
  BY TypedParts DEF Goes
<1>2. ServerType'
  BY <1>1 DEF ServerType, Working
<1>3. UNCHANGED copy => AnswersHeard'
  BY <1>1 DEF AnswersHeard, ServerType, Answers, Working
<1> QED
  BY <1>1, <1>2, <1>3

LEMMA AnswerTypes ==
  ASSUME Typed, NEW x \in Copy, doing[x] # "free", NEW a \in Answers, Answer(x, a), UNCHANGED copy
  PROVE  /\ \/ Heard(x) /\ of' = of /\ doing' = [doing EXCEPT ![x] = a]
            \/ ~Heard(x) /\ of' = [of EXCEPT ![x] = Null] /\ doing' = [doing EXCEPT ![x] = "free"]
         /\ ServerType' /\ AnswersHeard' /\ \A y \in Copy \ {x} : of'[y] = of[y]
         /\ Heard(x) => of'[x] = of[x]
<1>1. ServerType /\ AnswersHeard
  BY TypedParts
<1>2. CASE Heard(x)
  <2>1. of' = of /\ doing' = [doing EXCEPT ![x] = a]
    BY <1>2 DEF Answer
  <2>2. of[x] \in Call /\ copy[of[x]] = x
    BY <1>2, HeardIs
  <2>3. ServerType'
    BY <1>1, <2>1 DEF ServerType, Answers
  <2>4. AnswersHeard'
    BY <1>1, <2>1, <2>2 DEF AnswersHeard, ServerType
  <2> QED
    BY <1>2, <2>1, <2>3, <2>4
<1>3. CASE ~Heard(x)
  <2>1. of' = [of EXCEPT ![x] = Null] /\ doing' = [doing EXCEPT ![x] = "free"]
    BY <1>3 DEF Answer
  <2>2. ServerType'
    BY <1>1, <2>1 DEF ServerType
  <2>3. AnswersHeard'
    BY <1>1, <2>1 DEF AnswersHeard, ServerType, Answers
  <2> QED
    BY <1>1, <1>3, <2>1, <2>2, <2>3 DEF ServerType
<1> QED
  BY <1>2, <1>3

\* Whoever listens to a copy that stays his goes on listening.
LEMMA ListeningStill ==
  ASSUME Typed, UNCHANGED <<at, copy>>,
         \A y \in Copy : of'[y] = of[y] \/ ~Heard(y)
  PROVE  Listening'
BY TypedParts DEF Listening, Heard

LEMMA EntryTypes ==
  ASSUME K!KeysType, NEW k \in Key, NEW c \in Call,
         K!Claims(k, c) \/ K!Keeps(k, c) \/ K!Frees(k)
  PROVE  K!KeysType'
<1>1. K!Pending(c) \in K!Entry /\ K!Done(c) \in K!Entry
  BY DEF K!Pending, K!Done, K!Entry
<1> QED
  BY <1>1 DEF K!KeysType, K!Claims, K!Keeps, K!Frees

LEMMA LostTypes ==
  ASSUME StoreType, NEW k \in Key, Loses(k)
  PROVE  lost' \in [Key -> Nat] /\ K!KeysType'
BY DEF StoreType, Loses, K!Frees, K!KeysType

LEMMA CallOf ==
  ASSUME Typed, NEW x \in Copy, doing[x] # "free"
  PROVE  of[x] \in Call /\ (Keyed(of[x]) => KeyOf[of[x]] \in Key)
BY TypedParts, CallsAssumption DEF ServerType, Keyed

LEMMA CopyStepTyped ==
  ASSUME Typed, NEW x \in Copy,
         Vanish(x) \/ Pace(x) \/ Start(x) \/ Repeat(x) \/ Write(x)
           \/ Finish(x) \/ Fail(x) \/ FailCommitted(x) \/ Escape(x)
  PROVE  Typed'
<1> USE TypedParts, TypedPartsAfter
<1>1. doing[x] # "free" /\ UNCHANGED <<client, registered, breaker, trials>>
  BY DEF Vanish, Pace, Start, Repeat, Write, Finish, Fail, FailCommitted, Escape
<1>2. UNCHANGED <<at, left, copy>> /\ ClientType' /\ Slots'
  BY <1>1 DEF client, breaker, trials, ClientType, AtType, Slots, B!BreakerType
<1>3. of[x] \in Call /\ (Keyed(of[x]) => KeyOf[of[x]] \in Key)
  BY <1>1, CallOf
<1>4. ASSUME NEW v \in {"sent"} \union Working, Goes(x, v), StoreType' PROVE Typed'
  BY <1>1, <1>2, <1>4, GoesTypes, ListeningStill
<1>5. ASSUME NEW a \in Answers, Answer(x, a), StoreType' PROVE Typed'
  <2>1. ServerType' /\ AnswersHeard' /\ \A y \in Copy : of'[y] = of[y] \/ ~Heard(y)
    BY <1>1, <1>2, <1>5, AnswerTypes
  <2> QED
    BY <1>2, <1>5, <2>1, ListeningStill
<1>6. "run" \in Working /\ "wrote" \in Working /\ Answers = {"ok", "refused", "fault", "paced"}
  BY DEF Working, Answers
<1>7. CASE Vanish(x)
  <2>1. ServerType' /\ AnswersHeard' /\ \A y \in Copy : of'[y] = of[y] \/ ~Heard(y)
    BY <1>2, <1>7 DEF Vanish, ServerType, AnswersHeard, Answers
  <2> QED
    BY <1>2, <1>7, <2>1, ListeningStill, StoreStill DEF Vanish
<1>8. CASE Pace(x)
  BY <1>5, <1>6, <1>8, StoreStill DEF Pace
<1>9. CASE Start(x)
  <2>1. K!KeysType'
    <3>1. CASE KeyOf[of[x]] = Null
      BY <1>9, <3>1 DEF Start, StoreType, K!KeysType
    <3>2. CASE KeyOf[of[x]] # Null
      BY <1>3, <1>9, <3>2, EntryTypes DEF Start, StoreType, Keyed
    <3> QED
      BY <3>1, <3>2
  <2>2. StoreType'
    BY <1>9, <2>1 DEF Start, StoreType, tally
  <2> QED
    BY <1>4, <1>6, <1>9, <2>2 DEF Start
<1>10. CASE Repeat(x)
  <2>1. StoreType' /\ \E a \in {"ok", "refused"} : Answer(x, a)
    BY <1>10 DEF Repeat, StoreType, tally, K!KeysType, K!Replays, K!Refuses
  <2> QED
    BY <1>5, <1>6, <2>1
<1>11. CASE Write(x)
  <2>1. StoreType'
    BY <1>3, <1>11 DEF Write, StoreType, K!KeysType
  <2> QED
    BY <1>4, <1>6, <1>11, <2>1 DEF Write
<1>12. CASE Finish(x)
  <2>1. K!KeysType'
    BY <1>3, <1>12, EntryTypes DEF Finish, StoreType, K!KeysType
  <2>2. StoreType'
    BY <1>12, <2>1 DEF Finish, StoreType, tally
  <2> QED
    BY <1>5, <1>6, <1>12, <2>2 DEF Finish
<1>13. CASE Fail(x)
  <2>1. K!KeysType'
    BY <1>3, <1>13, EntryTypes DEF Fail, StoreType, K!KeysType
  <2>2. StoreType'
    BY <1>13, <2>1 DEF Fail, StoreType, tally
  <2> QED
    BY <1>5, <1>6, <1>13, <2>2 DEF Fail
<1>14. CASE FailCommitted(x)
  <2>1. K!KeysType' /\ lost' \in [Key -> Nat]
    BY <1>3, <1>14, LostTypes DEF FailCommitted, StoreType, K!KeysType
  <2>2. StoreType'
    BY <1>14, <2>1 DEF FailCommitted, StoreType
  <2> QED
    BY <1>5, <1>6, <1>14, <2>2 DEF FailCommitted
<1>15. CASE Escape(x)
  BY <1>5, <1>6, <1>15, StoreStill DEF Escape
<1> QED
  BY <1>7, <1>8, <1>9, <1>10, <1>11, <1>12, <1>13, <1>14, <1>15

\* A restart of the app: what it does to each copy.
LEMMA RestartIs ==
  ASSUME Typed, Restart
  PROVE  \A x \in Copy :
           /\ doing[x] \notin Working => doing'[x] = doing[x] /\ of'[x] = of[x]
           /\ doing[x] \in Working /\ Heard(x) => doing'[x] = "fault" /\ of'[x] = of[x]
           /\ doing[x] \in Working /\ ~Heard(x) => doing'[x] = "free" /\ of'[x] = Null
BY DEF Restart

LEMMA RestartTyped == ASSUME Typed, Restart PROVE Typed'
<1> USE TypedParts, TypedPartsAfter
<1>1. UNCHANGED <<at, left, copy>> /\ ClientType' /\ Slots'
  BY DEF Restart, client, breaker, trials, ClientType, AtType, Slots, B!BreakerType
<1>2. ServerType'
  <2>1. of' \in [Copy -> Call \union {Null}]
    BY DEF Restart, ServerType
  <2>2. doing' \in [Copy -> {"free", "sent"} \union Working \union Answers]
    BY DEF Restart, ServerType, Answers
  <2>3. \A x \in Copy : doing'[x] = "free" <=> of'[x] = Null
    BY RestartIs DEF ServerType, Working
  <2> QED
    BY <2>1, <2>2, <2>3 DEF ServerType
<1>3. AnswersHeard'
  <2> SUFFICES ASSUME NEW y \in Copy, doing'[y] \in Answers
               PROVE  of'[y] \in Call /\ copy'[of'[y]] = y
    BY DEF AnswersHeard
  <2>1. CASE doing[y] \in Working
    BY <1>1, <2>1, RestartIs, HeardIs DEF Answers
  <2>2. CASE doing[y] \notin Working
    BY <1>1, <2>2, RestartIs DEF AnswersHeard
  <2> QED
    BY <2>1, <2>2
<1>4. \A y \in Copy : of'[y] = of[y] \/ ~Heard(y)
  BY RestartIs
<1>5. Listening'
  BY <1>1, <1>4, ListeningStill
<1>6. StoreType'
  BY DEF Restart, StoreType, K!KeysType, K!Clears
<1> QED
  BY <1>1, <1>2, <1>3, <1>5, <1>6

LEMMA TypedNext == Typed /\ [Next]_vars => Typed'
<1> SUFFICES ASSUME Typed, [Next]_vars PROVE Typed'
  OBVIOUS
<1> USE TypedParts, TypedPartsAfter
<1>1. ASSUME NEW k \in Key, Expire(k) PROVE Typed'
  <2>1. StoreType'
    BY <1>1, LostTypes DEF Expire, StoreType
  <2> QED
    BY <1>1, <2>1 DEF Expire, client, server, breaker, trials, ClientType, AtType, ServerType, Slots,
                      B!BreakerType, Listening, AnswersHeard
<1>2. CASE Deregister \/ Learns \/ Register \/ Elapse \/ UNCHANGED vars
  <2>1. UNCHANGED <<client, server, entry, tally>>
    BY <1>2 DEF Deregister, Learns, Register, Elapse, vars
  <2>2. ClientType' /\ ServerType' /\ Listening' /\ AnswersHeard'
    BY <2>1 DEF client, server, ClientType, AtType, ServerType, Listening, AnswersHeard
  <2>3. StoreType'
    BY <1>2, <2>1 DEF Deregister, Learns, Register, Elapse, vars, StoreType, K!KeysType, tally
  <2>4. Slots'
    <3>1. CASE Deregister
      <4>1. failures' \in 0..Most /\ inFlight' \in Nat /\ terms' \in Terms
        BY <3>1, CallsAssumption DEF Deregister, B!Forget, Slots, B!BreakerType
      <4>2. halfOpen' \in BOOLEAN /\ circuit' = "closed" /\ trial' = trial
        BY <3>1 DEF Deregister, B!Forget
      <4>3. crossed' \in BOOLEAN /\ muted' \in BOOLEAN /\ forgot' \in BOOLEAN
        <5>1. crossed' = (trial' # {} /\ (crossed \/ (halfOpen /\ ~halfOpen')))
          BY <3>1 DEF Deregister, Crosses
        <5>2. muted' = FALSE /\ forgot' = (Out # {})
          BY <3>1 DEF Deregister
        <5>3. crossed' \in BOOLEAN
          BY <5>1, SMT
        <5> QED
          BY <5>2, <5>3
      <4> QED
        BY <4>1, <4>2, <4>3 DEF Slots, B!BreakerType
    <3>2. CASE Register \/ Elapse \/ UNCHANGED vars
      BY <3>2 DEF Register, Elapse, B!Elapse, vars, Slots, B!BreakerType, breaker, trials
    <3>3. CASE Learns
      BY <3>3 DEF Learns, B!Regrade, Slots, B!BreakerType, trials
    <3> QED
      BY <1>2, <3>1, <3>2, <3>3
  <2> QED
    BY <2>2, <2>3, <2>4
<1> QED
  BY <1>1, <1>2, ClientStepTyped, CopyStepTyped, RestartTyped DEF Next

\* Every variable has its type, in every state of every behaviour.
THEOREM CallsTypes == Spec => []TypeOK
<1>1. Typed => TypeOK
  BY DEF Typed
<1> QED
  BY <1>1, TypedInit, TypedNext, PTL DEF Spec

-----------------------------------------------------------------------------
(* The breaker and its slots                                               *)

\* What a step of any kind is to the breaker: nothing, an admission, a request
\* turned away, a release, a deregistration, a change of terms, or time.
Nothing == UNCHANGED <<breaker, trials>> /\ Out' = Out
TurnsAway ==
  /\ B!Overloaded \/ UNCHANGED breaker
  /\ UNCHANGED <<trial, forgot>> /\ Crosses /\ muted' = (muted /\ halfOpen') /\ Out' = Out
Admits(c) ==
  /\ c \notin Out /\ Out' = Out \union {c}
  /\ B!Admit /\ UNCHANGED <<crossed, muted, forgot>>
  /\ trial' = IF B!Trips THEN trial \union {c} ELSE trial
Frees(c) ==
  /\ c \in Out /\ Out' = Out \ {c}
  /\ \E o \in {"success", "other", "target_fault"} : Releases(c, o)
Forgets ==
  /\ B!Forget /\ Out' = Out /\ trial' = trial
  /\ Crosses /\ forgot' = (Out # {})
Regrades == B!Regrade /\ UNCHANGED trials /\ Out' = Out
Waits == B!Elapse /\ UNCHANGED trials /\ Out' = Out

LEMMA BreakerSteps ==
  ASSUME Typed, [Next]_vars
  PROVE  \/ Nothing \/ TurnsAway \/ Forgets \/ Regrades \/ Waits
         \/ \E c \in Call : Admits(c) \/ Frees(c)
<1>1. AtType
  BY TypedParts DEF ClientType
<1>2. ASSUME NEW c \in Call, Waiting(c) \/ Ending(c), at[c] \in InSend PROVE Nothing \/ Frees(c)
  <2>1. \A d \in Call : d # c => at'[d] = at[d]
    BY <1>1, <1>2 DEF AtType, Waiting, Ending
  <2>2. CASE Waiting(c)
    <3>1. at'[c] \in InSend
      BY <1>1, <2>2 DEF AtType, Waiting, InSend
    <3> QED
      BY <1>2, <2>1, <2>2, <3>1 DEF Nothing, Out, Waiting
  <2>3. CASE Ending(c)
    <3>1. at'[c] \notin InSend
      BY <2>3 DEF Ending, Told, InSend
    <3> QED
      BY <1>2, <2>1, <2>3, <3>1 DEF Frees, Out, Ending
  <2> QED
    BY <1>2, <2>2, <2>3
<1>3. ASSUME NEW c \in Call, Shed(c) \/ AbortEarly(c) PROVE Nothing \/ TurnsAway
  <2>1. Out' = Out
    BY <1>1, <1>3 DEF Shed, AbortEarly, Begins, Turned, Out, AtType, InSend
  <2>2. CASE Shed(c)
    BY <2>1, <2>2 DEF Shed, B!CircuitOpen, B!breaker, breaker, TurnsAway
  <2>3. CASE AbortEarly(c)
    BY <2>1, <2>3 DEF AbortEarly, Nothing
  <2> QED
    BY <1>3, <2>2, <2>3
<1>4. ASSUME NEW c \in Call, Admit(c) PROVE Admits(c)
  BY <1>1, <1>4 DEF Admit, Admits, Begins, Out, AtType, InSend
<1>5. ASSUME NEW c \in Call, NotFound(c) \/ Unsent(c) \/ GiveUp(c) \/ Hear(c) \/ TimeOut(c) \/ Break(c)
      PROVE  Nothing \/ Frees(c)
  <2>1. at[c] \in InSend
    BY <1>5 DEF NotFound, Unsent, GiveUp, Hear, TimeOut, Break, Attempts, InSend
  <2>2. CASE NotFound(c) \/ GiveUp(c)
    <3>1. PICK v \in Told, o \in {"success", "other", "target_fault"} : Tells(c, v, o)
      BY <2>2 DEF NotFound, GiveUp, Told
    <3> QED
      BY <1>1, <1>2, <2>1, <3>1, TellsEnds
  <2>3. CASE Unsent(c) \/ Hear(c) \/ TimeOut(c) \/ Break(c)
    <3>1. doing[copy[c]] \in Answers => doing[copy[c]] \in Results
      BY DEF Results
    <3>2. {"timeout", "fault", "aborted", "unreached", "refused"} \subseteq Results
      BY DEF Results, Answers
    <3>3. PICK r \in Results : Result(c, r)
      BY <2>3, <3>1, <3>2 DEF Unsent, Hear, TimeOut, Break
    <3> QED
      BY <1>1, <1>2, <2>1, <3>3, ResultIs
  <2> QED
    BY <1>5, <2>2, <2>3
<1>6. ASSUME NEW c \in Call, Dispatch(c) PROVE Nothing
  BY <1>1, <1>6 DEF Dispatch, Attempts, Nothing, Out, AtType, InSend
<1>7. ASSUME UNCHANGED <<client, breaker, trials>> PROVE Nothing
  BY <1>7 DEF client, Nothing, Out
<1>8. ASSUME NEW x \in Copy, Vanish(x) \/ Pace(x) \/ Start(x) \/ Repeat(x) \/ Write(x)
           \/ Finish(x) \/ Fail(x) \/ FailCommitted(x) \/ Escape(x)
      PROVE  Nothing
  BY <1>7, <1>8 DEF Vanish, Pace, Start, Repeat, Write, Finish, Fail, FailCommitted, Escape
<1>9. ASSUME NEW k \in Key, Expire(k) PROVE Nothing
  BY <1>7, <1>9 DEF Expire
<1>10. CASE Restart \/ Register \/ UNCHANGED vars
  BY <1>7, <1>10 DEF Restart, Register, vars
<1>11. CASE Deregister
  BY <1>11 DEF Deregister, Forgets, client, Out
<1>12. CASE Elapse
  BY <1>12 DEF Elapse, Waits, client, Out
<1>13. CASE Learns
  BY <1>13 DEF Learns, Regrades, client, Out
<1> QED
  BY <1>3, <1>4, <1>5, <1>6, <1>8, <1>9, <1>10, <1>11, <1>12, <1>13 DEF Next

\* The flag is up for a trial that is out, or was when it was released unheard,
\* and only while the circuit is not closed.
FlagHeld == /\ trial \subseteq Out
            /\ halfOpen => circuit # "closed" /\ (muted \/ trial # {})

\* Until somebody else clears it, the flag is up as long as the trial is out.
TrialFlagged == crossed \/ ((\A c, d \in trial : c = d) /\ (trial # {} => halfOpen))

LEMMA FlagNext == Typed /\ FlagHeld /\ TrialFlagged /\ [Next]_vars => FlagHeld' /\ TrialFlagged'
<1> SUFFICES ASSUME Typed, FlagHeld, TrialFlagged, [Next]_vars PROVE FlagHeld' /\ TrialFlagged'
  OBVIOUS
<1>1. /\ terms.threshold \in Nat /\ halfOpen \in BOOLEAN /\ circuit \in {"closed", "open", "due"}
      /\ crossed \in BOOLEAN /\ muted \in BOOLEAN
  BY CallsAssumption, TypedParts DEF Slots, B!BreakerType
<1>2. CASE Nothing
  BY <1>2 DEF Nothing, breaker, trials, FlagHeld, TrialFlagged
<1>3. CASE TurnsAway
  <2>1. /\ trial' = trial /\ Out' = Out /\ muted' = (muted /\ halfOpen')
        /\ crossed' = (trial # {} /\ (crossed \/ (halfOpen /\ ~halfOpen')))
    BY <1>3 DEF TurnsAway, Crosses
  <2>2. CASE UNCHANGED breaker
    BY <1>1, <2>1, <2>2 DEF breaker, FlagHeld, TrialFlagged
  <2>3. CASE B!Overloaded
    <3>1. halfOpen' = FALSE
      BY <1>1, <2>3 DEF B!Overloaded, FlagHeld
    <3> QED
      BY <1>1, <2>1, <3>1 DEF FlagHeld, TrialFlagged
  <2> QED
    BY <1>3, <2>2, <2>3 DEF TurnsAway
<1>4. CASE Forgets
  BY <1>4 DEF Forgets, Crosses, B!Forget, FlagHeld, TrialFlagged
<1>5. CASE Waits \/ Regrades
  BY <1>5 DEF Waits, Regrades, B!Elapse, B!Regrade, trials, FlagHeld, TrialFlagged
<1>6. ASSUME NEW c \in Call, Admits(c) PROVE FlagHeld' /\ TrialFlagged'
  <2>1. CASE B!Trips
    <3>1. ~halfOpen /\ halfOpen' /\ circuit' # "closed"
      BY <1>1, <1>6, <2>1 DEF Admits, B!Admit, B!Sheds, B!Trips
    <3>2. trial' = trial \union {c} /\ Out' = Out \union {c} /\ crossed' = crossed
      BY <1>6, <2>1 DEF Admits
    <3> QED
      BY <3>1, <3>2 DEF FlagHeld, TrialFlagged
  <2>2. CASE ~B!Trips
    <3>1. /\ trial' = trial /\ Out' = Out \union {c} /\ circuit' = circuit
          /\ crossed' = crossed /\ muted' = muted
      BY <1>6, <2>2 DEF Admits, B!Admit
    <3>2. halfOpen' <=> halfOpen
      BY <1>6, <2>2 DEF Admits, B!Admit
    <3> QED
      BY <3>1, <3>2 DEF FlagHeld, TrialFlagged
  <2> QED
    BY <2>1, <2>2
<1>7. ASSUME NEW c \in Call, Frees(c) PROVE FlagHeld' /\ TrialFlagged'
  <2>1. PICK o \in {"success", "other", "target_fault"} : Releases(c, o)
    BY <1>7 DEF Frees
  <2>2. /\ trial' = trial \ {c} /\ Out' = Out \ {c}
        /\ crossed' <=> (trial' # {} /\ (crossed \/ (halfOpen /\ ~halfOpen')))
        /\ muted' <=> (halfOpen' /\ (muted \/ (c \in trial /\ terms.threshold = 0)))
    BY <1>7, <2>1 DEF Frees, Releases, Crosses
  <2>3. CASE terms.threshold = 0
    <3>1. halfOpen' = halfOpen /\ circuit' = circuit
      BY <2>1, <2>3 DEF Releases, B!Release
    <3> QED
      BY <2>2, <2>3, <3>1 DEF FlagHeld, TrialFlagged
  <2>4. CASE terms.threshold # 0
    <3>1. ~halfOpen'
      BY <2>1, <2>4 DEF Releases, B!Release, B!Success, B!Other, B!TargetFault
    <3>2. trial' = {} \/ crossed'
      BY <2>2, <3>1 DEF TrialFlagged
    <3> QED
      BY <2>2, <3>1, <3>2 DEF FlagHeld, TrialFlagged
  <2> QED
    BY <2>3, <2>4
<1> QED
  BY <1>2, <1>3, <1>4, <1>5, <1>6, <1>7, BreakerSteps

LEMMA FlagInit == Init => FlagHeld /\ TrialFlagged
BY DEF Init, B!Fresh, FlagHeld, TrialFlagged

\* A half-open breaker always has a trial that is out and will be released, but
\* for one released while the target's terms had the breaker off.
THEOREM Unwedged == Spec => []NeverWedged
<1>1. FlagHeld => NeverWedged
  BY DEF FlagHeld, NeverWedged
<1> QED
  BY <1>1, TypedInit, TypedNext, FlagInit, FlagNext, PTL DEF Spec

\* There is one trial at most, but for a release, an overload or a deregistration
\* that cleared the flag under it.
THEOREM OneTrialAtATime == Spec => []OneTrial
<1>1. TrialFlagged => OneTrial
  BY DEF TrialFlagged, OneTrial
<1> QED
  BY <1>1, TypedInit, TypedNext, FlagInit, FlagNext, PTL DEF Spec

LEMMA OutFinite == IsFiniteSet(Out) /\ Cardinality(Out) \in Nat /\ (Out = {} <=> Cardinality(Out) = 0)
<1>1. IsFiniteSet(Out)
  BY CallsAssumption, FS_Subset DEF Out
<1> QED
  BY <1>1, FS_CardinalityType, FS_EmptySet

LEMMA SlotsInit == Init => SlotsMatch
<1> SUFFICES ASSUME Init PROVE SlotsMatch
  OBVIOUS
<1>1. Out = {}
  BY DEF Init, Out, InSend
<1>2. Cardinality(Out) = 0
  BY <1>1, OutFinite
<1>3. inFlight = 0
  BY DEF Init, B!Fresh
<1> QED
  BY <1>2, <1>3 DEF SlotsMatch

LEMMA SlotsNext == Typed /\ SlotsMatch /\ [Next]_vars => SlotsMatch'
<1> SUFFICES ASSUME Typed, SlotsMatch, [Next]_vars PROVE SlotsMatch'
  OBVIOUS
<1>1. inFlight \in Nat
  BY TypedParts DEF Slots, B!BreakerType
<1>2. CASE Nothing \/ TurnsAway \/ Regrades \/ Waits
  <2>1. inFlight' = inFlight /\ forgot' = forgot /\ Out' = Out
    BY <1>2 DEF Nothing, TurnsAway, Regrades, Waits, B!Overloaded, B!Regrade, B!Elapse,
                breaker, trials
  <2> QED
    BY <2>1 DEF SlotsMatch
<1>3. CASE Forgets
  <2>1. inFlight' = 0 /\ Out' = Out /\ (forgot' <=> Out # {})
    BY <1>3 DEF Forgets, B!Forget
  <2> QED
    BY <1>1, <2>1, OutFinite DEF SlotsMatch
<1>4. ASSUME NEW c \in Call, Admits(c) PROVE SlotsMatch'
  <2>1. inFlight' = inFlight + 1 /\ forgot' = forgot
        /\ c \notin Out /\ Out' = Out \union {c}
    BY <1>4 DEF Admits, B!Admit
  <2>2. Cardinality(Out') = Cardinality(Out) + 1
    BY <2>1, OutFinite, FS_AddElement
  <2> QED
    BY <1>1, <2>1, <2>2, OutFinite DEF SlotsMatch
<1>5. ASSUME NEW c \in Call, Frees(c) PROVE SlotsMatch'
  <2>1. /\ inFlight' = (IF inFlight = 0 THEN 0 ELSE inFlight - 1)
        /\ c \in Out /\ Out' = Out \ {c} /\ (forgot' <=> (forgot /\ Out # {c}))
    BY <1>5 DEF Frees, Releases, B!Release, B!Freed
  <2>2. Cardinality(Out') = Cardinality(Out) - 1
    BY <2>1, OutFinite, FS_RemoveElement
  <2>3. Out = {c} => Cardinality(Out) = 1
    BY FS_Singleton
  <2> QED
    BY <1>1, <2>1, <2>2, <2>3, OutFinite DEF SlotsMatch
<1> QED
  BY <1>2, <1>3, <1>4, <1>5, BreakerSteps

\* The slots counted are the sends in flight, though the target's terms change or
\* the target is forgotten under them.
THEOREM SlotsAreSends == Spec => []SlotsMatch
BY TypedInit, TypedNext, SlotsInit, SlotsNext, PTL DEF Spec

-----------------------------------------------------------------------------
(* Rows: a call with no key                                                *)

Quiet == {"idle", "retryable", "admitted", "wait"}
Early == {"sent", "run", "paced"}

\* A call with no key has one copy at most, and none, and no row, while it may be
\* sent; a copy that has not written has a call without a row.
Single(c) ==
  /\ at[c] \in Quiet => rows[c] = 0 /\ \A x \in Copy : of[x] # c
  /\ \A x, y \in Copy : of[x] = c /\ of[y] = c => x = y
  /\ \A x \in Copy : of[x] = c /\ doing[x] \in Early => rows[c] = 0
  /\ rows[c] <= 1

AllSingle == \A c \in Call : ~Keyed(c) => Single(c)

LEMMA SingleStill ==
  ASSUME NEW c \in Call, Single(c), rows'[c] = rows[c], at'[c] \in Quiet => at[c] \in Quiet,
         \A y \in Copy : of'[y] = c => of[y] = c /\ (doing'[y] \in Early => doing[y] \in Early)
  PROVE  Single(c)'
BY DEF Single

\* The copies of the others stay as they were when one send leaves its own.
LEMMA LeavesIs ==
  ASSUME Typed, NEW c \in Call, at[c] = "out", Leaves(c)
  PROVE  /\ copy[c] \in Copy /\ of[copy[c]] = c
         /\ \A y \in Copy : IF y = copy[c] /\ doing[y] \in Answers
                            THEN of'[y] = Null /\ doing'[y] = "free"
                            ELSE of'[y] = of[y] /\ doing'[y] = doing[y]
<1>1. copy[c] \in Copy /\ of[copy[c]] = c
  BY TypedParts DEF Listening
<1> QED
  BY <1>1, TypedParts DEF Leaves, ServerType

LEMMA SingleClient ==
  ASSUME Typed, AllSingle, NEW d \in Call,
         Shed(d) \/ AbortEarly(d) \/ Admit(d) \/ NotFound(d) \/ Dispatch(d) \/ Unsent(d)
           \/ GiveUp(d) \/ Hear(d) \/ TimeOut(d) \/ Break(d)
  PROVE  AllSingle'
<1> SUFFICES ASSUME NEW c \in Call, ~Keyed(c) PROVE Single(c)'
  BY DEF AllSingle
<1>1. Single(c) /\ AtType /\ ServerType
  BY TypedParts DEF AllSingle, ClientType
<1>2. rows' = rows
  BY DEF Shed, AbortEarly, Turned, Admit, NotFound, Dispatch, Unsent, GiveUp, Hear, TimeOut, Break, tally
<1>3. CASE Shed(d) \/ AbortEarly(d) \/ Admit(d)
  <2>1. at'[c] \in Quiet => at[c] \in Quiet
    BY <1>1, <1>3 DEF Shed, AbortEarly, Turned, Admit, Begins, AtType, Quiet
  <2>2. UNCHANGED <<of, doing>>
    BY <1>3 DEF Shed, AbortEarly, Turned, Admit, server
  <2> QED
    BY <1>1, <1>2, <2>1, <2>2, SingleStill
<1>4. CASE NotFound(d) \/ Unsent(d) \/ GiveUp(d)
  <2>1. at[d] \in Quiet /\ UNCHANGED <<of, doing>>
    BY <1>4 DEF NotFound, Unsent, GiveUp, Attempts, Quiet, server
  <2>2. \E v : at' = [at EXCEPT ![d] = v]
    BY <1>4 DEF NotFound, Unsent, GiveUp, Tells, Result
  <2>3. at'[c] \in Quiet => at[c] \in Quiet
    BY <1>1, <2>1, <2>2 DEF AtType
  <2> QED
    BY <1>1, <1>2, <2>1, <2>3, SingleStill
<1>5. CASE Hear(d) \/ TimeOut(d) \/ Break(d)
  <2>1. at[d] = "out" /\ Leaves(d)
    BY <1>5 DEF Hear, TimeOut, Break
  <2>2. \A y \in Copy : IF y = copy[d] /\ doing[y] \in Answers
                       THEN of'[y] = Null /\ doing'[y] = "free"
                       ELSE of'[y] = of[y] /\ doing'[y] = doing[y]
    BY <2>1, LeavesIs
  <2>3. PICK r \in Results : /\ Result(d, r)
                             /\ r \in {"paced", "unreached"} => doing[copy[d]] = "paced"
    <3>1. CASE Hear(d)
      <4>1. doing[copy[d]] \in Results /\ doing[copy[d]] # "unreached"
        BY <3>1 DEF Hear, Results, Answers
      <4> QED
        BY <3>1, <4>1 DEF Hear
    <3>2. CASE TimeOut(d)
      BY <3>2 DEF TimeOut, Results
    <3>3. CASE Break(d)
      BY <3>3 DEF Break, Results, Answers
    <3> QED
      BY <1>5, <3>1, <3>2, <3>3
  <2>4. Waiting(d) \/ (Ending(d) /\ at'[d] = Verdict(d, r))
    BY <1>1, <2>1, <2>3, ResultIs DEF InSend
  <2>5. c # Null
    BY NullIsNone
  <2>6. CASE c # d
    <3>1. at'[c] = at[c]
      BY <1>1, <2>4, <2>6 DEF AtType, Waiting, Ending
    <3> QED
      BY <1>1, <1>2, <2>2, <2>5, <3>1, SingleStill
  <2>7. CASE c = d /\ at'[c] \notin Quiet
    BY <1>1, <1>2, <2>2, <2>5, <2>7, SingleStill
  <2>8. CASE c = d /\ at'[c] \in Quiet
    <3>1. Verdict(c, r) \in Quiet
      BY <2>4, <2>8 DEF Waiting
    <3>2. Verdict(c, r) = "retryable"
      BY <3>1, VerdictIs DEF Told, Quiet
    <3>3. doing[copy[c]] = "paced"
      BY <2>3, <2>8, <3>2, VerdictIs
    <3>4. copy[c] \in Copy /\ of[copy[c]] = c
      BY <2>1, <2>8, LeavesIs
    <3>5. rows[c] = 0 /\ \A y \in Copy : y # copy[c] => of[y] # c
      BY <1>1, <3>3, <3>4 DEF Single, Early
    <3>6. \A y \in Copy : of'[y] # c
      BY <2>2, <2>5, <2>8, <3>3, <3>4, <3>5 DEF Answers
    <3> QED
      BY <1>2, <3>5, <3>6 DEF Single
  <2> QED
    BY <2>6, <2>7, <2>8
<1>6. CASE Dispatch(d)
  <2>1. PICK x \in Copy : /\ doing[x] = "free" /\ doing' = [doing EXCEPT ![x] = "sent"]
                          /\ of' = [of EXCEPT ![x] = d]
    BY <1>6 DEF Dispatch
  <2>2. /\ \A y \in Copy : of'[y] = IF y = x THEN d ELSE of[y]
        /\ \A y \in Copy : y # x => doing'[y] = doing[y]
    BY <1>1, <2>1 DEF ServerType
  <2>3. at' = [at EXCEPT ![d] = "out"] /\ at[d] \in Quiet
    BY <1>6 DEF Dispatch, Attempts, Quiet
  <2>4. CASE c # d
    <3>1. at'[c] = at[c]
      BY <1>1, <2>3, <2>4 DEF AtType
    <3> QED
      BY <1>1, <1>2, <2>2, <2>4, <3>1, SingleStill
  <2>5. CASE c = d
    <3>1. rows[c] = 0 /\ \A y \in Copy : of[y] # c
      BY <1>1, <2>3, <2>5 DEF Single
    <3>2. at'[c] \notin Quiet
      BY <1>1, <2>3, <2>5 DEF AtType, Quiet
    <3> QED
      BY <1>2, <2>2, <2>5, <3>1, <3>2 DEF Single
  <2> QED
    BY <2>4, <2>5
<1> QED
  BY <1>3, <1>4, <1>5, <1>6

LEMMA SingleCopy ==
  ASSUME Typed, AllSingle, NEW x \in Copy,
         Vanish(x) \/ Pace(x) \/ Start(x) \/ Repeat(x) \/ Write(x)
           \/ Finish(x) \/ Fail(x) \/ FailCommitted(x) \/ Escape(x)
  PROVE  AllSingle'
<1> SUFFICES ASSUME NEW c \in Call, ~Keyed(c) PROVE Single(c)'
  BY DEF AllSingle
<1>1. Single(c) /\ ServerType /\ c # Null
  BY TypedParts, NullIsNone DEF AllSingle
<1>2. at' = at /\ copy' = copy /\ doing[x] # "free"
  BY DEF Vanish, Pace, Start, Repeat, Write, Finish, Fail, FailCommitted, Escape, client
<1>3. CASE Write(x)
  <2>1. doing[x] = "run" /\ of' = of /\ doing' = [doing EXCEPT ![x] = "wrote"]
        /\ rows' = [rows EXCEPT ![of[x]] = @ + 1]
    BY <1>3 DEF Write, Goes
  <2>2. rows \in [Call -> Nat] /\ of[x] \in Call
    BY <1>2, CallOf, TypedParts DEF StoreType
  <2>3. \A y \in Copy : doing'[y] = IF y = x THEN "wrote" ELSE doing[y]
    BY <1>1, <2>1 DEF ServerType
  <2>4. CASE of[x] # c
    BY <1>1, <1>2, <2>1, <2>2, <2>3, <2>4, SingleStill
  <2>5. CASE of[x] = c
    <3>1. rows[c] = 0 /\ at[c] \notin Quiet /\ \A y \in Copy : of[y] = c => y = x
      BY <1>1, <2>1, <2>5 DEF Single, Early
    <3>2. rows'[c] = 1
      BY <2>1, <2>2, <2>5, <3>1
    <3> QED
      BY <1>2, <2>1, <2>3, <3>1, <3>2 DEF Single, Early
  <2> QED
    BY <2>4, <2>5
<1>4. CASE ~Write(x)
  <2>1. rows' = rows
    BY <1>4 DEF Vanish, Pace, Start, Repeat, Finish, Fail, FailCommitted, Escape, tally
  <2>2. \A y \in Copy : of'[y] = c => of[y] = c /\ (doing'[y] \in Early => doing[y] \in Early)
    <3>1. CASE Vanish(x)
      BY <1>1, <3>1 DEF Vanish, ServerType
    <3>2. CASE Start(x)
      BY <1>1, <3>2 DEF Start, Goes, ServerType, Early
    <3>3. ASSUME NEW a \in Answers, Answer(x, a), a = "paced" => doing[x] \in Early
          PROVE  \A y \in Copy : of'[y] = c => of[y] = c /\ (doing'[y] \in Early => doing[y] \in Early)
      <4>1. \/ of' = of /\ doing' = [doing EXCEPT ![x] = a]
            \/ of' = [of EXCEPT ![x] = Null] /\ doing' = [doing EXCEPT ![x] = "free"]
        BY <1>2, <3>3, AnswerTypes
      <4> QED
        BY <1>1, <3>3, <4>1 DEF ServerType, Early, Answers
    <3>4. CASE Pace(x)
      BY <3>3, <3>4 DEF Pace, Answers, Early
    <3>5. CASE Repeat(x) \/ Finish(x) \/ Fail(x) \/ FailCommitted(x) \/ Escape(x)
      <4>1. PICK a \in {"ok", "refused", "fault"} : Answer(x, a)
        BY <3>5 DEF Repeat, Finish, Fail, FailCommitted, Escape
      <4> QED
        BY <3>3, <4>1 DEF Answers
    <3> QED
      BY <1>4, <3>1, <3>2, <3>4, <3>5
  <2> QED
    BY <1>1, <1>2, <2>1, <2>2, SingleStill
<1> QED
  BY <1>3, <1>4

LEMMA SingleNext == Typed /\ AllSingle /\ [Next]_vars => AllSingle'
<1> SUFFICES ASSUME Typed, AllSingle, [Next]_vars PROVE AllSingle'
  OBVIOUS
<1>1. ASSUME UNCHANGED <<client, server, rows>> PROVE AllSingle'
  BY <1>1 DEF client, server, AllSingle, Single
<1>2. CASE (\E k \in Key : Expire(k)) \/ Deregister \/ Learns \/ Register \/ Elapse \/ UNCHANGED vars
  BY <1>1, <1>2 DEF Expire, Deregister, Learns, Register, Elapse, vars, tally
<1>3. CASE Restart
  <2> SUFFICES ASSUME NEW c \in Call, ~Keyed(c) PROVE Single(c)'
    BY DEF AllSingle
  <2>1. \A y \in Copy : of'[y] = c => of[y] = c /\ (doing'[y] \in Early => doing[y] \in Early)
    BY <1>3, RestartIs, NullIsNone DEF Early
  <2> QED
    BY <1>3, <2>1, SingleStill DEF Restart, client, AllSingle
<1> QED
  BY <1>2, <1>3, SingleClient, SingleCopy DEF Next

LEMMA SingleInit == Init => AllSingle
BY NullIsNone DEF Init, AllSingle, Single

\* A call with no key writes one row at most, whatever its caller repeats.
THEOREM AppliedAtMostOnce == Spec => []AppliedOnce
<1>1. AllSingle => AppliedOnce
  BY DEF AllSingle, Single, AppliedOnce
<1> QED
  BY <1>1, TypedInit, TypedNext, SingleInit, SingleNext, PTL DEF Spec

-----------------------------------------------------------------------------
(* Rows: behind an answer                                                  *)

\* Whoever has been told so, an answer that waits, and a key that is done, stand
\* for a row of the call they name.
Backed ==
  /\ \A c \in Call : at[c] = "ok" => rows[c] > 0
  /\ \A x \in Copy : doing[x] \in {"wrote", "ok"} => rows[of[x]] > 0
  /\ \A k \in Key : entry[k] # Null /\ entry[k].state = "done" => rows[entry[k].of] > 0

LEMMA BackedStill ==
  ASSUME Typed, Backed, rows' = rows,
         \A c \in Call : at'[c] = "ok" => at[c] = "ok" \/ rows[c] > 0,
         \A x \in Copy : doing'[x] \in {"wrote", "ok"} => of'[x] = of[x] /\ rows[of[x]] > 0,
         \A k \in Key : entry'[k] # Null /\ entry'[k].state = "done"
                        => entry'[k] = entry[k] \/ rows[entry'[k].of] > 0
  PROVE  Backed'
BY DEF Backed

LEMMA BackedClient ==
  ASSUME Typed, Backed, NEW d \in Call,
         Shed(d) \/ AbortEarly(d) \/ Admit(d) \/ NotFound(d) \/ Dispatch(d) \/ Unsent(d)
           \/ GiveUp(d) \/ Hear(d) \/ TimeOut(d) \/ Break(d)
  PROVE  Backed'
<1>1. UNCHANGED <<rows, entry>>
  BY DEF Shed, AbortEarly, Turned, Admit, NotFound, Dispatch, Unsent, GiveUp, Hear, TimeOut, Break, tally
<1>2. AtType /\ ServerType
  BY TypedParts DEF ClientType
<1>3. ASSUME NEW v, v # "ok", at' = [at EXCEPT ![d] = v], UNCHANGED <<of, doing>> PROVE Backed'
  BY <1>1, <1>2, <1>3, BackedStill DEF Backed, AtType
<1>4. CASE Shed(d) \/ AbortEarly(d) \/ Admit(d)
  BY <1>3, <1>4 DEF Shed, AbortEarly, Turned, Admit, server
<1>5. ASSUME NEW r \in Results, Result(d, r), at[d] \in InSend
      PROVE  \E v : at' = [at EXCEPT ![d] = v] /\ (v = "ok" => r = "ok")
  <2>1. Waiting(d) \/ (Ending(d) /\ at'[d] = Verdict(d, r))
    BY <1>2, <1>5, ResultIs
  <2> QED
    BY <2>1, VerdictIs DEF Waiting, Ending
<1>6. CASE NotFound(d) \/ GiveUp(d)
  BY <1>3, <1>6 DEF NotFound, GiveUp, Tells, server
<1>7. CASE Unsent(d)
  <2>1. PICK r \in {"unreached", "refused"} : Result(d, r)
    BY <1>7 DEF Unsent
  <2>2. at[d] \in InSend /\ r \in Results /\ r # "ok" /\ UNCHANGED <<of, doing>>
    BY <1>7 DEF Unsent, Attempts, InSend, Results, Answers, server
  <2> QED
    BY <1>3, <1>5, <2>1, <2>2
<1>8. CASE Hear(d) \/ TimeOut(d) \/ Break(d)
  <2>1. at[d] = "out" /\ Leaves(d)
    BY <1>8 DEF Hear, TimeOut, Break
  <2>2. /\ copy[d] \in Copy /\ of[copy[d]] = d
        /\ \A y \in Copy : IF y = copy[d] /\ doing[y] \in Answers
                           THEN of'[y] = Null /\ doing'[y] = "free"
                           ELSE of'[y] = of[y] /\ doing'[y] = doing[y]
    BY <2>1, LeavesIs
  <2>3. PICK r \in Results : Result(d, r) /\ (r = "ok" => doing[copy[d]] = "ok")
    <3>1. CASE Hear(d)
      BY <3>1 DEF Hear, Results
    <3>2. CASE TimeOut(d)
      BY <3>2 DEF TimeOut, Results
    <3>3. CASE Break(d)
      BY <3>3 DEF Break, Results, Answers
    <3> QED
      BY <1>8, <3>1, <3>2, <3>3
  <2>4. PICK v : at' = [at EXCEPT ![d] = v] /\ (v = "ok" => r = "ok")
    BY <1>5, <2>1, <2>3 DEF InSend
  <2>5. v = "ok" => rows[d] > 0
    BY <2>2, <2>3, <2>4 DEF Backed
  <2>6. \A c \in Call : at'[c] = "ok" => at[c] = "ok" \/ rows[c] > 0
    BY <1>2, <2>4, <2>5 DEF AtType
  <2>7. \A x \in Copy : doing'[x] \in {"wrote", "ok"} => of'[x] = of[x] /\ rows[of[x]] > 0
    BY <2>2 DEF Backed
  <2> QED
    BY <1>1, <2>6, <2>7, BackedStill
<1>9. CASE Dispatch(d)
  <2>1. PICK x \in Copy : doing' = [doing EXCEPT ![x] = "sent"] /\ of' = [of EXCEPT ![x] = d]
    BY <1>9 DEF Dispatch
  <2>2. \A y \in Copy : doing'[y] \in {"wrote", "ok"} => of'[y] = of[y] /\ rows[of[y]] > 0
    BY <1>2, <2>1 DEF ServerType, Backed
  <2>3. \A c \in Call : at'[c] = "ok" => at[c] = "ok"
    BY <1>2, <1>9 DEF AtType, Dispatch
  <2> QED
    BY <1>1, <2>2, <2>3, BackedStill
<1> QED
  BY <1>4, <1>6, <1>7, <1>8, <1>9

LEMMA BackedCopy ==
  ASSUME Typed, Backed, NEW x \in Copy,
         Vanish(x) \/ Pace(x) \/ Start(x) \/ Repeat(x) \/ Write(x)
           \/ Finish(x) \/ Fail(x) \/ FailCommitted(x) \/ Escape(x)
  PROVE  Backed'
<1>1. ServerType /\ StoreType
  BY TypedParts
<1>2. at' = at /\ copy' = copy /\ doing[x] # "free"
  BY DEF Vanish, Pace, Start, Repeat, Write, Finish, Fail, FailCommitted, Escape, client
<1>3. of[x] \in Call /\ (Keyed(of[x]) => KeyOf[of[x]] \in Key) /\ Null \notin K!Entry
  BY <1>2, CallOf, CallsAssumption DEF K!Entry
<1>4. CASE Write(x)
  <2>1. of' = of /\ doing' = [doing EXCEPT ![x] = "wrote"] /\ entry' = entry
        /\ rows' = [rows EXCEPT ![of[x]] = @ + 1]
    BY <1>4 DEF Write, Goes
  <2>2. \A c \in Call : rows'[c] = IF c = of[x] THEN rows[c] + 1 ELSE rows[c]
    BY <1>1, <2>1 DEF StoreType
  <2>3. \A c \in Call : rows[c] \in Nat /\ (rows[c] > 0 => rows'[c] > 0) /\ rows'[of[x]] > 0
    BY <1>1, <1>3, <2>2 DEF StoreType
  <2>4. \A k \in Key : entry[k] # Null => entry[k].of \in Call
    BY <1>1 DEF StoreType, K!KeysType, K!Entry
  <2>5. \A y \in Copy : doing[y] # "free" => of[y] \in Call
    BY CallOf
  <2>6. \A y \in Copy : doing'[y] = IF y = x THEN "wrote" ELSE doing[y]
    BY <1>1, <2>1 DEF ServerType
  <2>7. \A y \in Copy : doing'[y] \in {"wrote", "ok"} => rows'[of'[y]] > 0
    <3> SUFFICES ASSUME NEW y \in Copy, doing'[y] \in {"wrote", "ok"} PROVE rows'[of[y]] > 0
      BY <2>1
    <3>1. y # x => rows[of[y]] > 0 /\ of[y] \in Call
      BY <2>5, <2>6 DEF Backed
    <3>2. CASE y = x
      BY <1>3, <2>3, <3>2
    <3>3. CASE y # x
      BY <2>3, <3>1, <3>3
    <3> QED
      BY <3>2, <3>3
  <2>8. \A c \in Call : at'[c] = "ok" => rows'[c] > 0
    BY <1>2, <2>3 DEF Backed
  <2>9. \A k \in Key : entry'[k] # Null /\ entry'[k].state = "done" => rows'[entry'[k].of] > 0
    BY <2>1, <2>3, <2>4 DEF Backed
  <2> QED
    BY <2>7, <2>8, <2>9 DEF Backed
<1>5. CASE ~Write(x)
  <2>1. rows' = rows
    BY <1>5 DEF Vanish, Pace, Start, Repeat, Finish, Fail, FailCommitted, Escape, tally
  <2>2. \A y \in Copy : doing'[y] \in {"wrote", "ok"} => of'[y] = of[y] /\ rows[of[y]] > 0
    <3>1. CASE Vanish(x)
      BY <1>1, <3>1 DEF Vanish, ServerType, Backed
    <3>2. CASE Start(x)
      BY <1>1, <3>2 DEF Start, Goes, ServerType, Backed
    <3>3. ASSUME NEW a \in Answers, Answer(x, a), a = "ok" => rows[of[x]] > 0
          PROVE  \A y \in Copy : doing'[y] \in {"wrote", "ok"} => of'[y] = of[y] /\ rows[of[y]] > 0
      <4>1. \/ of' = of /\ doing' = [doing EXCEPT ![x] = a]
            \/ of' = [of EXCEPT ![x] = Null] /\ doing' = [doing EXCEPT ![x] = "free"]
        BY <1>2, <3>3, AnswerTypes
      <4> QED
        BY <1>1, <3>3, <4>1 DEF ServerType, Backed, Answers
    <3>4. CASE Repeat(x)
      <4>1. PICK k \in Key : \/ K!Replays(k, of[x]) /\ Answer(x, "ok")
                             \/ Answer(x, "refused")
        BY <1>3, <3>4 DEF Repeat
      <4>2. K!Replays(k, of[x]) => rows[of[x]] > 0
        <5>1. K!Done(of[x]) # Null /\ K!Done(of[x]).state = "done" /\ K!Done(of[x]).of = of[x]
          BY <1>3 DEF K!Done, K!Entry
        <5> QED
          BY <5>1 DEF K!Replays, Backed
      <4> QED
        BY <3>3, <4>1, <4>2 DEF Answers
    <3>5. CASE Finish(x)
      BY <3>3, <3>5 DEF Finish, Backed, Answers
    <3>6. CASE Pace(x) \/ Fail(x) \/ FailCommitted(x) \/ Escape(x)
      <4>1. PICK a \in {"paced", "refused", "fault"} : Answer(x, a)
        BY <3>6 DEF Pace, Fail, FailCommitted, Escape
      <4> QED
        BY <3>3, <4>1 DEF Answers
    <3> QED
      BY <1>5, <3>1, <3>2, <3>4, <3>5, <3>6
  <2>3. \A k \in Key : entry'[k] # Null /\ entry'[k].state = "done"
                       => entry'[k] = entry[k] \/ rows[entry'[k].of] > 0
    <3>1. CASE Start(x)
      BY <1>1, <1>3, <3>1 DEF Start, K!Claims, K!Pending, StoreType, K!KeysType, Keyed
    <3>2. CASE Finish(x)
      <4>1. rows[of[x]] > 0
        BY <3>2 DEF Finish, Backed
      <4> QED
        BY <1>1, <1>3, <3>2, <4>1 DEF Finish, K!Keeps, K!Done, StoreType, K!KeysType
    <3>3. CASE Fail(x) \/ FailCommitted(x)
      BY <1>1, <1>3, <3>3 DEF Fail, FailCommitted, Loses, K!Frees, StoreType, K!KeysType
    <3>4. CASE Vanish(x) \/ Pace(x) \/ Repeat(x) \/ Escape(x)
      BY <3>4 DEF Vanish, Pace, Repeat, Escape, K!Replays, K!Refuses
    <3> QED
      BY <1>5, <3>1, <3>2, <3>3, <3>4
  <2> QED
    BY <1>2, <2>1, <2>2, <2>3, BackedStill
<1> QED
  BY <1>4, <1>5

LEMMA BackedNext == Typed /\ Backed /\ [Next]_vars => Backed'
<1> SUFFICES ASSUME Typed, Backed, [Next]_vars PROVE Backed'
  OBVIOUS
<1>1. CASE Deregister \/ Learns \/ Register \/ Elapse \/ UNCHANGED vars
  BY <1>1 DEF Deregister, Learns, Register, Elapse, vars, client, server, tally, Backed
<1>2. ASSUME NEW k \in Key, Expire(k) PROVE Backed'
  <2>1. \A j \in Key : entry'[j] = IF j = k THEN Null ELSE entry[j]
    BY <1>2, TypedParts DEF Expire, Loses, K!Frees, StoreType, K!KeysType
  <2> QED
    BY <1>2, <2>1 DEF Expire, client, server, Backed
<1>3. CASE Restart
  <2>1. entry' = entry \/ \A k \in Key : entry'[k] = Null
    BY <1>3 DEF Restart, K!Clears
  <2>2. \A x \in Copy : doing'[x] \in {"wrote", "ok"} => doing'[x] = doing[x] /\ of'[x] = of[x]
    BY <1>3, RestartIs DEF Working
  <2> QED
    BY <1>3, <2>1, <2>2 DEF Restart, client, Backed
<1> QED
  BY <1>1, <1>2, <1>3, BackedClient, BackedCopy DEF Next

LEMMA BackedInit == Init => Backed
BY DEF Init, Backed, K!Empty

\* A caller told that its call succeeded has a row of its own.
THEOREM OkIsApplied == Spec => []OkMeansApplied
<1>1. Backed => OkMeansApplied
  BY DEF Backed, OkMeansApplied
<1> QED
  BY <1>1, TypedInit, TypedNext, BackedInit, BackedNext, PTL DEF Spec

-----------------------------------------------------------------------------
(* Rows: under one key                                                     *)

Running(k) == {x \in Copy : doing[x] = "run" /\ of[x] \in Call /\ KeyOf[of[x]] = k}

\* Every row, and every run that may yet write one, is behind a lost entry; all
\* but one while there is an entry.
Covered(k) ==
  made[k] + Cardinality(Running(k)) <= lost[k] + (IF entry[k] = Null THEN 0 ELSE 1)

AllCovered == \A k \in Key : Covered(k)

LEMMA RunningFinite ==
  ASSUME NEW k \in Key
  PROVE  IsFiniteSet(Running(k)) /\ Cardinality(Running(k)) \in Nat
<1>1. IsFiniteSet(Copy)
  BY CallsAssumption
<1>2. IsFiniteSet(Running(k))
  BY <1>1, FS_Subset DEF Running
<1> QED
  BY <1>2, FS_CardinalityType

LEMMA CoveredStill ==
  ASSUME NEW k \in Key, StoreType, StoreType', Covered(k),
         Running(k)' \subseteq Running(k), made'[k] = made[k],
         \/ lost'[k] = lost[k] /\ (entry[k] # Null => entry'[k] # Null)
         \/ lost'[k] = lost[k] + 1
  PROVE  Covered(k)'
<1> DEFINE n == Cardinality(Running(k))  m == Cardinality(Running(k)')
<1>1. n \in Nat /\ m \in Nat /\ m <= n
  BY RunningFinite, FS_Subset, FS_CardinalityType
<1>2. made[k] \in Nat /\ lost[k] \in Nat
  BY DEF StoreType
<1>3. made[k] + n <= lost[k] + (IF entry[k] = Null THEN 0 ELSE 1)
  BY DEF Covered
<1> HIDE DEF n, m
<1>4. made'[k] + m <= lost'[k] + (IF entry'[k] = Null THEN 0 ELSE 1)
  BY <1>1, <1>2, <1>3
<1> QED
  BY <1>4 DEF Covered, n, m

\* A run that ends, with its row or without.
LEMMA CoveredEnds ==
  ASSUME NEW k \in Key, StoreType, Covered(k), NEW x \in Running(k),
         Running(k)' = Running(k) \ {x}, lost'[k] = lost[k],
         \/ made'[k] = made[k]
         \/ made'[k] = made[k] + 1 /\ entry'[k] = entry[k]
  PROVE  Covered(k)'
<1> DEFINE n == Cardinality(Running(k))  m == Cardinality(Running(k)')
<1>1. n \in Nat /\ m = n - 1
  BY RunningFinite, FS_RemoveElement
<1>2. made[k] \in Nat /\ lost[k] \in Nat
  BY DEF StoreType
<1>3. made[k] + n <= lost[k] + (IF entry[k] = Null THEN 0 ELSE 1)
  BY DEF Covered
<1> HIDE DEF n, m
<1>4. made'[k] + m <= lost'[k] + (IF entry'[k] = Null THEN 0 ELSE 1)
  BY <1>1, <1>2, <1>3
<1> QED
  BY <1>4 DEF Covered, n, m

\* A run that begins: it takes the entry.
LEMMA CoveredBegins ==
  ASSUME NEW k \in Key, StoreType, Covered(k), NEW x \in Copy \ Running(k),
         Running(k)' = Running(k) \union {x}, lost'[k] = lost[k], made'[k] = made[k],
         entry[k] = Null, entry'[k] # Null
  PROVE  Covered(k)'
<1> DEFINE n == Cardinality(Running(k))  m == Cardinality(Running(k)')
<1>1. n \in Nat /\ m = n + 1
  BY RunningFinite, FS_AddElement
<1>2. made[k] \in Nat /\ lost[k] \in Nat
  BY DEF StoreType
<1>3. made[k] + n <= lost[k] + 0
  BY DEF Covered
<1> HIDE DEF n, m
<1>4. made'[k] + m <= lost'[k] + 1
  BY <1>1, <1>2, <1>3
<1> QED
  BY <1>4 DEF Covered, n, m

\* No run begins in a step of a client.
LEMMA RunsOfClient ==
  ASSUME Typed, NEW c \in Call,
         Shed(c) \/ AbortEarly(c) \/ Admit(c) \/ NotFound(c) \/ Dispatch(c) \/ Unsent(c)
           \/ GiveUp(c) \/ Hear(c) \/ TimeOut(c) \/ Break(c)
  PROVE  /\ UNCHANGED <<entry, tally>>
         /\ \A y \in Copy : doing'[y] = "run" => doing[y] = "run" /\ of'[y] = of[y]
<1>1. UNCHANGED <<entry, tally>>
  BY DEF Shed, AbortEarly, Turned, Admit, NotFound, Dispatch, Unsent, GiveUp, Hear, TimeOut, Break
<1>2. CASE Shed(c) \/ AbortEarly(c) \/ Admit(c) \/ NotFound(c) \/ Unsent(c) \/ GiveUp(c)
  BY <1>1, <1>2 DEF Shed, AbortEarly, Turned, Admit, NotFound, Unsent, GiveUp, server
<1>3. CASE Dispatch(c)
  <2>1. PICK x \in Copy : doing' = [doing EXCEPT ![x] = "sent"] /\ of' = [of EXCEPT ![x] = c]
    BY <1>3 DEF Dispatch
  <2> QED
    BY <1>1, <2>1, TypedParts DEF ServerType
<1>4. CASE Hear(c) \/ TimeOut(c) \/ Break(c)
  <2>1. at[c] = "out" /\ Leaves(c)
    BY <1>4 DEF Hear, TimeOut, Break
  <2> QED
    BY <1>1, <2>1, LeavesIs
<1> QED
  BY <1>2, <1>3, <1>4

LEMMA RunsStill ==
  ASSUME NEW k \in Key, \A y \in Copy : doing'[y] = "run" => doing[y] = "run" /\ of'[y] = of[y]
  PROVE  Running(k)' \subseteq Running(k)
BY DEF Running

LEMMA CoveredCopy ==
  ASSUME Typed, Typed', AllCovered, NEW x \in Copy, NEW k \in Key,
         Vanish(x) \/ Pace(x) \/ Start(x) \/ Repeat(x) \/ Write(x)
           \/ Finish(x) \/ Fail(x) \/ FailCommitted(x) \/ Escape(x)
  PROVE  Covered(k)'
<1> DEFINE mine == KeyOf[of[x]] = k
<1>1. /\ ServerType /\ StoreType /\ StoreType' /\ Covered(k) /\ copy' = copy
      /\ doing[x] # "free" /\ of[x] \in Call
  <2>1. doing[x] # "free" /\ copy' = copy
    BY DEF Vanish, Pace, Start, Repeat, Write, Finish, Fail, FailCommitted, Escape, client
  <2> QED
    BY <2>1, TypedParts, CallOf DEF AllCovered, ClientType, ServerType, StoreType, Slots,
       Typed, TypeOK, K!KeysType
<1>2. k # Null /\ Null \notin K!Entry
  BY CallsAssumption DEF K!Entry
<1>3. ASSUME NEW a \in Answers, Answer(x, a)
      PROVE  /\ \A y \in Copy : y # x => doing'[y] = doing[y] /\ of'[y] = of[y]
             /\ doing'[x] # "run"
  <2>1. \/ of' = of /\ doing' = [doing EXCEPT ![x] = a]
        \/ of' = [of EXCEPT ![x] = Null] /\ doing' = [doing EXCEPT ![x] = "free"]
    BY <1>1, <1>3, AnswerTypes
  <2> QED
    BY <1>1, <2>1 DEF ServerType, Answers
<1>4. ASSUME \A y \in Copy : y # x => doing'[y] = doing[y] /\ of'[y] = of[y],
             doing'[x] # "run"
      PROVE  Running(k)' = Running(k) \ {x}
  BY <1>4 DEF Running
<1>5. CASE Vanish(x) \/ Pace(x) \/ Repeat(x) \/ Escape(x)
  <2>1. UNCHANGED <<entry, made, lost>>
    BY <1>5 DEF Vanish, Pace, Repeat, Escape, tally, K!Replays, K!Refuses
  <2>2. Running(k)' = Running(k) \ {x}
    <3>1. CASE Vanish(x)
      BY <1>1, <1>4, <3>1 DEF Vanish, ServerType
    <3>2. CASE Pace(x) \/ Repeat(x) \/ Escape(x)
      <4>1. PICK a \in Answers : Answer(x, a)
        BY <3>2 DEF Pace, Repeat, Escape, Answers
      <4> QED
        BY <1>3, <1>4, <4>1
    <3> QED
      BY <1>5, <3>1, <3>2
  <2> QED
    BY <1>1, <2>1, <2>2, CoveredStill
<1>6. CASE Start(x)
  <2>1. /\ UNCHANGED <<made, lost>> /\ of' = of /\ doing[x] = "sent"
        /\ \A y \in Copy : doing'[y] = IF y = x THEN "run" ELSE doing[y]
    BY <1>1, <1>6 DEF Start, Goes, tally, ServerType
  <2>2. x \notin Running(k)
    BY <2>1 DEF Running
  <2>3. CASE mine
    <3>1. K!Claims(k, of[x])
      BY <1>2, <1>6, <2>3 DEF Start
    <3>2. entry[k] = Null /\ entry'[k] # Null
      BY <1>1, <1>2, <3>1 DEF K!Claims, K!Pending, K!Entry, StoreType, K!KeysType
    <3>3. Running(k)' = Running(k) \union {x}
      BY <1>1, <2>1, <2>3 DEF Running
    <3> QED
      BY <1>1, <2>1, <2>2, <3>2, <3>3, CoveredBegins
  <2>4. CASE ~mine
    <3>1. entry'[k] = entry[k]
      BY <1>1, <1>6, <2>4 DEF Start, K!Claims, StoreType, K!KeysType
    <3>2. Running(k)' = Running(k)
      BY <2>1, <2>4 DEF Running
    <3> QED
      BY <1>1, <2>1, <3>1, <3>2, CoveredStill
  <2> QED
    BY <2>3, <2>4
<1>7. CASE Write(x)
  <2>1. /\ UNCHANGED <<entry, lost>> /\ of' = of /\ doing[x] = "run"
        /\ \A y \in Copy : doing'[y] = IF y = x THEN "wrote" ELSE doing[y]
        /\ made' = IF Keyed(of[x]) THEN [made EXCEPT ![KeyOf[of[x]]] = @ + 1] ELSE made
    BY <1>1, <1>7 DEF Write, Goes, ServerType
  <2>2. Running(k)' = Running(k) \ {x}
    BY <1>4, <2>1
  <2>3. CASE mine
    <3>1. made'[k] = made[k] + 1
      BY <1>1, <1>2, <2>1, <2>3 DEF Keyed, StoreType
    <3>2. x \in Running(k)
      BY <1>1, <2>1, <2>3 DEF Running
    <3> QED
      BY <1>1, <2>1, <2>2, <3>1, <3>2, CoveredEnds
  <2>4. CASE ~mine
    <3>1. made'[k] = made[k]
      BY <1>1, <2>1, <2>4 DEF StoreType
    <3> QED
      BY <1>1, <2>1, <2>2, <3>1, CoveredStill
  <2> QED
    BY <2>3, <2>4
<1>8. CASE Finish(x)
  <2>1. UNCHANGED <<made, lost>> /\ Running(k)' = Running(k) \ {x}
    BY <1>3, <1>4, <1>8 DEF Finish, tally, Answers
  <2>2. entry[k] # Null => entry'[k] # Null
    BY <1>1, <1>2, <1>8 DEF Finish, K!Keeps, K!Done, K!Entry, StoreType, K!KeysType
  <2> QED
    BY <1>1, <2>1, <2>2, CoveredStill
<1>9. CASE Fail(x)
  <2>1. doing[x] = "run" /\ UNCHANGED <<made, lost>>
    BY <1>9 DEF Fail, tally
  <2>2. Running(k)' = Running(k) \ {x}
    <3>1. PICK a \in Answers : Answer(x, a)
      BY <1>9 DEF Fail, Answers
    <3> QED
      BY <1>3, <1>4, <3>1
  <2>3. CASE mine
    <3>1. x \in Running(k)
      BY <1>1, <2>1, <2>3 DEF Running
    <3> QED
      BY <1>1, <2>1, <2>2, <3>1, CoveredEnds
  <2>4. CASE ~mine
    <3>1. entry'[k] = entry[k]
      BY <1>1, <1>9, <2>4 DEF Fail, K!Frees, StoreType, K!KeysType
    <3> QED
      BY <1>1, <2>1, <2>2, <3>1, CoveredStill
  <2> QED
    BY <2>3, <2>4
<1>10. CASE FailCommitted(x)
  <2>1. made' = made
    BY <1>10 DEF FailCommitted
  <2>2. Running(k)' = Running(k) \ {x}
    <3>1. PICK a \in Answers : Answer(x, a)
      BY <1>10 DEF FailCommitted, Answers
    <3> QED
      BY <1>3, <1>4, <3>1
  <2>3. \/ lost'[k] = lost[k] /\ (entry[k] # Null => entry'[k] # Null)
        \/ lost'[k] = lost[k] + 1
    BY <1>1, <1>10 DEF FailCommitted, Loses, K!Frees, StoreType, K!KeysType
  <2> QED
    BY <1>1, <2>1, <2>2, <2>3, CoveredStill
<1> QED
  BY <1>5, <1>6, <1>7, <1>8, <1>9, <1>10

LEMMA CoveredNext == Typed /\ Typed' /\ AllCovered /\ [Next]_vars => AllCovered'
<1> SUFFICES ASSUME Typed, Typed', AllCovered, [Next]_vars, NEW k \in Key
             PROVE  Covered(k)'
  BY DEF AllCovered
<1>1. StoreType /\ StoreType' /\ Covered(k)
  BY TypedParts DEF AllCovered, StoreType, Typed, TypeOK, K!KeysType
<1>2. ASSUME UNCHANGED <<entry, made, lost>>,
             \A y \in Copy : doing'[y] = "run" => doing[y] = "run" /\ of'[y] = of[y]
      PROVE  Covered(k)'
  BY <1>1, <1>2, RunsStill, CoveredStill
<1>3. CASE Deregister \/ Learns \/ Register \/ Elapse \/ UNCHANGED vars
  BY <1>2, <1>3 DEF Deregister, Learns, Register, Elapse, vars, server, tally
<1>4. ASSUME NEW c \in Call,
             Shed(c) \/ AbortEarly(c) \/ Admit(c) \/ NotFound(c) \/ Dispatch(c) \/ Unsent(c)
               \/ GiveUp(c) \/ Hear(c) \/ TimeOut(c) \/ Break(c)
      PROVE  Covered(k)'
  BY <1>2, <1>4, RunsOfClient DEF tally
<1>5. ASSUME NEW j \in Key, Expire(j) PROVE Covered(k)'
  <2>1. \/ lost'[k] = lost[k] /\ (entry[k] # Null => entry'[k] # Null)
        \/ lost'[k] = lost[k] + 1
    BY <1>1, <1>5 DEF Expire, Loses, K!Frees, StoreType, K!KeysType
  <2>2. UNCHANGED made /\ Running(k)' = Running(k)
    BY <1>5 DEF Expire, server, Running
  <2> QED
    BY <1>1, <2>1, <2>2, CoveredStill
<1>6. CASE Restart
  <2>1. made' = made /\ \A y \in Copy : doing'[y] = "run" => doing[y] = "run" /\ of'[y] = of[y]
    BY <1>6, RestartIs DEF Restart, Working
  <2>2. \/ lost'[k] = lost[k] /\ (entry[k] # Null => entry'[k] # Null)
        \/ lost'[k] = lost[k] + 1
    BY <1>1, <1>6 DEF Restart, K!Clears
  <2> QED
    BY <1>1, <2>1, <2>2, RunsStill, CoveredStill
<1> QED
  BY <1>3, <1>4, <1>5, <1>6, CoveredCopy DEF Next

LEMMA CoveredInit == Init => AllCovered
<1> SUFFICES ASSUME Init, NEW k \in Key PROVE Covered(k)
  BY DEF AllCovered
<1>1. Running(k) = {}
  BY DEF Init, Running
<1>2. Cardinality(Running(k)) = 0
  BY <1>1, FS_EmptySet
<1> QED
  BY <1>2 DEF Init, Covered, K!Empty

\* Under one key there is at most one row more than the entries lost.
THEOREM RowsPerLoss == Spec => []OncePerLoss
<1>1. Typed /\ AllCovered => OncePerLoss
  <2> SUFFICES ASSUME Typed, AllCovered, NEW k \in Key PROVE made[k] <= 1 + lost[k]
    BY DEF OncePerLoss
  <2>1. Cardinality(Running(k)) \in Nat /\ made[k] \in Nat /\ lost[k] \in Nat
    BY RunningFinite, TypedParts DEF StoreType
  <2>2. made[k] + Cardinality(Running(k)) <= lost[k] + (IF entry[k] = Null THEN 0 ELSE 1)
    BY DEF AllCovered, Covered
  <2> QED
    BY <2>1, <2>2
<1> QED
  BY <1>1, TypedInit, TypedNext, CoveredInit, CoveredNext, PTL DEF Spec
=============================================================================
