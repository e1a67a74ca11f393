----------------------------- MODULE CallGates -----------------------------
(***************************************************************************)
(* The gates of a governed connector call: ConnectorService.invoke passes  *)
(* the RateLimiter and the CircuitBreaker before it dispatches, and tells  *)
(* the breaker how the call went.  Both keep their state in maps of the    *)
(* API process by connector id; this is one connector.  JavaScript runs    *)
(* from one await to the next, so a step is what lies between two.         *)
(***************************************************************************)
EXTENDS Integers

CONSTANTS
  Caller,                     \* calls in progress at a time
  Minute, Hour,               \* lengths of the rate windows, in ticks
  MaxPerMinute, MaxPerHour,   \* dispatches a window admits
  BurstSize,                  \* tokens a full bucket holds
  FailureThreshold,           \* failures that open a circuit
  ResetTimeout,               \* ticks an open circuit refuses
  MaxSpan                     \* bound: ticks an observed interval is followed

\* The threshold is always init's default of 5.
ASSUME GatesAssumption ==
  /\ Minute \in Nat \ {0} /\ Hour \in Nat \ {0}
  /\ MaxPerMinute \in Nat \ {0} /\ MaxPerHour \in Nat \ {0}
  /\ BurstSize \in Nat \ {0}
  /\ FailureThreshold \in Nat \ {0, 1}
  /\ ResetTimeout \in Nat \ {0}
  /\ MaxSpan \in Nat \ {0}

HalfOpenMax == 2

Window == {"minute", "hour"}
Length == [w \in Window |-> IF w = "minute" THEN Minute ELSE Hour]
Limit == [w \in Window |-> IF w = "minute" THEN MaxPerMinute ELSE MaxPerHour]

\* A bucket fills at MaxPerMinute tokens a minute: it counts in fractions of a
\* token, Minute to the token, and gains MaxPerMinute of them a tick.
Token == Minute
Full == BurstSize * Token
Upto(n, max) == IF n < max THEN n ELSE max

VARIABLES
  known,        \* the maps hold a bucket and a circuit of the connector
  tokens,       \* Bucket.tokens, in fractions
  count, since, \* minuteCount and hourCount, and the ticks since the window began
  state, failureCount, successCount, halfOpenAttempts,   \* Circuit
  waited,       \* ticks since openedAt
  pc,           \* where each call stands
  age, sent,    \* history: an interval and the calls dispatched in it
  streak,       \* history: failures recorded since the last success
  quiet,        \* history: ticks since the circuit left another state for open
  failed,       \* history: a dispatch failed
  overlap       \* history: two calls were in progress at once

bucketVars == <<tokens, count, since, age, sent>>
circuitVars == <<state, failureCount, successCount, halfOpenAttempts, waited, streak, quiet>>
vars == <<known, bucketVars, circuitVars, pc, failed, overlap>>

BucketType ==
  /\ tokens \in 0 .. Full
  /\ count \in [Window -> Nat] /\ \A w \in Window : count[w] <= Limit[w]
  /\ since \in [Window -> Nat] /\ \A w \in Window : since[w] <= Length[w] + 1
  /\ age \in 0 .. MaxSpan
  /\ sent \in Nat

CircuitType ==
  /\ state \in {"closed", "open", "half-open"}
  /\ failureCount \in 0 .. FailureThreshold
  /\ successCount \in 0 .. 1
  /\ halfOpenAttempts \in 0 .. HalfOpenMax
  /\ waited \in 0 .. ResetTimeout
  /\ streak \in 0 .. FailureThreshold
  /\ quiet \in 0 .. ResetTimeout

TypeOK ==
  /\ known \in BOOLEAN
  /\ BucketType
  /\ CircuitType
  /\ pc \in [Caller -> {"idle", "flight", "trace"}]
  /\ failed \in BOOLEAN /\ overlap \in BOOLEAN

\* RateLimiter.configure and CircuitBreaker.init, and what a process knows
\* before either: nothing, which the fresh values stand for.
FreshBucket ==
  /\ tokens' = Full
  /\ count' = [w \in Window |-> 0]
  /\ since' = [w \in Window |-> 0]
  /\ age' = 0 /\ sent' = 0

FreshCircuit ==
  /\ state' = "closed"
  /\ failureCount' = 0 /\ successCount' = 0 /\ halfOpenAttempts' = 0
  /\ waited' = 0 /\ streak' = 0 /\ quiet' = 0

Init ==
  /\ known = FALSE
  /\ tokens = Full
  /\ count = [w \in Window |-> 0]
  /\ since = [w \in Window |-> 0]
  /\ state = "closed"
  /\ failureCount = 0 /\ successCount = 0 /\ halfOpenAttempts = 0
  /\ waited = 0
  /\ pc = [c \in Caller |-> "idle"]
  /\ age = 0 /\ sent = 0 /\ streak = 0 /\ quiet = 0
  /\ failed = FALSE /\ overlap = FALSE

-----------------------------------------------------------------------------
\* Mutated definitions: plausible slips in the code, each of which some property
\* below must notice.  The specification uses none of them.

\* One call more than the window admits.
RateAllowsOneMore ==
  tokens >= Token /\ \A w \in Window : since[w] > Length[w] \/ count[w] <= Limit[w]

\* The circuit opens one failure early.
OpensEarly(failures) == state = "half-open" \/ failures + 1 >= FailureThreshold

\* A failed trial reopens the circuit and keeps the time of its first opening.
ReopenedWait(opens) == IF opens /\ state = "closed" THEN 0 ELSE waited

\* The trials left are kept where the trials made belong.
TrialsLeft == IF state = "open" THEN HalfOpenMax ELSE halfOpenAttempts

-----------------------------------------------------------------------------
\* RateLimiter.check and .consume

Refilled == Upto(tokens + MaxPerMinute, Full)

Expired(w) == since[w] > Length[w]
Used(w) == IF Expired(w) THEN 0 ELSE count[w]

RateAllows == tokens >= Token /\ \A w \in Window : Used(w) < Limit[w]

\* check restarts the windows that are over, whatever it then answers.
RestartWindows == since' = [w \in Window |-> IF Expired(w) THEN 0 ELSE since[w]]

-----------------------------------------------------------------------------
\* CircuitBreaker.canExecute

\* Trials so far, when a call is let through: reset when the circuit turns
\* half-open, and never counted up.
Trials == IF state = "open" THEN 0 ELSE halfOpenAttempts

CanExecute ==
  \/ state = "closed"
  \/ state = "open" /\ waited >= ResetTimeout
  \/ state = "half-open" /\ halfOpenAttempts < HalfOpenMax

\* An open circuit that has waited long enough is half-open from here on.
LetThrough ==
  /\ state' = IF state = "open" THEN "half-open" ELSE state
  /\ halfOpenAttempts' = Trials
  /\ UNCHANGED <<failureCount, successCount, waited, streak, quiet>>

\* CircuitBreaker.recordSuccess: it also clears the failures of a circuit that
\* is open by now, and keeps successCount when a trial fails later.
RecordSuccess ==
  LET closes == state = "half-open" /\ successCount + 1 >= 2 IN
  /\ state' = IF closes THEN "closed" ELSE state
  /\ failureCount' = IF closes \/ state # "half-open" THEN 0 ELSE failureCount
  /\ successCount' = IF closes THEN 0
                     ELSE IF state = "half-open" THEN successCount + 1 ELSE successCount
  /\ streak' = 0
  /\ UNCHANGED <<halfOpenAttempts, waited, quiet>>

Opens(failures) == state = "half-open" \/ failures >= FailureThreshold
Wait(opens) == IF opens THEN 0 ELSE waited

\* CircuitBreaker.recordFailure.  failureCount is only compared with the
\* threshold, so it is followed up to it.
RecordFailure ==
  LET failures == Upto(failureCount + 1, FailureThreshold)
      opens == Opens(failures) IN
  /\ failureCount' = failures
  /\ state' = IF opens THEN "open" ELSE state
  /\ waited' = Wait(opens)
  /\ quiet' = IF opens /\ state # "open" THEN 0 ELSE quiet
  /\ streak' = Upto(streak + 1, FailureThreshold)
  /\ UNCHANGED <<successCount, halfOpenAttempts>>

-----------------------------------------------------------------------------
\* ConnectorService.invoke, from the connector row that was found ACTIVE

Goto(c, l) == pc' = [pc EXCEPT ![c] = l]

\* No map entry (the API process was started since the connector was): neither
\* gate has anything to say.
DispatchUngated(c) ==
  /\ pc[c] = "idle"
  /\ ~known
  /\ Goto(c, "flight")
  /\ overlap' = (overlap \/ \E d \in Caller \ {c} : pc[d] # "idle")
  /\ UNCHANGED <<known, bucketVars, circuitVars, failed>>

\* Both gates are passed and a token is taken without an await between.
Dispatch(c) ==
  /\ pc[c] = "idle"
  /\ known
  /\ RateAllows /\ CanExecute
  /\ LetThrough
  /\ RestartWindows
  /\ count' = [w \in Window |-> Used(w) + 1]
  /\ tokens' = IF tokens < Token THEN 0 ELSE tokens - Token
  /\ sent' = IF age < MaxSpan THEN sent + 1 ELSE sent
  /\ Goto(c, "flight")
  /\ overlap' = (overlap \/ \E d \in Caller \ {c} : pc[d] # "idle")
  /\ UNCHANGED <<known, age, failed>>

\* 429 or 503: the limiter is asked first, and the breaker changes nothing.
Refuse(c) ==
  /\ pc[c] = "idle"
  /\ known
  /\ ~(RateAllows /\ CanExecute)
  /\ RestartWindows
  /\ count' = [w \in Window |-> Used(w)]
  /\ UNCHANGED <<known, tokens, age, sent, circuitVars, pc, failed, overlap>>

\* dispatch never throws: it answers success or not.
Answer(c, success) ==
  /\ pc[c] = "flight"
  /\ Goto(c, "trace")
  /\ IF ~known THEN UNCHANGED circuitVars
     ELSE IF success THEN RecordSuccess ELSE RecordFailure
  /\ failed' = (failed \/ ~success)
  /\ UNCHANGED <<known, bucketVars, overlap>>

TraceWritten(c) ==
  /\ pc[c] = "trace"
  /\ Goto(c, "idle")
  /\ UNCHANGED <<known, bucketVars, circuitVars, failed, overlap>>

\* The write of the execution trace is inside the try: the catch records a
\* failure of a call that was already recorded.
TraceFails(c) ==
  /\ pc[c] = "trace"
  /\ Goto(c, "idle")
  /\ IF known THEN RecordFailure ELSE UNCHANGED circuitVars
  /\ UNCHANGED <<known, bucketVars, failed, overlap>>

-----------------------------------------------------------------------------
\* create and startConnector, the process, and time

Configure ==
  /\ known' = TRUE
  /\ FreshBucket
  /\ FreshCircuit
  /\ UNCHANGED <<pc, failed, overlap>>

Reboot ==
  /\ known' = FALSE
  /\ FreshBucket
  /\ FreshCircuit
  /\ pc' = [c \in Caller |-> "idle"]
  /\ failed' = FALSE /\ overlap' = FALSE

\* _refill adds what the time elapsed since the last call is worth; adding it
\* tick by tick is the same.  An interval may begin at any tick, and is followed
\* for less than MaxSpan of them.
Tick ==
  /\ known
  /\ tokens' = Refilled
  /\ since' = [w \in Window |-> Upto(since[w] + 1, Length[w] + 1)]
  /\ waited' = Upto(waited + 1, ResetTimeout)
  /\ quiet' = Upto(quiet + 1, ResetTimeout)
  /\ \/ age + 1 < MaxSpan /\ age' = age + 1 /\ UNCHANGED sent
     \/ age + 1 >= MaxSpan /\ age' = MaxSpan /\ sent' = 0
     \/ age' = 0 /\ sent' = 0
  /\ UNCHANGED <<known, count, state, failureCount, successCount, halfOpenAttempts,
                 streak, pc, failed, overlap>>

Invoke(c) == DispatchUngated(c) \/ Dispatch(c) \/ Refuse(c)
Respond(c) == Answer(c, TRUE) \/ Answer(c, FALSE)
Finish(c) == TraceWritten(c) \/ TraceFails(c)

Next ==
  \/ \E c \in Caller : Invoke(c) \/ Respond(c) \/ Finish(c)
  \/ Configure \/ Reboot \/ Tick

Spec == Init /\ [][Next]_vars

\* Time passes, calls keep coming, and each is answered: the requests a dispatch
\* makes have timeouts.
FairSpec ==
  /\ Spec
  /\ WF_vars(Tick)
  /\ \A c \in Caller : WF_vars(Invoke(c)) /\ WF_vars(Respond(c)) /\ WF_vars(Finish(c))
-----------------------------------------------------------------------------
\* What the gates promise

\* Token bucket: in an interval of any length no more calls are dispatched than a
\* full bucket admits and the interval refills, in whatever order the calls come.
\* (RateLimiter._refill, check, consume; the interval lies after configure.)
BurstBound ==
  sent * Token <= Full + MaxPerMinute * age

\* Windows: they restart lazily, at the first check after their end, so a minute
\* may touch two of them and see twice the limit, and never more; the same for
\* the hour.  (RateLimiter.check.)
WindowBound ==
  \A w \in Window : age <= Length[w] => sent <= 2 * Limit[w]

\* Bucket and windows together bound the calls of every interval.
RateBound == BurstBound /\ WindowBound

\* A closed circuit opens with the failure that makes FailureThreshold of them in
\* a row, no earlier and no later, whichever calls they come from and whatever
\* the circuit went through before.  (CircuitBreaker.recordSuccess, recordFailure.)
TripsExactly ==
  [][known /\ known' /\ state = "closed" =>
       (state' = "open" <=> streak' >= FailureThreshold)]_vars

\* No call passes an open circuit before ResetTimeout is over, counted from the
\* latest time it left another state for open: answers that come late, or a trial
\* that fails, never shorten the pause.  (CircuitBreaker.canExecute.)
OpenIsQuiet ==
  [][state = "open" /\ state' = "half-open" => quiet >= ResetTimeout]_vars

\* When no dispatch failed and no two calls overlapped the circuit is closed,
\* though each trace that cannot be written counts as a failure of its call.
\* (ConnectorService.invoke; calls that overlap do open the circuit this way.)
HealthyStaysClosed ==
  ~failed /\ ~overlap => state = "closed"

\* Once nothing fails any more, the circuit closes: no sequence of trials, late
\* answers and reopenings leaves it refusing for ever.
Fails(c) == Answer(c, FALSE) \/ TraceFails(c)
Recovers ==
  <>[][~\E c \in Caller : Fails(c)]_vars => []<>(state = "closed")

=============================================================================
