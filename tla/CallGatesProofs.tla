-------------------------- MODULE CallGatesProofs --------------------------
(***************************************************************************)
(* Proofs about the gates of a connector call, for any number of calls and *)
(* any limits, window lengths, threshold and timeout.                      *)
(***************************************************************************)
EXTENDS CallGates, TLAPS

\* What the bucket holds and what was sent are covered by a full bucket and the
\* refills of the interval.  In a window that began before the interval every
\* call of the interval was counted; one that began inside it forgot at most a
\* window's limit, because another cannot end within the same length.
BucketInv ==
  /\ tokens + sent * Token <= Full + MaxPerMinute * age
  /\ \A w \in Window : age <= Length[w] =>
       sent <= count[w] + (IF since[w] <= age THEN Limit[w] ELSE 0)
  /\ age = MaxSpan => sent = 0

\* A closed circuit counts the failures in a row, and has not reached its
\* threshold; an open one did not begin to wait before it opened.
CircuitInv ==
  /\ state = "closed" => failureCount = streak /\ streak < FailureThreshold
  /\ state = "open" => waited <= quiet
  /\ ~known => state = "closed" /\ failureCount = 0

\* Calls that do not overlap leave one failure at most, that of a trace, and the
\* next answer clears it.
AloneInv ==
  /\ \A c, d \in Caller : pc[c] # "idle" /\ pc[d] # "idle" => c = d
  /\ state = "closed" /\ failureCount <= 1
  /\ \A c \in Caller : pc[c] = "trace" => failureCount = 0

HealthyInv == ~failed /\ ~overlap => AloneInv

IInv == TypeOK /\ BucketInv /\ CircuitInv /\ HealthyInv

-----------------------------------------------------------------------------
\* Lemmas

\* Limits, lengths and tokens are positive.
LEMMA Constants ==
  /\ Token \in Nat \ {0} /\ Full \in Nat /\ MaxPerMinute \in Nat \ {0}
  /\ MaxSpan \in Nat \ {0} /\ ResetTimeout \in Nat \ {0} /\ FailureThreshold \in Nat \ {0, 1}
  /\ \A w \in Window : Length[w] \in Nat \ {0} /\ Limit[w] \in Nat \ {0}
<1>1. Token \in Nat \ {0} /\ Full \in Nat
  BY GatesAssumption DEF Token, Full
<1>. QED
  BY <1>1, GatesAssumption DEF Window, Length, Limit

\* One more of something costs one more price.
LEMMA OneMore ==
  ASSUME NEW n \in Int, NEW p \in Int
  PROVE  (n + 1) * p = n * p + p /\ n * p \in Int
OBVIOUS

\* A configured bucket is full and nothing was sent through it.
LEMMA FreshBucketStep ==
  ASSUME FreshBucket
  PROVE  BucketType' /\ BucketInv'
<1>1. BucketType'
  BY Constants DEF FreshBucket, BucketType
<1>2. 0 * Token = 0 /\ MaxPerMinute * 0 = 0
  BY Constants
<1>. QED
  BY <1>1, <1>2, Constants DEF FreshBucket, BucketInv

\* Used never exceeds the counter, and a restarted window began just now.
LEMMA WindowStep ==
  ASSUME BucketType, RestartWindows, NEW w \in Window
  PROVE  /\ since' \in [Window -> Nat] /\ since'[w] <= Length[w] + 1
         /\ Used(w) \in Nat /\ Used(w) <= Limit[w]
         /\ Expired(w) => since'[w] = 0 /\ Used(w) = 0 /\ since[w] > Length[w]
         /\ ~Expired(w) => since'[w] = since[w] /\ Used(w) = count[w]
BY Constants DEF BucketType, RestartWindows, Used, Expired

\* A refused call at most restarts windows.
LEMMA RefuseStep ==
  ASSUME BucketType, BucketInv, NEW c \in Caller, Refuse(c)
  PROVE  BucketType' /\ BucketInv'
<1>. USE Constants
<1>1. RestartWindows /\ count' = [w \in Window |-> Used(w)]
      /\ tokens' = tokens /\ age' = age /\ sent' = sent
  BY DEF Refuse
<1>2. BucketType'
  <2>1. "minute" \in Window
    BY DEF Window
  <2>2. since' \in [Window -> Nat] /\ \A w \in Window : since'[w] <= Length[w] + 1
    BY <1>1, <2>1, WindowStep
  <2>3. \A w \in Window : Used(w) \in Nat /\ Used(w) <= Limit[w]
    BY <1>1, WindowStep
  <2>4. count' \in [Window -> Nat] /\ \A w \in Window : count'[w] <= Limit[w]
    BY <1>1, <2>3
  <2>. QED
    BY <1>1, <2>2, <2>4 DEF BucketType
<1>3. ASSUME NEW w \in Window, age' <= Length[w]
      PROVE  sent' <= count'[w] + (IF since'[w] <= age' THEN Limit[w] ELSE 0)
  <2>1. sent <= count[w] + (IF since[w] <= age THEN Limit[w] ELSE 0) /\ count'[w] = Used(w)
    BY <1>1, <1>3 DEF BucketInv
  <2>2. CASE Expired(w)
    BY <1>1, <1>3, <2>1, <2>2, WindowStep DEF BucketType
  <2>3. CASE ~Expired(w)
    BY <1>1, <2>1, <2>3, WindowStep
  <2>. QED
    BY <2>2, <2>3
<1>4. tokens' + sent' * Token <= Full + MaxPerMinute * age' /\ (age' = MaxSpan => sent' = 0)
  BY <1>1 DEF BucketInv
<1>. QED
  BY <1>2, <1>3, <1>4 DEF BucketInv

\* A dispatch takes a token and is counted in both windows.
LEMMA DispatchStep ==
  ASSUME BucketType, BucketInv, NEW c \in Caller, Dispatch(c)
  PROVE  BucketType' /\ BucketInv'
<1>. USE Constants
<1>1. /\ RestartWindows /\ count' = [w \in Window |-> Used(w) + 1]
      /\ tokens >= Token /\ \A w \in Window : Used(w) < Limit[w]
      /\ tokens' = tokens - Token /\ age' = age
      /\ sent' = IF age < MaxSpan THEN sent + 1 ELSE sent
  BY DEF Dispatch, RateAllows, BucketType
<1>2. BucketType'
  <2>1. "minute" \in Window
    BY DEF Window
  <2>2. since' \in [Window -> Nat] /\ \A w \in Window : since'[w] <= Length[w] + 1
    BY <1>1, <2>1, WindowStep
  <2>3. \A w \in Window : Used(w) + 1 \in Nat /\ Used(w) + 1 <= Limit[w]
    BY <1>1, WindowStep
  <2>4. count' \in [Window -> Nat] /\ \A w \in Window : count'[w] <= Limit[w]
    BY <1>1, <2>3
  <2>. QED
    BY <1>1, <2>2, <2>4 DEF BucketType
<1>3. ASSUME NEW w \in Window, age' <= Length[w]
      PROVE  sent' <= count'[w] + (IF since'[w] <= age' THEN Limit[w] ELSE 0)
  <2>1. /\ sent <= count[w] + (IF since[w] <= age THEN Limit[w] ELSE 0)
        /\ count'[w] = Used(w) + 1 /\ sent' <= sent + 1 /\ count[w] <= Limit[w]
        /\ count[w] \in Nat /\ since[w] \in Nat /\ age \in Nat /\ sent \in Nat /\ sent' \in Nat
    BY <1>1, <1>3 DEF BucketInv, BucketType
  <2>2. CASE Expired(w)
    <3>1. since'[w] = 0 /\ Used(w) = 0 /\ since[w] > Length[w]
      BY <1>1, <2>2, WindowStep
    <3>2. sent <= count[w]
      BY <1>1, <1>3, <2>1, <3>1
    <3>. QED
      BY <1>1, <2>1, <3>1, <3>2
  <2>3. CASE ~Expired(w)
    BY <1>1, <2>1, <2>3, WindowStep
  <2>. QED
    BY <2>2, <2>3
<1>4. tokens' + sent' * Token <= Full + MaxPerMinute * age' /\ (age' = MaxSpan => sent' = 0)
  <2>1. /\ tokens \in Nat /\ sent \in Nat /\ age \in 0 .. MaxSpan
        /\ tokens + sent * Token <= Full + MaxPerMinute * age
        /\ age = MaxSpan => sent = 0
    BY DEF BucketType, BucketInv
  <2>2. (sent + 1) * Token = sent * Token + Token /\ sent * Token \in Int
        /\ MaxPerMinute * age \in Int
    BY <2>1, OneMore
  <2>. QED
    BY <1>1, <2>1, <2>2
<1>. QED
  BY <1>2, <1>3, <1>4 DEF BucketInv

\* A tick refills what the interval grows by.
LEMMA TickStep ==
  ASSUME BucketType, BucketInv, Tick
  PROVE  BucketType' /\ BucketInv'
<1>. USE Constants
<1>1. /\ tokens' = Upto(tokens + MaxPerMinute, Full) /\ count' = count
      /\ since' = [w \in Window |-> Upto(since[w] + 1, Length[w] + 1)]
      /\ \/ age + 1 < MaxSpan /\ age' = age + 1 /\ sent' = sent
         \/ age + 1 >= MaxSpan /\ age' = MaxSpan /\ sent' = 0
         \/ age' = 0 /\ sent' = 0
  BY DEF Tick, Refilled
<1>2. /\ tokens \in 0 .. Full /\ age \in 0 .. MaxSpan /\ sent \in Nat
      /\ tokens + sent * Token <= Full + MaxPerMinute * age
  BY DEF BucketType, BucketInv
<1>3. tokens' \in 0 .. Full /\ tokens' <= tokens + MaxPerMinute
  BY <1>1, <1>2 DEF Upto
<1>4. ASSUME NEW w \in Window
      PROVE  since'[w] \in Nat /\ since'[w] <= Length[w] + 1 /\ since'[w] = Upto(since[w] + 1, Length[w] + 1)
  BY <1>1 DEF Upto, BucketType
<1>5. BucketType'
  <2>1. since' \in [Window -> Nat]
    BY <1>1, <1>4
  <2>. QED
    BY <1>1, <1>2, <1>3, <1>4, <2>1 DEF BucketType
<1>6. tokens' + sent' * Token <= Full + MaxPerMinute * age' /\ (age' = MaxSpan => sent' = 0)
  <2>1. MaxPerMinute * (age + 1) = MaxPerMinute * age + MaxPerMinute
        /\ MaxPerMinute * age \in Int /\ sent * Token \in Int
    BY <1>2
  <2>2. 0 * Token = 0 /\ MaxPerMinute * 0 = 0 /\ MaxPerMinute * MaxSpan >= 0
        /\ MaxPerMinute * MaxSpan \in Int
    OBVIOUS
  <2>. QED
    BY <1>1, <1>2, <1>3, <2>1, <2>2
<1>7. ASSUME NEW w \in Window, age' <= Length[w]
      PROVE  sent' <= count'[w] + (IF since'[w] <= age' THEN Limit[w] ELSE 0)
  <2>1. count[w] \in Nat /\ since[w] \in Nat /\ since[w] <= Length[w] + 1
    BY DEF BucketType
  <2>2. CASE age' = age + 1 /\ sent' = sent
    <3>1. sent <= count[w] + (IF since[w] <= age THEN Limit[w] ELSE 0)
      BY <1>2, <1>7, <2>2 DEF BucketInv
    <3>2. since[w] <= age => since'[w] <= age'
      BY <1>2, <1>4, <2>1, <2>2 DEF Upto
    <3>3. count'[w] = count[w] /\ sent \in Nat /\ Limit[w] \in Nat
      BY <1>1, <1>2
    <3>4. CASE since[w] <= age
      BY <2>1, <2>2, <3>1, <3>2, <3>3, <3>4
    <3>5. CASE ~(since[w] <= age)
      BY <2>1, <2>2, <3>1, <3>3, <3>5
    <3>. QED
      BY <3>4, <3>5
  <2>3. CASE sent' = 0
    BY <1>1, <2>1, <2>3
  <2>. QED
    BY <1>1, <2>2, <2>3
<1>. QED
  BY <1>5, <1>6, <1>7 DEF BucketInv

\* No history and no failures.
LEMMA FreshCircuitStep ==
  ASSUME FreshCircuit
  PROVE  /\ CircuitType' /\ state' = "closed" /\ failureCount' = 0
         /\ CircuitInv'
BY Constants DEF FreshCircuit, CircuitType, CircuitInv, HalfOpenMax

\* A recorded success.
LEMMA SuccessStep ==
  ASSUME CircuitType, CircuitInv, known, known' = known, RecordSuccess
  PROVE  /\ CircuitType' /\ CircuitInv'
         /\ state = "closed" => state' = "closed" /\ failureCount' = 0
         /\ state # "open" => state' # "open"
         /\ state = "open" => state' = "open"
BY Constants DEF CircuitType, CircuitInv, RecordSuccess, HalfOpenMax

\* A recorded failure: a closed circuit opens at the threshold.
LEMMA FailureStep ==
  ASSUME CircuitType, CircuitInv, known, known' = known, RecordFailure
  PROVE  /\ CircuitType' /\ CircuitInv'
         /\ state = "closed" => (state' = "open" <=> streak' >= FailureThreshold)
         /\ state = "closed" /\ failureCount = 0 => state' = "closed" /\ failureCount' = 1
         /\ state' # "half-open" \/ state' = state
<1>. USE Constants
<1>. DEFINE failures == Upto(failureCount + 1, FailureThreshold)
<1>0. failures \in 0 .. FailureThreshold
  BY DEF CircuitType, Upto
<1>1. /\ failureCount' = failures
      /\ \/ /\ state = "half-open" \/ failures >= FailureThreshold
            /\ state' = "open" /\ waited' = 0
            /\ quiet' = IF state # "open" THEN 0 ELSE quiet
         \/ /\ state # "half-open" /\ failures < FailureThreshold
            /\ state' = state /\ waited' = waited /\ quiet' = quiet
      /\ streak' = Upto(streak + 1, FailureThreshold)
      /\ successCount' = successCount /\ halfOpenAttempts' = halfOpenAttempts
  <2>. HIDE DEF failures
  <2>1. /\ failureCount' = failures
        /\ state' = IF Opens(failures) THEN "open" ELSE state
        /\ waited' = IF Opens(failures) THEN 0 ELSE waited
        /\ quiet' = IF Opens(failures) /\ state # "open" THEN 0 ELSE quiet
        /\ streak' = Upto(streak + 1, FailureThreshold)
        /\ successCount' = successCount /\ halfOpenAttempts' = halfOpenAttempts
    BY DEF RecordFailure, Wait, failures
  <2>2. CASE Opens(failures)
    BY <2>1, <2>2 DEF Opens
  <2>3. CASE ~Opens(failures)
    BY <1>0, <2>1, <2>3 DEF Opens
  <2>. QED
    BY <2>2, <2>3
<1>2. failures \in 0 .. FailureThreshold /\ streak' \in 0 .. FailureThreshold
  BY <1>1 DEF CircuitType, Upto
<1>3. CircuitType'
  BY <1>1, <1>2 DEF CircuitType
<1>4. state = "closed" => streak' = failures
  BY <1>1 DEF CircuitInv
<1>5. CircuitInv'
  BY <1>1, <1>2, <1>4 DEF CircuitInv, CircuitType
<1>6. state = "closed" => (state' = "open" <=> streak' >= FailureThreshold)
  BY <1>1, <1>2, <1>4
<1>7. state = "closed" /\ failureCount = 0 => state' = "closed" /\ failureCount' = 1
  BY <1>1 DEF Upto
<1>. QED
  BY <1>1, <1>3, <1>5, <1>6, <1>7

\* A call that is let through turns an open circuit half-open, after its pause.
LEMMA LetThroughStep ==
  ASSUME CircuitType, CircuitInv, known, known' = known, CanExecute, LetThrough
  PROVE  /\ CircuitType' /\ CircuitInv'
         /\ state = "open" => quiet >= ResetTimeout
         /\ state' # "open"
         /\ state = "closed" => state' = "closed" /\ failureCount' = failureCount
BY Constants DEF CircuitType, CircuitInv, CanExecute, LetThrough, Trials, HalfOpenMax

\* A call that begins alone is the only one.
LEMMA BeginAlone ==
  ASSUME TypeOK, NEW c \in Caller, Goto(c, "flight"), pc[c] = "idle",
         overlap' = (overlap \/ \E d \in Caller \ {c} : pc[d] # "idle")
  PROVE  /\ pc' \in [Caller -> {"idle", "flight", "trace"}] /\ overlap' \in BOOLEAN
         /\ ~overlap' =>
              /\ ~overlap
              /\ \A d, e \in Caller : pc'[d] # "idle" /\ pc'[e] # "idle" => d = e
              /\ \A d \in Caller : pc'[d] # "trace"
<1>1. pc' \in [Caller -> {"idle", "flight", "trace"}] /\ overlap' \in BOOLEAN
  BY DEF TypeOK, Goto
<1>2. pc'[c] = "flight" /\ \A d \in Caller \ {c} : pc'[d] = pc[d]
  BY DEF TypeOK, Goto
<1>3. ASSUME ~overlap'
      PROVE  ~overlap /\ \A d \in Caller \ {c} : pc[d] = "idle"
  BY <1>3
<1>. QED
  BY <1>1, <1>2, <1>3

\* A call that goes on or ends leaves the others where they are.
LEMMA GotoEffect ==
  ASSUME TypeOK, NEW c \in Caller, NEW l \in {"idle", "trace"}, Goto(c, l), pc[c] # "idle"
  PROVE  /\ pc' \in [Caller -> {"idle", "flight", "trace"}]
         /\ pc'[c] = l /\ \A d \in Caller \ {c} : pc'[d] = pc[d]
         /\ \A d \in Caller : pc'[d] # "idle" => pc[d] # "idle"
BY DEF TypeOK, Goto

-----------------------------------------------------------------------------
\* The inductive invariant

\* Nothing is known and nothing happened.
LEMMA InitInv == Init => IInv
<1>. SUFFICES ASSUME Init PROVE IInv
  OBVIOUS
<1>. USE Constants
<1>1. 0 * Token = 0 /\ MaxPerMinute * 0 = 0
  OBVIOUS
<1>2. BucketType /\ BucketInv
  BY <1>1 DEF Init, BucketType, BucketInv
<1>3. CircuitType /\ CircuitInv
  BY DEF Init, CircuitType, CircuitInv, HalfOpenMax
<1>4. TypeOK
  BY <1>2, <1>3 DEF Init, TypeOK
<1>5. HealthyInv
  BY DEF Init, HealthyInv, AloneInv
<1>. QED
  BY <1>2, <1>3, <1>4, <1>5 DEF IInv

\* What a step leaves alone keeps its invariant.
LEMMA SameBucket ==
  ASSUME BucketType, BucketInv, UNCHANGED bucketVars
  PROVE  BucketType' /\ BucketInv'
BY DEF BucketType, BucketInv, bucketVars

LEMMA SameCircuit ==
  ASSUME CircuitType, CircuitInv, UNCHANGED circuitVars, known' = known
  PROVE  CircuitType' /\ CircuitInv'
BY DEF CircuitType, CircuitInv, circuitVars

\* Each action preserves the invariant.
LEMMA StepInv == IInv /\ [Next]_vars => IInv'
<1>. SUFFICES ASSUME IInv, [Next]_vars PROVE IInv'
  OBVIOUS
<1>0. TypeOK /\ BucketType /\ BucketInv /\ CircuitType /\ CircuitInv /\ HealthyInv
  BY DEF IInv, TypeOK
<1>1. ASSUME NEW c \in Caller, DispatchUngated(c) PROVE IInv'
  <2>1. BucketType' /\ BucketInv'
    BY <1>0, <1>1, SameBucket DEF DispatchUngated
  <2>2. CircuitType' /\ CircuitInv'
    BY <1>0, <1>1, SameCircuit DEF DispatchUngated
  <2>3. /\ pc[c] = "idle" /\ Goto(c, "flight") /\ known' = known /\ failed' = failed
        /\ overlap' = (overlap \/ \E d \in Caller \ {c} : pc[d] # "idle")
        /\ state' = state /\ failureCount' = failureCount
    BY <1>1 DEF DispatchUngated, circuitVars
  <2>4. TypeOK'
    BY <1>0, <2>1, <2>2, <2>3, BeginAlone DEF TypeOK
  <2>5. HealthyInv'
    <3>1. ASSUME ~failed', ~overlap' PROVE AloneInv'
      BY <1>0, <2>3, <3>1, BeginAlone DEF HealthyInv, AloneInv
    <3>. QED
      BY <3>1 DEF HealthyInv
  <2>. QED
    BY <2>1, <2>2, <2>4, <2>5 DEF IInv
<1>2. ASSUME NEW c \in Caller, Dispatch(c) PROVE IInv'
  <2>1. BucketType' /\ BucketInv'
    BY <1>0, <1>2, DispatchStep
  <2>2. /\ CircuitType' /\ CircuitInv'
        /\ state = "closed" => state' = "closed" /\ failureCount' = failureCount
    BY <1>0, <1>2, LetThroughStep DEF Dispatch
  <2>3. /\ pc[c] = "idle" /\ Goto(c, "flight") /\ known' = known /\ failed' = failed
        /\ overlap' = (overlap \/ \E d \in Caller \ {c} : pc[d] # "idle")
    BY <1>2 DEF Dispatch
  <2>4. TypeOK'
    BY <1>0, <2>1, <2>2, <2>3, BeginAlone DEF TypeOK
  <2>5. HealthyInv'
    <3>1. ASSUME ~failed', ~overlap' PROVE AloneInv'
      BY <1>0, <2>2, <2>3, <3>1, BeginAlone DEF HealthyInv, AloneInv
    <3>. QED
      BY <3>1 DEF HealthyInv
  <2>. QED
    BY <2>1, <2>2, <2>4, <2>5 DEF IInv
<1>3. ASSUME NEW c \in Caller, Refuse(c) PROVE IInv'
  <2>1. BucketType' /\ BucketInv'
    BY <1>0, <1>3, RefuseStep
  <2>2. CircuitType' /\ CircuitInv'
    BY <1>0, <1>3, SameCircuit DEF Refuse
  <2>3. /\ pc' = pc /\ known' = known /\ failed' = failed /\ overlap' = overlap
        /\ state' = state /\ failureCount' = failureCount
    BY <1>3 DEF Refuse, circuitVars
  <2>4. TypeOK'
    BY <1>0, <2>1, <2>2, <2>3 DEF TypeOK
  <2>5. HealthyInv'
    BY <1>0, <2>3 DEF HealthyInv, AloneInv
  <2>. QED
    BY <2>1, <2>2, <2>4, <2>5 DEF IInv
<1>4. ASSUME NEW c \in Caller, NEW success \in BOOLEAN, Answer(c, success) PROVE IInv'
  <2>1. BucketType' /\ BucketInv'
    BY <1>0, <1>4, SameBucket DEF Answer
  <2>2. /\ pc[c] = "flight" /\ Goto(c, "trace") /\ known' = known /\ overlap' = overlap
        /\ failed' = (failed \/ ~success)
    BY <1>4 DEF Answer
  <2>3. /\ CircuitType' /\ CircuitInv'
        /\ success /\ state = "closed" => state' = "closed" /\ failureCount' = 0
    <3>1. CASE ~known
      <4>1. UNCHANGED circuitVars
        BY <1>4, <3>1 DEF Answer
      <4>. QED
        BY <1>0, <2>2, <3>1, <4>1, SameCircuit DEF CircuitInv, circuitVars
    <3>2. CASE known /\ success
      <4>1. RecordSuccess
        BY <1>4, <3>2 DEF Answer
      <4>. QED
        BY <1>0, <2>2, <3>2, <4>1, SuccessStep
    <3>3. CASE known /\ ~success
      <4>1. RecordFailure
        BY <1>4, <3>3 DEF Answer
      <4>. QED
        BY <1>0, <2>2, <3>3, <4>1, FailureStep
    <3>. QED
      BY <3>1, <3>2, <3>3
  <2>4. /\ pc' \in [Caller -> {"idle", "flight", "trace"}]
        /\ \A d \in Caller : pc'[d] # "idle" => pc[d] # "idle"
    BY <1>0, <2>2, GotoEffect
  <2>5. TypeOK'
    BY <1>0, <2>1, <2>2, <2>3, <2>4 DEF TypeOK
  <2>6. HealthyInv'
    <3>1. ASSUME ~failed', ~overlap' PROVE AloneInv'
      <4>1. success /\ AloneInv
        BY <1>0, <2>2, <3>1 DEF HealthyInv
      <4>. QED
        BY <2>3, <2>4, <4>1 DEF AloneInv
    <3>. QED
      BY <3>1 DEF HealthyInv
  <2>. QED
    BY <2>1, <2>3, <2>5, <2>6 DEF IInv
<1>5. ASSUME NEW c \in Caller, TraceWritten(c) PROVE IInv'
  <2>1. BucketType' /\ BucketInv'
    BY <1>0, <1>5, SameBucket DEF TraceWritten
  <2>2. /\ pc[c] = "trace" /\ Goto(c, "idle") /\ known' = known /\ overlap' = overlap
        /\ failed' = failed /\ UNCHANGED circuitVars
    BY <1>5 DEF TraceWritten
  <2>3. CircuitType' /\ CircuitInv' /\ state' = state /\ failureCount' = failureCount
    BY <1>0, <2>2, SameCircuit DEF circuitVars
  <2>4. /\ pc' \in [Caller -> {"idle", "flight", "trace"}]
        /\ pc'[c] = "idle" /\ \A d \in Caller \ {c} : pc'[d] = pc[d]
    BY <1>0, <2>2, GotoEffect
  <2>5. TypeOK'
    BY <1>0, <2>1, <2>2, <2>3, <2>4 DEF TypeOK
  <2>6. HealthyInv'
    BY <1>0, <2>2, <2>3, <2>4 DEF HealthyInv, AloneInv
  <2>. QED
    BY <2>1, <2>3, <2>5, <2>6 DEF IInv
<1>6. ASSUME NEW c \in Caller, TraceFails(c) PROVE IInv'
  <2>1. BucketType' /\ BucketInv'
    BY <1>0, <1>6, SameBucket DEF TraceFails
  <2>2. /\ pc[c] = "trace" /\ Goto(c, "idle") /\ known' = known /\ overlap' = overlap
        /\ failed' = failed
    BY <1>6 DEF TraceFails
  <2>3. /\ CircuitType' /\ CircuitInv'
        /\ state = "closed" /\ failureCount = 0 => state' = "closed" /\ failureCount' <= 1
    <3>1. CASE ~known
      <4>1. UNCHANGED circuitVars
        BY <1>6, <3>1 DEF TraceFails
      <4>. QED
        BY <1>0, <2>2, <4>1, SameCircuit DEF circuitVars
    <3>2. CASE known
      <4>1. RecordFailure
        BY <1>6, <3>2 DEF TraceFails
      <4>. QED
        BY <1>0, <2>2, <3>2, <4>1, FailureStep
    <3>. QED
      BY <3>1, <3>2
  <2>4. /\ pc' \in [Caller -> {"idle", "flight", "trace"}]
        /\ pc'[c] = "idle" /\ \A d \in Caller \ {c} : pc'[d] = pc[d]
    BY <1>0, <2>2, GotoEffect
  <2>5. TypeOK'
    BY <1>0, <2>1, <2>2, <2>3, <2>4 DEF TypeOK
  <2>6. HealthyInv'
    <3>1. ASSUME ~failed', ~overlap' PROVE AloneInv'
      <4>1. AloneInv
        BY <1>0, <2>2, <3>1 DEF HealthyInv
      <4>2. \A d \in Caller : pc'[d] = "idle"
        BY <2>2, <2>4, <4>1 DEF AloneInv
      <4>. QED
        BY <2>2, <2>3, <4>1, <4>2 DEF AloneInv
    <3>. QED
      BY <3>1 DEF HealthyInv
  <2>. QED
    BY <2>1, <2>3, <2>5, <2>6 DEF IInv
<1>7. CASE Configure
  <2>1. BucketType' /\ BucketInv' /\ CircuitType' /\ CircuitInv'
        /\ state' = "closed" /\ failureCount' = 0
    BY <1>7, FreshBucketStep, FreshCircuitStep DEF Configure
  <2>2. known' = TRUE /\ pc' = pc /\ failed' = failed /\ overlap' = overlap
    BY <1>7 DEF Configure
  <2>3. TypeOK'
    BY <1>0, <2>1, <2>2 DEF TypeOK
  <2>4. HealthyInv'
    BY <1>0, <2>1, <2>2 DEF HealthyInv, AloneInv
  <2>. QED
    BY <2>1, <2>3, <2>4 DEF IInv
<1>8. CASE Reboot
  <2>1. BucketType' /\ BucketInv' /\ CircuitType' /\ CircuitInv'
        /\ state' = "closed" /\ failureCount' = 0
    BY <1>8, FreshBucketStep, FreshCircuitStep DEF Reboot
  <2>2. /\ known' = FALSE /\ pc' = [c \in Caller |-> "idle"]
        /\ failed' = FALSE /\ overlap' = FALSE
    BY <1>8 DEF Reboot
  <2>3. TypeOK'
    BY <2>1, <2>2 DEF TypeOK
  <2>4. HealthyInv'
    BY <2>1, <2>2 DEF HealthyInv, AloneInv
  <2>. QED
    BY <2>1, <2>3, <2>4 DEF IInv
<1>9. CASE Tick
  <2>1. BucketType' /\ BucketInv'
    BY <1>0, <1>9, TickStep
  <2>2. /\ known' = known /\ pc' = pc /\ failed' = failed /\ overlap' = overlap
        /\ state' = state /\ failureCount' = failureCount /\ streak' = streak
        /\ successCount' = successCount /\ halfOpenAttempts' = halfOpenAttempts
        /\ waited' = Upto(waited + 1, ResetTimeout) /\ quiet' = Upto(quiet + 1, ResetTimeout)
    BY <1>9 DEF Tick
  <2>3. CircuitType'
    BY <1>0, <2>2, Constants DEF CircuitType, Upto
  <2>4. CircuitInv'
    BY <1>0, <2>2, Constants DEF CircuitInv, CircuitType, Upto
  <2>5. TypeOK'
    BY <1>0, <2>1, <2>2, <2>3 DEF TypeOK
  <2>6. HealthyInv'
    BY <1>0, <2>2 DEF HealthyInv, AloneInv
  <2>. QED
    BY <2>1, <2>4, <2>5, <2>6 DEF IInv
<1>10. CASE UNCHANGED vars
  BY <1>10 DEF vars, bucketVars, circuitVars, IInv, TypeOK, BucketType, CircuitType,
     BucketInv, CircuitInv, HealthyInv, AloneInv
<1>. QED
  BY <1>1, <1>2, <1>3, <1>4, <1>5, <1>6, <1>7, <1>8, <1>9, <1>10
     DEF Next, Invoke, Respond, Finish

LEMMA Invariance == Spec => []IInv
<1>. QED
  BY InitInv, StepInv, PTL DEF Spec

-----------------------------------------------------------------------------
\* Theorems

\* Every variable keeps its type.
THEOREM TypeCorrect == Spec => []TypeOK
<1>1. IInv => TypeOK
  BY DEF IInv
<1>. QED
  BY <1>1, Invariance, PTL

\* The token bucket bounds the calls of every interval (RateLimiter.check, consume
\* and _refill), for any limits and any number of concurrent calls.
THEOREM BucketBoundsCalls == Spec => []BurstBound
<1>1. IInv => BurstBound
  <2>. SUFFICES ASSUME IInv PROVE BurstBound
    OBVIOUS
  <2>1. tokens \in Nat /\ tokens + sent * Token <= Full + MaxPerMinute * age
        /\ sent \in Nat /\ age \in Nat
    BY Constants DEF IInv, TypeOK, BucketType, BucketInv
  <2>2. sent * Token \in Int /\ MaxPerMinute * age \in Int
    BY <2>1, Constants
  <2>. QED
    BY <2>1, <2>2, Constants DEF BurstBound
<1>. QED
  BY <1>1, Invariance, PTL

\* The windows admit at most twice their limit in an interval of their length.
THEOREM WindowsBoundCalls == Spec => []WindowBound
<1>1. IInv => WindowBound
  BY Constants DEF IInv, TypeOK, BucketType, BucketInv, WindowBound
<1>. QED
  BY <1>1, Invariance, PTL

\* Bucket and windows bound the calls of every interval.  (RateLimiter.)
THEOREM CallsAreBounded == Spec => []RateBound
BY BucketBoundsCalls, WindowsBoundCalls, PTL DEF RateBound

\* Without overlap and failed dispatches the circuit is closed.
THEOREM HealthyIsClosed == Spec => []HealthyStaysClosed
<1>1. IInv => HealthyStaysClosed
  BY DEF IInv, HealthyInv, AloneInv, HealthyStaysClosed
<1>. QED
  BY <1>1, Invariance, PTL

\* A closed circuit opens with the failure that reaches the threshold.
THEOREM CircuitTripsExactly == Spec => TripsExactly
<1>. DEFINE A == known /\ known' /\ state = "closed" =>
                   (state' = "open" <=> streak' >= FailureThreshold)
<1>1. IInv /\ [Next]_vars => [A]_vars
  <2>. SUFFICES ASSUME IInv, Next, known, known', state = "closed"
                PROVE  state' = "open" <=> streak' >= FailureThreshold
    OBVIOUS
  <2>0. CircuitType /\ CircuitInv /\ streak < FailureThreshold
    BY DEF IInv, TypeOK, CircuitInv
  <2>. USE <2>0
  <2>1. ASSUME RecordFailure PROVE state' = "open" <=> streak' >= FailureThreshold
    BY <2>1, FailureStep
  <2>2. ASSUME RecordSuccess PROVE state' = "open" <=> streak' >= FailureThreshold
    BY <2>2, Constants DEF RecordSuccess
  <2>3. ASSUME NEW c \in Caller, Invoke(c) PROVE state' = state /\ streak' = streak
    BY <2>3 DEF Invoke, DispatchUngated, Dispatch, Refuse, LetThrough, circuitVars
  <2>4. ASSUME NEW c \in Caller, Respond(c) PROVE RecordSuccess \/ RecordFailure
    BY <2>4 DEF Respond, Answer
  <2>5. ASSUME NEW c \in Caller, Finish(c)
        PROVE  (state' = state /\ streak' = streak) \/ RecordFailure
    BY <2>5 DEF Finish, TraceWritten, TraceFails, circuitVars
  <2>6. ASSUME Configure \/ Reboot PROVE state' = "closed" /\ streak' = 0
    BY <2>6 DEF Configure, Reboot, FreshCircuit
  <2>7. ASSUME Tick PROVE state' = state /\ streak' = streak
    BY <2>7 DEF Tick
  <2>. QED
    BY <2>1, <2>2, <2>3, <2>4, <2>5, <2>6, <2>7, Constants DEF Next, CircuitType
<1>. QED
  BY <1>1, Invariance, PTL DEF Spec, TripsExactly

\* An open circuit refuses for ResetTimeout after it opened.
THEOREM OpenCircuitIsQuiet == Spec => OpenIsQuiet
<1>. DEFINE A == state = "open" /\ state' = "half-open" => quiet >= ResetTimeout
<1>1. IInv /\ [Next]_vars => [A]_vars
  <2>. SUFFICES ASSUME IInv, Next, state = "open", state' = "half-open"
                PROVE  quiet >= ResetTimeout
    OBVIOUS
  <2>0. CircuitType /\ CircuitInv /\ waited <= quiet
    BY DEF IInv, TypeOK, CircuitInv
  <2>. USE <2>0
  <2>1. ASSUME NEW c \in Caller, Dispatch(c) PROVE quiet >= ResetTimeout
    BY <2>1, Constants DEF Dispatch, CanExecute, CircuitType
  <2>2. ASSUME RecordSuccess \/ RecordFailure PROVE FALSE
    BY <2>2 DEF RecordSuccess, RecordFailure
  <2>3. ASSUME NEW c \in Caller, DispatchUngated(c) \/ Refuse(c) PROVE FALSE
    BY <2>3 DEF DispatchUngated, Refuse, circuitVars
  <2>4. ASSUME NEW c \in Caller, Respond(c) \/ Finish(c) PROVE FALSE
    BY <2>2, <2>4 DEF Respond, Finish, Answer, TraceWritten, TraceFails, circuitVars
  <2>5. ASSUME Configure \/ Reboot \/ Tick PROVE FALSE
    BY <2>5 DEF Configure, Reboot, Tick, FreshCircuit
  <2>. QED
    BY <2>1, <2>3, <2>4, <2>5 DEF Next, Invoke
<1>. QED
  BY <1>1, Invariance, PTL DEF Spec, OpenIsQuiet
=============================================================================
