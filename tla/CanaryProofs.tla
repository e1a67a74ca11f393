---------------------------- MODULE CanaryProofs ----------------------------
(***************************************************************************)
(* What canary releases keep, for any number of deployments, calls and     *)
(* slots of the worker.  A process decides from what it read before, so    *)
(* the invariant says what its snapshot is still worth: the gates that     *)
(* passed are only ever added to, and a stale snapshot earns no less.      *)
(***************************************************************************)
EXTENDS Canary, TLAPS

Earned(d) == InitialTraffic + IncrementStep * passes[d]

\* Where a process stands and what it works on.
LocalOf(p) ==
  /\ pc[p] = "idle" => win[p] = 0 /\ verdict[p] = "manual"
  /\ pc[p] \notin {"idle", "insert"} => at[p] \in Deployment
  /\ pc[p] \in {"insert", "start"} => p \in Caller /\ win[p] = 0
  /\ pc[p] \in {"load", "end"} => p \in Slot
  /\ p \in Slot /\ pc[p] # "idle" => win[p] \in Window
  /\ pc[p] \in {"advance", "add"} => win[p] < MaxWindow

\* What its snapshot is worth.
SnapshotOf(p) ==
  /\ pc[p] = "gate" => snap[p] <= Earned(at[p])
  /\ pc[p] = "advance" => snap[p] + IncrementStep <= Earned(at[p])
  /\ pc[p] = "promote" /\ verdict[p] # "manual" => MaxTraffic <= Earned(at[p])

LocalInv == \A p \in Proc : LocalOf(p)
SnapshotInv ==
  /\ \A p \in Proc : SnapshotOf(p)
  /\ \A d \in Deployment : passes[d] <= gates[d]

IInv == TypeOK /\ LocalInv /\ SnapshotInv /\ TrafficEarned /\ DecisionIsRecorded

-----------------------------------------------------------------------------
\* Arithmetic of the traffic

LEMMA EarnedFacts ==
  ASSUME NEW n \in Nat
  PROVE  /\ IncrementStep * n \in Nat
         /\ IncrementStep * (n + 1) = IncrementStep * n + IncrementStep
BY CanaryAssumption

LEMMA EarnedType ==
  ASSUME TypeOK, NEW d \in Deployment
  PROVE  Earned(d) \in Nat /\ InitialTraffic <= Earned(d)
<1>1. passes[d] \in Nat
  BY CanaryAssumption DEF TypeOK
<1> QED  BY <1>1, EarnedFacts, CanaryAssumption DEF Earned

LEMMA NextTrafficFacts ==
  ASSUME TypeOK, NEW p \in Proc
  PROVE  /\ NextTraffic(p) \in 0 .. FullTraffic
         /\ NextTraffic(p) <= MaxTraffic
         /\ NextTraffic(p) <= snap[p] + IncrementStep
         /\ NextTraffic(p) >= MaxTraffic => snap[p] + IncrementStep >= MaxTraffic
BY CanaryAssumption DEF TypeOK, NextTraffic

\* TrafficEarned with its expression named.
LEMMA TrafficFacts ==
  TrafficEarned <=>
    \A d \in Deployment :
      /\ status[d] = "ACTIVE" => traffic[d] <= Earned(d) /\ traffic[d] <= MaxTraffic
      /\ status[d] = "PROMOTED" /\ d \notin byHand => MaxTraffic <= Earned(d)
BY DEF TrafficEarned, Earned

LEMMA TrafficFactsNext ==
  TrafficEarned' <=>
    \A d \in Deployment :
      /\ status'[d] = "ACTIVE" => traffic'[d] <= Earned(d)' /\ traffic'[d] <= MaxTraffic
      /\ status'[d] = "PROMOTED" /\ d \notin byHand' => MaxTraffic <= Earned(d)'
BY DEF TrafficEarned, Earned

-----------------------------------------------------------------------------
\* What the actions share

LEMMA JobType ==
  ASSUME TypeOK, NEW d \in Deployment, NEW w \in Window, NEW t \in Try,
         NEW s \in JobState, job' = [job EXCEPT ![d][w][t] = s]
  PROVE  job' \in [Deployment -> [Window -> [Try -> JobState]]]
BY DEF TypeOK

\* The processes that do not take the step.
OthersRest(p) ==
  \A q \in Proc \ {p} :
    /\ pc'[q] = pc[q] /\ at'[q] = at[q] /\ win'[q] = win[q]
    /\ snap'[q] = snap[q] /\ verdict'[q] = verdict[q]

\* They know what they knew, and no pass is ever taken back.
LEMMA ProcessRest ==
  ASSUME IInv, NEW p \in Proc, OthersRest(p), LocalOf(p)', SnapshotOf(p)', UNCHANGED <<passes, gates>>
  PROVE  LocalInv' /\ SnapshotInv'
<1>1. ASSUME NEW q \in Proc, q # p PROVE LocalOf(q)' /\ SnapshotOf(q)'
  BY <1>1 DEF IInv, LocalInv, SnapshotInv, LocalOf, SnapshotOf, OthersRest, Earned
<1> QED  BY <1>1 DEF IInv, LocalInv, SnapshotInv

LEMMA TrafficRests ==
  ASSUME IInv, UNCHANGED <<status, traffic, passes, byHand>>
  PROVE  TrafficEarned'
BY DEF IInv, TrafficEarned

\* A decision stays recorded, or about to be, when nothing is decided and no
\* process leaves the record of its decision undone.
LEMMA RecordsRest ==
  ASSUME IInv, NEW p \in Proc, faults' \in Nat, faults' >= faults,
         faults' = 0 => pc[p] \notin {"recordPromote", "recordRollback"},
         OthersRest(p),
         \A d \in Deployment : status'[d] \in Terminal => status'[d] = status[d],
         records' = records
  PROVE  DecisionIsRecorded'
<1> SUFFICES ASSUME faults' = 0, NEW d \in Deployment
             PROVE  /\ status'[d] = "PROMOTED" => "PROMOTE" \in records[d] \/ Recording(d, "recordPromote")'
                    /\ status'[d] = "ROLLED_BACK" => "ROLLBACK" \in records[d] \/ Recording(d, "recordRollback")'
  BY DEF DecisionIsRecorded
<1>1. faults = 0 /\ pc[p] \notin {"recordPromote", "recordRollback"}
  BY CanaryAssumption DEF IInv, TypeOK
<1>2. \A l \in {"recordPromote", "recordRollback"} : Recording(d, l) => Recording(d, l)'
  BY <1>1 DEF Recording, OthersRest
<1> QED  BY <1>1, <1>2 DEF IInv, DecisionIsRecorded, Terminal

\* Nothing but the locals of a process and the queue changes.
LEMMA QuietStep ==
  ASSUME IInv, NEW p \in Proc, TypeOK', OthersRest(p), LocalOf(p)', SnapshotOf(p)',
         UNCHANGED <<status, traffic, passes, gates, byHand, records>>,
         faults' \in Nat, faults' >= faults,
         faults' = 0 => pc[p] \notin {"recordPromote", "recordRollback"}
  PROVE  IInv'
BY ProcessRest, TrafficRests, RecordsRest DEF IInv

\* A process that returns, or goes to its end, knows nothing any more.
LEMMA ForgetEffect ==
  ASSUME TypeOK, NEW p \in Proc, Goto(p, "idle"), Forget(p)
  PROVE  /\ pc' \in [Proc -> Pc] /\ at' \in [Proc -> Deployment \cup {None}]
         /\ win' \in [Proc -> 0 .. MaxWindow] /\ try' \in [Proc -> Try]
         /\ snap' \in [Proc -> 0 .. FullTraffic] /\ verdict' \in [Proc -> Verdict]
         /\ OthersRest(p) /\ LocalOf(p)' /\ SnapshotOf(p)'
<1>1. "idle" \in Pc /\ 0 \in Try /\ "manual" \in Verdict /\ 0 \in 0 .. MaxWindow /\ 0 \in 0 .. FullTraffic
  BY CanaryAssumption DEF Pc, Try, Verdict
<1>2. /\ pc' \in [Proc -> Pc] /\ at' \in [Proc -> Deployment \cup {None}]
      /\ win' \in [Proc -> 0 .. MaxWindow] /\ try' \in [Proc -> Try]
      /\ snap' \in [Proc -> 0 .. FullTraffic] /\ verdict' \in [Proc -> Verdict]
  BY <1>1 DEF TypeOK, Goto, Forget
<1>3. pc'[p] = "idle" /\ win'[p] = 0 /\ verdict'[p] = "manual"
  BY DEF TypeOK, Goto, Forget
<1>4. OthersRest(p)
  BY DEF TypeOK, Goto, Forget, OthersRest
<1> QED  BY <1>2, <1>3, <1>4 DEF LocalOf, SnapshotOf

LEMMA LeaveEffect ==
  ASSUME IInv, NEW p \in Proc, Leave(p), pc[p] \notin {"idle", "load", "end"}
  PROVE  /\ pc' \in [Proc -> Pc] /\ at' \in [Proc -> Deployment \cup {None}]
         /\ win' \in [Proc -> 0 .. MaxWindow] /\ try' \in [Proc -> Try]
         /\ snap' \in [Proc -> 0 .. FullTraffic] /\ verdict' \in [Proc -> Verdict]
         /\ OthersRest(p) /\ LocalOf(p)' /\ SnapshotOf(p)'
<1>1. CASE p \in Slot
  <2>1. Goto(p, "end") /\ UNCHANGED localVars
    BY <1>1 DEF Leave
  <2>2. LocalOf(p) /\ pc[p] # "insert" /\ "end" \in Pc
    BY <1>1, CanaryAssumption DEF IInv, LocalInv, LocalOf, Pc
  <2>3. OthersRest(p) /\ pc' \in [Proc -> Pc] /\ pc'[p] = "end"
    BY <2>1, <2>2 DEF IInv, TypeOK, OthersRest, Goto, localVars
  <2> QED  BY <1>1, <2>1, <2>2, <2>3 DEF IInv, TypeOK, LocalOf, SnapshotOf, localVars
<1>2. CASE p \notin Slot
  BY <1>2, ForgetEffect DEF Leave, IInv
<1> QED  BY <1>1, <1>2

\* The effect of a process that goes on with what it has.
LEMMA GotoEffect ==
  ASSUME IInv, NEW p \in Proc, NEW l \in Pc, Goto(p, l), UNCHANGED localVars,
         pc[p] \notin {"idle", "insert"}, l \notin {"idle", "insert", "start"},
         l \in {"load", "end"} => p \in Slot,
         l \in {"advance", "add"} => win[p] < MaxWindow
  PROVE  /\ pc' \in [Proc -> Pc] /\ pc'[p] = l
         /\ OthersRest(p) /\ LocalOf(p)'
<1>1. pc' \in [Proc -> Pc] /\ pc'[p] = l /\ OthersRest(p)
  BY DEF IInv, TypeOK, Goto, OthersRest, localVars
<1>2. LocalOf(p)
  BY DEF IInv, LocalInv
<1> QED  BY <1>1, <1>2 DEF LocalOf, localVars

-----------------------------------------------------------------------------

LEMMA CanaryStarts == Init => IInv
<1> SUFFICES ASSUME Init PROVE IInv
  OBVIOUS
<1>1. TypeOK
  <2>1. /\ "absent" \in Status /\ "none" \in JobState /\ "idle" \in Pc /\ "manual" \in Verdict
        /\ 0 \in Try /\ 0 \in 0 .. MaxWindow /\ 0 \in 0 .. FullTraffic /\ 0 \in 0 .. MaxGates
        /\ 0 \in 0 .. MaxFaults
    BY CanaryAssumption DEF Status, JobState, Pc, Verdict, Try
  <2>2. job \in [Deployment -> [Window -> [Try -> JobState]]]
    BY <2>1 DEF Init
  <2> QED  BY <2>1, <2>2 DEF Init, TypeOK
<1>2. LocalInv /\ SnapshotInv
  BY DEF Init, LocalInv, SnapshotInv, LocalOf, SnapshotOf
<1>3. TrafficEarned /\ DecisionIsRecorded
  BY DEF Init, TrafficEarned, DecisionIsRecorded
<1> QED  BY <1>1, <1>2, <1>3 DEF IInv

LEMMA CreateCheckKeeps == ASSUME IInv, NEW c \in Caller, CreateCheck(c) PROVE IInv'
<1> USE DEF CreateCheck, Goto, deploymentVars, historyVars, localVars
<1>1. c \in Proc /\ LocalOf(c)
  BY DEF IInv, LocalInv, Proc
<1>2. TypeOK' /\ OthersRest(c)
  BY <1>1 DEF IInv, TypeOK, OthersRest, Pc
<1>3. pc'[c] = "insert"
  BY <1>1 DEF IInv, TypeOK
<1>4. LocalOf(c)' /\ SnapshotOf(c)'
  BY <1>1, <1>3, CanaryAssumption DEF LocalOf, SnapshotOf
<1>5. faults' \in Nat /\ faults' >= faults
  BY CanaryAssumption DEF IInv, TypeOK
<1> QED  BY <1>1, <1>2, <1>4, <1>5, QuietStep

LEMMA CreateInsertKeeps ==
  ASSUME IInv, NEW p \in Proc, NEW d \in Deployment, CreateInsert(p, d)
  PROVE  IInv'
<1> USE DEF CreateInsert, historyVars
<1>1. OthersRest(p) /\ LocalOf(p)' /\ SnapshotOf(p)'
  BY LeaveEffect
<1>2. TypeOK'
  BY LeaveEffect DEF IInv, TypeOK, Status, Live
<1>3. LocalInv' /\ SnapshotInv'
  BY <1>1, ProcessRest
<1>4. TrafficEarned'
  BY DEF IInv, TypeOK, TrafficEarned
<1>5. DecisionIsRecorded'
  <2>1. \A e \in Deployment : status'[e] \in Terminal => status'[e] = status[e]
    BY DEF IInv, TypeOK, Terminal
  <2>2. faults' \in Nat /\ faults' >= faults
    BY CanaryAssumption DEF IInv, TypeOK
  <2> QED  BY <1>1, <2>1, <2>2, RecordsRest
<1> QED  BY <1>2, <1>3, <1>4, <1>5 DEF IInv

LEMMA StartReadKeeps ==
  ASSUME IInv, NEW c \in Caller, NEW d \in Deployment, StartRead(c, d)
  PROVE  IInv'
<1> USE DEF StartRead, Goto, deploymentVars, historyVars
<1>1. c \in Proc /\ LocalOf(c)
  BY DEF IInv, LocalInv, Proc
<1>2. TypeOK' /\ OthersRest(c)
  BY <1>1 DEF IInv, TypeOK, OthersRest, Pc
<1>3. pc'[c] = "start" /\ at'[c] = d
  BY <1>1 DEF IInv, TypeOK
<1>4. LocalOf(c)' /\ SnapshotOf(c)'
  BY <1>1, <1>3, CanaryAssumption DEF LocalOf, SnapshotOf
<1>5. faults' \in Nat /\ faults' >= faults
  BY CanaryAssumption DEF IInv, TypeOK
<1> QED  BY <1>1, <1>2, <1>4, <1>5, QuietStep

LEMMA StartWriteKeeps == ASSUME IInv, NEW p \in Proc, StartWrite(p) PROVE IInv'
<1> USE DEF StartWrite
<1>0. LocalOf(p) /\ at[p] \in Deployment /\ win[p] = 0
  BY DEF IInv, LocalInv, LocalOf
<1>1. /\ pc' \in [Proc -> Pc] /\ pc'[p] = "add" /\ OthersRest(p) /\ LocalOf(p)'
  BY <1>0, GotoEffect, CanaryAssumption DEF Pc
<1>2. TypeOK'
  BY <1>0, <1>1, CanaryAssumption DEF IInv, TypeOK, Status, Live, localVars
<1>3. LocalInv' /\ SnapshotInv'
  BY <1>1, ProcessRest DEF SnapshotOf
<1>4. TrafficEarned'
  <2>1. \A d \in Deployment : Earned(d)' = Earned(d)
    BY DEF Earned
  <2>2. \A d \in Deployment : InitialTraffic <= Earned(d)
    BY EarnedType DEF IInv
  <2> QED  BY <1>0, <2>1, <2>2, TrafficFacts, TrafficFactsNext, CanaryAssumption DEF IInv, TypeOK
<1>5. DecisionIsRecorded'
  <2>1. \A e \in Deployment : status'[e] \in Terminal => status'[e] = status[e]
    BY <1>0 DEF IInv, TypeOK, Terminal
  <2>2. faults' \in Nat /\ faults' >= faults
    BY CanaryAssumption DEF IInv, TypeOK
  <2> QED  BY <1>1, <2>1, <2>2, RecordsRest
<1> QED  BY <1>2, <1>3, <1>4, <1>5 DEF IInv

LEMMA AddJobKeeps == ASSUME IInv, NEW p \in Proc, AddJob(p) PROVE IInv'
<1> USE DEF AddJob, deploymentVars, historyVars
<1>0. at[p] \in Deployment /\ win[p] + 1 \in Window /\ 0 \in Try
  <2>1. LocalOf(p) /\ win[p] \in 0 .. MaxWindow
    BY DEF IInv, TypeOK, LocalInv
  <2>2. at[p] \in Deployment /\ win[p] < MaxWindow
    BY <2>1 DEF LocalOf
  <2> QED  BY <2>1, <2>2, CanaryAssumption DEF Window, Try
<1>1. OthersRest(p) /\ LocalOf(p)' /\ SnapshotOf(p)'
  BY LeaveEffect
<1>2. faults' \in 0 .. MaxFaults /\ faults' >= faults
  BY CanaryAssumption DEF IInv, TypeOK
<1>3. job' \in [Deployment -> [Window -> [Try -> JobState]]]
  <2>1. CASE job' = job
    BY SMTT(30), <2>1 DEF IInv, TypeOK
  <2>2. CASE job' # job
    <3>1. job[at[p]][win[p] + 1][0] \in JobState /\ "delayed" \in JobState
      BY <1>0 DEF IInv, TypeOK, JobState
    <3> DEFINE s == IF job[at[p]][win[p] + 1][0] = "none" THEN "delayed" ELSE job[at[p]][win[p] + 1][0]
    <3>2. job' = [job EXCEPT ![at[p]][win[p] + 1][0] = s] /\ s \in JobState
      BY <2>2, <3>1 DEF AddJob
    <3> QED  BY <1>0, <3>2, JobType DEF IInv
  <2> QED  BY <2>1, <2>2
<1>4. TypeOK'
  BY <1>2, <1>3, LeaveEffect DEF IInv, TypeOK
<1> QED  BY <1>1, <1>2, <1>4, QuietStep

LEMMA EvaluateReadKeeps ==
  ASSUME IInv, NEW c \in Caller, NEW d \in Deployment, NEW w \in Window, EvaluateRead(c, d, w)
  PROVE  IInv'
<1> USE DEF EvaluateRead, Goto, deploymentVars, historyVars
<1>1. c \in Proc /\ c \notin Slot /\ w \in 0 .. MaxWindow /\ traffic[d] \in 0 .. FullTraffic
  BY CanaryAssumption DEF IInv, TypeOK, Proc, Window
<1>2. TypeOK' /\ OthersRest(c)
  BY <1>1 DEF IInv, TypeOK, OthersRest, Pc
<1>3. pc'[c] = "gate" /\ at'[c] = d /\ snap'[c] = traffic[d]
  BY <1>1 DEF IInv, TypeOK
<1>4. LocalOf(c)'
  BY <1>1, <1>3 DEF LocalOf
<1>5. SnapshotOf(c)'
  <2>1. traffic[d] <= Earned(d)
    BY TrafficFacts DEF IInv
  <2>2. Earned(d)' = Earned(d)
    BY DEF Earned
  <2> QED  BY <1>3, <2>1, <2>2 DEF SnapshotOf
<1>6. faults' \in Nat /\ faults' >= faults
  BY CanaryAssumption DEF IInv, TypeOK
<1> QED  BY <1>1, <1>2, <1>4, <1>5, <1>6, QuietStep

LEMMA TakeJobKeeps ==
  ASSUME IInv, NEW k \in Slot, NEW d \in Deployment, NEW w \in Window, NEW t \in Try,
         TakeJob(k, d, w, t)
  PROVE  IInv'
<1> USE DEF TakeJob, Goto, deploymentVars, historyVars
<1>1. k \in Proc /\ w \in 0 .. MaxWindow
  BY CanaryAssumption DEF Proc, Window
<1>2. job' \in [Deployment -> [Window -> [Try -> JobState]]]
  BY JobType DEF IInv, JobState
<1>3. TypeOK' /\ OthersRest(k)
  BY <1>1, <1>2 DEF IInv, TypeOK, OthersRest, Pc
<1>4. pc'[k] = "load" /\ at'[k] = d /\ win'[k] = w
  BY <1>1 DEF IInv, TypeOK
<1>5. LocalOf(k)' /\ SnapshotOf(k)'
  BY <1>4 DEF LocalOf, SnapshotOf
<1>6. faults' \in Nat /\ faults' >= faults
  BY CanaryAssumption DEF IInv, TypeOK
<1> QED  BY <1>1, <1>3, <1>5, <1>6, QuietStep

LEMMA LoadKeeps == ASSUME IInv, NEW k \in Slot, LoadDeployment(k) PROVE IInv'
<1> USE DEF LoadDeployment, Goto, deploymentVars, historyVars
<1>1. k \in Proc /\ LocalOf(k) /\ at[k] \in Deployment /\ win[k] \in Window
  BY DEF IInv, LocalInv, LocalOf, Proc
<1>2. TypeOK' /\ OthersRest(k)
  BY <1>1 DEF IInv, TypeOK, OthersRest, Pc
<1>3. /\ pc'[k] = (IF status[at[k]] = "ACTIVE" THEN "gate" ELSE "end")
      /\ snap'[k] = traffic[at[k]]
  BY <1>1 DEF IInv, TypeOK
<1>4. LocalOf(k)'
  BY <1>1, <1>3, CanaryAssumption DEF LocalOf
<1>5. SnapshotOf(k)'
  <2>1. status[at[k]] = "ACTIVE" => traffic[at[k]] <= Earned(at[k])
    BY <1>1, TrafficFacts DEF IInv
  <2>2. Earned(at[k])' = Earned(at[k])
    BY DEF Earned
  <2> QED  BY <1>3, <2>1, <2>2 DEF SnapshotOf
<1>6. faults' \in Nat /\ faults' >= faults
  BY CanaryAssumption DEF IInv, TypeOK
<1> QED  BY <1>1, <1>2, <1>4, <1>5, <1>6, QuietStep

LEMMA DeferKeeps == ASSUME IInv, NEW k \in Slot, Defer(k) PROVE IInv'
<1> USE DEF Defer, deploymentVars, historyVars
<1>1. k \in Proc /\ LocalOf(k) /\ at[k] \in Deployment /\ win[k] \in Window
  BY DEF IInv, LocalInv, LocalOf, Proc
<1>2. pc' \in [Proc -> Pc] /\ pc'[k] = "end" /\ OthersRest(k) /\ LocalOf(k)'
  BY SMTT(30), <1>1, GotoEffect DEF Pc
<1>3. job' \in [Deployment -> [Window -> [Try -> JobState]]]
  <2>1. PICK t \in Try : job' = [job EXCEPT ![at[k]][win[k]][t] = "delayed"]
    OBVIOUS
  <2> QED  BY <1>1, <2>1, JobType DEF IInv, JobState
<1>4. TypeOK'
  BY <1>2, <1>3 DEF IInv, TypeOK, localVars
<1>5. SnapshotOf(k)'
  BY <1>2 DEF SnapshotOf
<1>6. faults' \in Nat /\ faults' >= faults
  BY CanaryAssumption DEF IInv, TypeOK
<1> QED  BY <1>1, <1>2, <1>4, <1>5, <1>6, QuietStep

LEMMA RecordGateKeeps ==
  ASSUME IInv, NEW p \in Proc, NEW v \in Verdicts, RecordGate(p, v)
  PROVE  IInv'
<1> USE DEF RecordGate, deploymentVars
<1>1. LocalOf(p) /\ SnapshotOf(p) /\ at[p] \in Deployment
  BY DEF IInv, LocalInv, SnapshotInv, LocalOf
<1>2. v \in {"PASS", "WARN", "FAIL"} /\ v \in Verdict
  BY CanaryAssumption DEF Verdict
<1>3. /\ Decision(p, v) \in {"rollback", "pause", "promote", "advance", "end", "add"}
      /\ Decision(p, v) \in {"promote", "advance"} => v = "PASS"
      /\ Decision(p, v) = "end" => p \in Slot
      /\ Decision(p, v) = "promote" => NextTraffic(p) >= MaxTraffic
  BY <1>2 DEF Decision
<1>4. /\ passes' \in [Deployment -> Nat]
      /\ \A d \in Deployment : passes'[d] >= passes[d]
      /\ v = "PASS" => passes'[at[p]] = passes[at[p]] + 1
  BY <1>1, CanaryAssumption DEF IInv, TypeOK
<1>5. TypeOK'
  <2>1. pc' \in [Proc -> Pc]
    BY <1>3 DEF IInv, TypeOK, Goto, Pc
  <2>2. gates' \in [Deployment -> 0 .. MaxGates]
    BY <1>1, CanaryAssumption DEF IInv, TypeOK
  <2>3. passes' \in [Deployment -> 0 .. MaxGates]
    BY <1>1, CanaryAssumption DEF IInv, TypeOK, SnapshotInv
  <2>4. verdict' \in [Proc -> Verdict]
    BY <1>2 DEF IInv, TypeOK
  <2> QED  BY <2>1, <2>2, <2>3, <2>4 DEF IInv, TypeOK
<1>6. OthersRest(p) /\ pc'[p] = Decision(p, v) /\ verdict'[p] = v
  BY DEF IInv, TypeOK, OthersRest, Goto
<1>7. LocalInv'
  <2>1. LocalOf(p)'
    BY <1>1, <1>3, <1>6 DEF LocalOf
  <2>2. ASSUME NEW q \in Proc, q # p PROVE LocalOf(q)'
    BY <1>6, <2>2 DEF IInv, LocalInv, LocalOf, OthersRest
  <2> QED  BY <2>1, <2>2 DEF LocalInv
<1>8. /\ \A d \in Deployment : Earned(d) \in Nat /\ Earned(d)' \in Nat /\ Earned(d)' >= Earned(d)
      /\ v = "PASS" => Earned(at[p])' = Earned(at[p]) + IncrementStep
  <2>1. ASSUME NEW d \in Deployment, NEW n \in Nat, NEW m \in Nat, n >= m
        PROVE  IncrementStep * n >= IncrementStep * m
    BY <2>1, CanaryAssumption
  <2>2. passes \in [Deployment -> Nat]
    BY CanaryAssumption DEF IInv, TypeOK
  <2>3. ASSUME NEW d \in Deployment PROVE Earned(d) \in Nat /\ Earned(d)' \in Nat /\ Earned(d)' >= Earned(d)
    <3>1. IncrementStep * passes'[d] >= IncrementStep * passes[d]
      BY <1>4, <2>1, <2>2
    <3>2. IncrementStep * passes'[d] \in Nat /\ IncrementStep * passes[d] \in Nat
      BY <1>4, <2>2, EarnedFacts
    <3> QED  BY <3>1, <3>2, CanaryAssumption DEF Earned
  <2>4. v = "PASS" => Earned(at[p])' = Earned(at[p]) + IncrementStep
    <3>1. at' = at /\ passes[at[p]] \in Nat
      BY <1>1, <2>2
    <3>2. IncrementStep * (passes[at[p]] + 1) = IncrementStep * passes[at[p]] + IncrementStep
      BY <3>1, EarnedFacts
    <3>3. IncrementStep * passes[at[p]] \in Nat
      BY <3>1, EarnedFacts
    <3> QED  BY <1>4, <3>1, <3>2, <3>3, CanaryAssumption DEF Earned
  <2> QED  BY <2>3, <2>4
<1>9. SnapshotInv'
  <2>1. SnapshotOf(p)'
    <3>1. snap[p] \in Nat /\ snap[p] <= Earned(at[p])
      BY <1>1, CanaryAssumption DEF IInv, TypeOK, SnapshotOf
    <3>2. Decision(p, v) = "promote" => snap[p] + IncrementStep >= MaxTraffic
      BY <1>3, NextTrafficFacts DEF IInv
    <3>3. v = "PASS" => snap[p] + IncrementStep <= Earned(at[p])'
      BY <1>1, <1>8, <3>1, CanaryAssumption
    <3> QED  BY <1>1, <1>3, <1>6, <1>8, <3>1, <3>2, <3>3, CanaryAssumption DEF SnapshotOf
  <2>2. ASSUME NEW q \in Proc, q # p PROVE SnapshotOf(q)'
    <3>1. SnapshotOf(q) /\ LocalOf(q) /\ snap[q] \in Nat
      BY CanaryAssumption DEF IInv, LocalInv, SnapshotInv, TypeOK
    <3>2. pc[q] \in {"gate", "advance", "promote"} => at[q] \in Deployment
      BY <3>1 DEF LocalOf
    <3> QED  BY <1>6, <1>8, <2>2, <3>1, <3>2, CanaryAssumption DEF SnapshotOf, OthersRest
  <2>3. \A d \in Deployment : passes'[d] <= gates'[d]
    BY <1>1, CanaryAssumption DEF IInv, TypeOK, SnapshotInv
  <2> QED  BY <2>1, <2>2, <2>3 DEF SnapshotInv
<1>10. TrafficEarned'
  <2>1. \A d \in Deployment : traffic[d] \in Nat
    BY CanaryAssumption DEF IInv, TypeOK
  <2> QED  BY <1>8, <2>1, TrafficFacts, TrafficFactsNext, CanaryAssumption DEF IInv
<1>11. DecisionIsRecorded'
  <2>1. faults' \in Nat /\ faults' >= faults
    BY CanaryAssumption DEF IInv, TypeOK
  <2> QED  BY <1>6, <2>1, RecordsRest
<1> QED  BY <1>5, <1>7, <1>9, <1>10, <1>11 DEF IInv

LEMMA PauseKeeps == ASSUME IInv, NEW p \in Proc, Pause(p) PROVE IInv'
<1> USE DEF Pause, historyVars
<1>0. at[p] \in Deployment
  BY DEF IInv, LocalInv, LocalOf
<1>1. OthersRest(p) /\ LocalOf(p)' /\ SnapshotOf(p)'
  BY LeaveEffect
<1>2. TypeOK'
  BY <1>0, LeaveEffect DEF IInv, TypeOK, Status, Live
<1>3. LocalInv' /\ SnapshotInv'
  BY <1>1, ProcessRest
<1>4. TrafficEarned'
  BY <1>0 DEF IInv, TypeOK, TrafficEarned
<1>5. DecisionIsRecorded'
  <2>1. \A e \in Deployment : status'[e] \in Terminal => status'[e] = status[e]
    BY <1>0 DEF IInv, TypeOK, Terminal
  <2>2. faults' \in Nat /\ faults' >= faults
    BY CanaryAssumption DEF IInv, TypeOK
  <2> QED  BY <1>1, <2>1, <2>2, RecordsRest
<1> QED  BY <1>2, <1>3, <1>4, <1>5 DEF IInv

LEMMA AdvanceKeeps == ASSUME IInv, NEW p \in Proc, Advance(p) PROVE IInv'
<1> USE DEF Advance, historyVars
<1>0. LocalOf(p) /\ SnapshotOf(p) /\ at[p] \in Deployment /\ win[p] < MaxWindow
  BY DEF IInv, LocalInv, SnapshotInv, LocalOf
<1>1. pc' \in [Proc -> Pc] /\ pc'[p] = "add" /\ OthersRest(p) /\ LocalOf(p)'
  BY <1>0, GotoEffect DEF Pc
<1>2. TypeOK'
  <2>1. window' \in [Deployment -> 0 .. MaxWindow]
    BY <1>0, CanaryAssumption DEF IInv, TypeOK
  <2>2. traffic' \in [Deployment -> 0 .. FullTraffic]
    BY <1>0, NextTrafficFacts DEF IInv, TypeOK
  <2> QED  BY <1>1, <2>1, <2>2 DEF IInv, TypeOK, localVars
<1>3. LocalInv' /\ SnapshotInv'
  BY <1>1, ProcessRest DEF SnapshotOf
<1>4. TrafficEarned'
  <2>1. \A d \in Deployment : Earned(d)' = Earned(d) /\ Earned(d) \in Nat
    BY EarnedType DEF Earned, IInv
  <2>2. NextTraffic(p) <= Earned(at[p]) /\ NextTraffic(p) <= MaxTraffic
    <3>1. snap[p] \in Nat /\ snap[p] + IncrementStep <= Earned(at[p])
      BY <1>0, CanaryAssumption DEF IInv, TypeOK, SnapshotOf
    <3> QED  BY <1>0, <2>1, <3>1, NextTrafficFacts, CanaryAssumption DEF IInv
  <2>3. \A d \in Deployment : traffic'[d] = IF d = at[p] THEN NextTraffic(p) ELSE traffic[d]
    BY <1>0 DEF IInv, TypeOK
  <2> QED  BY <1>0, <2>1, <2>2, <2>3, TrafficFacts, TrafficFactsNext DEF IInv
<1>5. DecisionIsRecorded'
  <2>2. faults' \in Nat /\ faults' >= faults
    BY CanaryAssumption DEF IInv, TypeOK
  <2> QED  BY <1>1, <2>2, RecordsRest
<1> QED  BY <1>2, <1>3, <1>4, <1>5 DEF IInv

LEMMA DecideKeeps ==
  ASSUME IInv, NEW c \in Caller, NEW d \in Deployment, NEW l \in {"promote", "rollback"},
         Decide(c, d, l)
  PROVE  IInv'
<1> USE DEF Decide, Goto, deploymentVars, historyVars
<1>1. c \in Proc /\ c \notin Slot /\ LocalOf(c)
  BY CanaryAssumption DEF IInv, LocalInv, Proc
<1>2. TypeOK' /\ OthersRest(c)
  BY <1>1 DEF IInv, TypeOK, OthersRest, Pc
<1>3. pc'[c] = l /\ at'[c] = d /\ verdict'[c] = "manual"
  BY <1>1 DEF IInv, TypeOK, LocalOf
<1>4. LocalOf(c)' /\ SnapshotOf(c)'
  BY <1>1, <1>3 DEF LocalOf, SnapshotOf
<1>5. faults' \in Nat /\ faults' >= faults
  BY CanaryAssumption DEF IInv, TypeOK
<1> QED  BY <1>1, <1>2, <1>4, <1>5, QuietStep

LEMMA PromoteKeeps == ASSUME IInv, NEW p \in Proc, Promote(p) PROVE IInv'
<1> USE DEF Promote
<1>0. LocalOf(p) /\ SnapshotOf(p) /\ at[p] \in Deployment
  BY DEF IInv, LocalInv, SnapshotInv, LocalOf
<1>1. pc' \in [Proc -> Pc] /\ pc'[p] = "recordPromote" /\ OthersRest(p) /\ LocalOf(p)'
  BY <1>0, GotoEffect DEF Pc
<1>2. TypeOK'
  BY <1>0, <1>1, CanaryAssumption DEF IInv, TypeOK, Status, Terminal, localVars
<1>3. LocalInv' /\ SnapshotInv'
  BY <1>1, ProcessRest DEF SnapshotOf
<1>4. TrafficEarned'
  <2>1. \A d \in Deployment : Earned(d)' = Earned(d)
    BY DEF Earned
  <2>2. verdict[p] # "manual" => MaxTraffic <= Earned(at[p])
    BY <1>0 DEF SnapshotOf
  <2>3. \A d \in Deployment : status'[d] = IF d = at[p] THEN "PROMOTED" ELSE status[d]
    BY <1>0 DEF IInv, TypeOK
  <2>4. \A d \in Deployment : d # at[p] => traffic'[d] = traffic[d]
    BY <1>0 DEF IInv, TypeOK
  <2> QED  BY <1>0, <2>1, <2>2, <2>3, <2>4, TrafficFacts, TrafficFactsNext DEF IInv
<1>5. DecisionIsRecorded'
  <2>1. at' = at /\ faults' = faults /\ records' = records
    BY DEF localVars
  <2>2. Recording(at[p], "recordPromote")'
    BY <1>1, <2>1 DEF Recording
  <2>3. \A d \in Deployment, l \in {"recordPromote", "recordRollback"} : Recording(d, l) => Recording(d, l)'
    BY <1>1, <2>1 DEF Recording, OthersRest
  <2>4. \A d \in Deployment : status'[d] = IF d = at[p] THEN "PROMOTED" ELSE status[d]
    BY <1>0 DEF IInv, TypeOK
  <2> QED  BY <2>1, <2>2, <2>3, <2>4 DEF IInv, DecisionIsRecorded
<1> QED  BY <1>2, <1>3, <1>4, <1>5 DEF IInv

LEMMA RollbackKeeps == ASSUME IInv, NEW p \in Proc, Rollback(p) PROVE IInv'
<1> USE DEF Rollback, historyVars
<1>0. LocalOf(p) /\ at[p] \in Deployment
  BY DEF IInv, LocalInv, LocalOf
<1>1. pc' \in [Proc -> Pc] /\ pc'[p] = "recordRollback" /\ OthersRest(p) /\ LocalOf(p)'
  BY <1>0, GotoEffect DEF Pc
<1>2. TypeOK'
  BY <1>0, <1>1, CanaryAssumption DEF IInv, TypeOK, Status, Terminal, localVars
<1>3. LocalInv' /\ SnapshotInv'
  BY <1>1, ProcessRest DEF SnapshotOf
<1>4. TrafficEarned'
  BY <1>0 DEF IInv, TypeOK, TrafficEarned
<1>5. DecisionIsRecorded'
  <2>1. at' = at /\ faults' = faults /\ records' = records
    BY DEF localVars
  <2>2. Recording(at[p], "recordRollback")'
    BY <1>1, <2>1 DEF Recording
  <2>3. \A d \in Deployment, l \in {"recordPromote", "recordRollback"} : Recording(d, l) => Recording(d, l)'
    BY <1>1, <2>1 DEF Recording, OthersRest
  <2>4. \A d \in Deployment : status'[d] = IF d = at[p] THEN "ROLLED_BACK" ELSE status[d]
    BY <1>0 DEF IInv, TypeOK
  <2> QED  BY <2>1, <2>2, <2>3, <2>4 DEF IInv, DecisionIsRecorded
<1> QED  BY <1>2, <1>3, <1>4, <1>5 DEF IInv

LEMMA RefuseKeeps == ASSUME IInv, NEW p \in Proc, Refuse(p) PROVE IInv'
<1> USE DEF Refuse, deploymentVars, historyVars
<1>1. OthersRest(p) /\ LocalOf(p)' /\ SnapshotOf(p)'
  BY LeaveEffect
<1>2. TypeOK'
  BY LeaveEffect DEF IInv, TypeOK
<1>3. faults' \in Nat /\ faults' >= faults
  BY CanaryAssumption DEF IInv, TypeOK
<1> QED  BY <1>1, <1>2, <1>3, QuietStep

LEMMA RecordPromotionKeeps == ASSUME IInv, NEW p \in Proc, RecordPromotion(p) PROVE IInv'
<1> USE DEF RecordPromotion, deploymentVars, historyVars
<1>0. at[p] \in Deployment
  BY DEF IInv, LocalInv, LocalOf
<1>1. OthersRest(p) /\ LocalOf(p)' /\ SnapshotOf(p)'
  BY LeaveEffect
<1>2. TypeOK'
  BY <1>0, LeaveEffect DEF IInv, TypeOK
<1>3. LocalInv' /\ SnapshotInv'
  BY <1>1, ProcessRest
<1>4. TrafficEarned'
  BY TrafficRests
<1>5. DecisionIsRecorded'
  <2> SUFFICES ASSUME faults = 0, NEW d \in Deployment
               PROVE  /\ status[d] = "PROMOTED" => "PROMOTE" \in records'[d] \/ Recording(d, "recordPromote")'
                      /\ status[d] = "ROLLED_BACK" => "ROLLBACK" \in records'[d] \/ Recording(d, "recordRollback")'
    BY DEF DecisionIsRecorded
  <2>1. records[d] \subseteq records'[d]
    BY <1>0 DEF IInv, TypeOK
  <2>2. ASSUME Recording(d, "recordPromote")
        PROVE  "PROMOTE" \in records'[d] \/ Recording(d, "recordPromote")'
    <3>1. PICK q \in Proc : at[q] = d /\ pc[q] = "recordPromote"
      BY <2>2 DEF Recording
    <3>2. CASE q = p
      BY <1>0, <3>1, <3>2 DEF IInv, TypeOK
    <3>3. CASE q # p
      BY <1>1, <3>1, <3>3 DEF Recording, OthersRest
    <3> QED  BY <3>2, <3>3
  <2>3. ASSUME Recording(d, "recordRollback")
        PROVE  "ROLLBACK" \in records'[d] \/ Recording(d, "recordRollback")'
    <3>1. PICK q \in Proc : at[q] = d /\ pc[q] = "recordRollback"
      BY <2>3 DEF Recording
    <3>2. CASE q = p
      BY <1>0, <3>1, <3>2 DEF IInv, TypeOK
    <3>3. CASE q # p
      BY <1>1, <3>1, <3>3 DEF Recording, OthersRest
    <3> QED  BY <3>2, <3>3
  <2> QED  BY <2>1, <2>2, <2>3 DEF IInv, DecisionIsRecorded
<1> QED  BY <1>2, <1>3, <1>4, <1>5 DEF IInv

LEMMA EndJobKeeps == ASSUME IInv, NEW k \in Slot, EndJob(k) PROVE IInv'
<1> USE DEF EndJob, deploymentVars, historyVars
<1>1. /\ k \in Proc /\ at[k] \in Deployment /\ win[k] \in Window /\ try[k] \in Try
  BY SMTT(30) DEF IInv, TypeOK, LocalInv, LocalOf, Proc
<1>2. job' \in [Deployment -> [Window -> [Try -> JobState]]]
  BY <1>1, JobType DEF IInv, JobState
<1>3. OthersRest(k) /\ LocalOf(k)' /\ SnapshotOf(k)'
  BY <1>1, ForgetEffect DEF IInv
<1>4. TypeOK'
  BY <1>1, <1>2, ForgetEffect DEF IInv, TypeOK
<1>5. faults' \in Nat /\ faults' >= faults
  BY CanaryAssumption DEF IInv, TypeOK
<1> QED  BY <1>1, <1>3, <1>4, <1>5, QuietStep

LEMMA CrashKeeps == ASSUME IInv, NEW p \in Proc, Crash(p) PROVE IInv'
<1> USE DEF Crash, deploymentVars, historyVars
<1>1. job' \in [Deployment -> [Window -> [Try -> JobState]]]
  <2>1. CASE p \in Slot
    <3>1. LocalOf(p) /\ try[p] \in Try
      BY DEF IInv, TypeOK, LocalInv
    <3>2. at[p] \in Deployment /\ win[p] \in Window
      BY <2>1, <3>1, CanaryAssumption DEF LocalOf
    <3> QED  BY <2>1, <3>1, <3>2, JobType DEF IInv, JobState
  <2>2. CASE p \notin Slot
    BY <2>2 DEF IInv, TypeOK
  <2> QED  BY SMTT(30), <2>1, <2>2
<1>2. OthersRest(p) /\ LocalOf(p)' /\ SnapshotOf(p)'
  BY ForgetEffect DEF IInv
<1>3. faults' \in 0 .. MaxFaults /\ faults' >= faults /\ faults' # 0
  BY CanaryAssumption DEF IInv, TypeOK
<1>4. TypeOK'
  BY <1>1, <1>3, ForgetEffect DEF IInv, TypeOK
<1> QED  BY <1>2, <1>3, <1>4, QuietStep

LEMMA StutterKeeps == ASSUME IInv, UNCHANGED vars PROVE IInv'
<1>1. TypeOK' /\ LocalInv' /\ SnapshotInv'
  BY DEF IInv, vars, TypeOK, LocalInv, SnapshotInv, LocalOf, SnapshotOf, Earned
<1>2. TrafficEarned' /\ DecisionIsRecorded'
  BY DEF IInv, vars, TrafficEarned, DecisionIsRecorded, Recording
<1> QED  BY <1>1, <1>2 DEF IInv

LEMMA CanaryStep == IInv /\ [Next]_vars => IInv'
<1> SUFFICES ASSUME IInv, [Next]_vars PROVE IInv'
  OBVIOUS
<1>1. ASSUME NEW p \in Proc, Step(p) PROVE IInv'
  BY <1>1, CreateInsertKeeps, StartWriteKeeps, AddJobKeeps, PauseKeeps, AdvanceKeeps,
     RecordGateKeeps, PromoteKeeps, RollbackKeeps, RefuseKeeps, RecordPromotionKeeps DEF Step
<1>2. ASSUME NEW k \in Slot, SlotStep(k) PROVE IInv'
  BY <1>2, TakeJobKeeps, LoadKeeps, DeferKeeps, EndJobKeeps DEF SlotStep
<1>3. ASSUME NEW c \in Caller, Request(c) PROVE IInv'
  BY <1>3, CreateCheckKeeps, StartReadKeeps, EvaluateReadKeeps, DecideKeeps DEF Request
<1>4. ASSUME NEW p \in Proc, Crash(p) PROVE IInv'
  BY <1>4, CrashKeeps
<1>5. CASE UNCHANGED vars
  BY <1>5, StutterKeeps
<1> QED  BY <1>1, <1>2, <1>3, <1>4, <1>5 DEF Next

-----------------------------------------------------------------------------
\* Why an ACTIVE canary is not forgotten.  A job is only done once its window
\* was followed: the job of the next window exists, or a later try of its own
\* window waits or runs.  So the last window with a job has one that is not
\* done.  Calls that name windows by hand only add to the jobs.

\* The deployment was decided or paused; it may be ACTIVE by a late start only.
Left(d) == status[d] \in {"PAUSED", "PROMOTED", "ROLLED_BACK"} \/ d \in revived
Unstarted(d) == status[d] \in {"absent", "PENDING"}
Watched(d) == status[d] = "ACTIVE" /\ gates[d] = passes[d] /\ d \notin revived

Holds(k, d, w, t) == pc[k] # "idle" /\ at[k] = d /\ win[k] = w /\ try[k] = t
Alive(d, w, t) == job[d][w][t] \in {"delayed", "active"}
Done(d, w, t) ==
  \/ job[d][w][t] = "completed"
  \/ \E k \in Slot : pc[k] = "end" /\ Holds(k, d, w, t)
Followed(d, w, t) ==
  \/ w + 1 \in Window /\ job[d][w + 1][0] # "none"
  \/ \E u \in Try : u > t /\ Alive(d, w, u)

\* The first job is about to be added, or there is a last window with a job.
Adding(p, d) == at[p] = d /\ pc[p] = "add" /\ win[p] = 0
Starting(d) ==
  /\ \A w \in Window : job[d][w][0] = "none"
  /\ \E p \in Proc : Adding(p, d)
LastWindow(d, w) ==
  /\ job[d][w][0] # "none"
  /\ \A v \in Window : v > w => job[d][v][0] = "none"
Chained(d) == Starting(d) \/ \E w \in Window : LastWindow(d, w)

UntouchedInv ==
  \A d \in Deployment, w \in Window, t \in Try : Unstarted(d) => job[d][w][t] = "none"
WorkOf(p) ==
  /\ pc[p] \in {"gate", "advance", "add"} => ~Unstarted(at[p])
  /\ pc[p] \in {"recordPromote", "recordRollback"} => Left(at[p])
WorkInv == \A p \in Proc : WorkOf(p)
\* A slot holds its job, alone.
HoldInv ==
  \A k \in Slot, d \in Deployment, w \in Window, t \in Try :
    Holds(k, d, w, t) => job[d][w][t] = "active"
AloneInv ==
  \A k \in Slot, l \in Slot, d \in Deployment, w \in Window, t \in Try :
    Holds(k, d, w, t) /\ Holds(l, d, w, t) => k = l
\* Retries are numbered without gaps.
RetryInv ==
  \A d \in Deployment, w \in Window, t \in Try, u \in Try \ {0} :
    u < t /\ job[d][w][t] # "none" => job[d][w][u] # "none"
FollowedInv ==
  \A d \in Deployment, w \in Window, t \in Try :
    Watched(d) /\ Done(d, w, t) => Followed(d, w, t)
ChainInv == \A d \in Deployment : Watched(d) => Chained(d)

Flow == UntouchedInv /\ WorkInv /\ HoldInv /\ AloneInv /\ RetryInv /\ FollowedInv /\ ChainInv

\* A worker that dies, or a queue.add that fails, may lose the chain.
FlowInv == faults = 0 => Flow

\* What changes in the queue, one job at a time.
LEMMA JobAfter ==
  ASSUME TypeOK, NEW d \in Deployment, NEW w \in Window, NEW t \in Try, NEW s \in JobState,
         job' = [job EXCEPT ![d][w][t] = s]
  PROVE  /\ job'[d][w][t] = s
         /\ \A e \in Deployment, v \in Window, u \in Try :
              e # d \/ v # w \/ u # t => job'[e][v][u] = job[e][v][u]
BY DEF TypeOK

LEMMA TryFacts == 0 \in Try /\ Try \subseteq Nat /\ Window \subseteq Nat
BY CanaryAssumption DEF Try, Window

\* A process outside its call works on a deployment, a slot on a job.
LEMMA HeldBy ==
  ASSUME IInv, NEW k \in Slot, pc[k] # "idle"
  PROVE  /\ k \in Proc /\ at[k] \in Deployment /\ win[k] \in Window /\ try[k] \in Try
         /\ Holds(k, at[k], win[k], try[k])
<1>1. k \in Proc /\ LocalOf(k) /\ try[k] \in Try
  BY DEF IInv, TypeOK, LocalInv, Proc
<1>2. at[k] \in Deployment /\ win[k] \in Window
  BY <1>1, CanaryAssumption DEF LocalOf
<1> QED  BY <1>1, <1>2 DEF Holds

\* The processes that do not take the step keep their job too.
Rests(p) == OthersRest(p) /\ \A q \in Proc \ {p} : try'[q] = try[q]

LEMMA WorkRest ==
  ASSUME IInv, WorkInv, NEW p \in Proc, Rests(p), WorkOf(p)',
         \A d \in Deployment : (Unstarted(d)' => Unstarted(d)) /\ (Left(d) => Left(d)')
  PROVE  WorkInv'
<1> SUFFICES ASSUME NEW q \in Proc, q # p PROVE WorkOf(q)'
  BY DEF WorkInv
<1>1. WorkOf(q) /\ LocalOf(q) /\ pc'[q] = pc[q] /\ at'[q] = at[q]
  BY DEF WorkInv, IInv, LocalInv, Rests, OthersRest
<1>2. CASE pc[q] \in {"gate", "advance", "add", "recordPromote", "recordRollback"}
  <2>1. at[q] \in Deployment
    BY <1>1, <1>2 DEF LocalOf
  <2>2. PICK d \in Deployment : d = at[q]
    BY <2>1
  <2>3. at'[q] = d
    BY <1>1, <2>2
  <2>4. (Unstarted(d)' => Unstarted(d)) /\ (Left(d) => Left(d)')
    OBVIOUS
  <2>5. pc[q] \in {"gate", "advance", "add"} => ~Unstarted(d)'
    BY <1>1, <2>2, <2>4 DEF WorkOf
  <2>6. pc[q] \in {"recordPromote", "recordRollback"} => Left(d)'
    BY <1>1, <2>2, <2>4 DEF WorkOf
  <2>7. (pc[q] \in {"gate", "advance", "add"})' => ~Unstarted(d)'
    BY <1>1, <2>5
  <2>8. (pc[q] \in {"recordPromote", "recordRollback"})' => Left(d)'
    BY <1>1, <2>6
  <2> QED  BY <2>3, <2>7, <2>8 DEF WorkOf, Unstarted, Left
<1>3. CASE pc[q] \notin {"gate", "advance", "add", "recordPromote", "recordRollback"}
  BY <1>1, <1>3 DEF WorkOf
<1> QED  BY <1>2, <1>3

\* Whoever holds a job after the step held it before.
LEMMA HoldersRest ==
  ASSUME NEW p \in Proc, Rests(p),
         p \in Slot /\ pc'[p] # "idle" =>
           pc[p] # "idle" /\ at'[p] = at[p] /\ win'[p] = win[p] /\ try'[p] = try[p]
  PROVE  \A k \in Slot, d \in Deployment, w \in Window, t \in Try :
           Holds(k, d, w, t)' => Holds(k, d, w, t)
<1> SUFFICES ASSUME NEW k \in Slot, NEW d \in Deployment, NEW w \in Window, NEW t \in Try,
                    Holds(k, d, w, t)'
             PROVE  Holds(k, d, w, t)
  OBVIOUS
<1>1. pc'[k] # "idle" /\ at'[k] = d /\ win'[k] = w /\ try'[k] = t /\ k \in Proc
  BY DEF Holds, Proc
<1>2. CASE k = p
  BY <1>1, <1>2 DEF Holds
<1>3. CASE k # p
  BY <1>1, <1>3 DEF Holds, Rests, OthersRest
<1> QED  BY <1>2, <1>3

LEMMA HoldRest ==
  ASSUME HoldInv, AloneInv,
         \A k \in Slot, d \in Deployment, w \in Window, t \in Try :
           Holds(k, d, w, t)' => Holds(k, d, w, t),
         \A k \in Slot, d \in Deployment, w \in Window, t \in Try :
           Holds(k, d, w, t)' /\ job[d][w][t] = "active" => job'[d][w][t] = "active"
  PROVE  HoldInv' /\ AloneInv'
<1>1. HoldInv'
  BY DEF HoldInv
<1>2. AloneInv'
  BY DEF AloneInv
<1> QED  BY <1>1, <1>2

LEMMA FollowedStays ==
  ASSUME NEW d \in Deployment, NEW w \in Window, NEW t \in Try, Followed(d, w, t),
         \A v \in Window : job[d][v][0] # "none" => job'[d][v][0] # "none",
         \A u \in Try : Alive(d, w, u) => Alive(d, w, u)'
  PROVE  Followed(d, w, t)'
<1>1. CASE w + 1 \in Window /\ job[d][w + 1][0] # "none"
  BY <1>1 DEF Followed
<1>2. CASE \E u \in Try : u > t /\ Alive(d, w, u)
  BY <1>2 DEF Followed
<1> QED  BY <1>1, <1>2 DEF Followed

LEMMA ChainStays ==
  ASSUME NEW d \in Deployment, Chained(d),
         \A w \in Window : job[d][w][0] = "none" <=> job'[d][w][0] = "none",
         \A q \in Proc : Adding(q, d) => Adding(q, d)'
  PROVE  Chained(d)'
<1>1. CASE Starting(d)
  BY <1>1 DEF Chained, Starting
<1>2. CASE \E w \in Window : LastWindow(d, w)
  BY <1>2 DEF Chained, LastWindow
<1> QED  BY <1>1, <1>2 DEF Chained

LEMMA AddingRests ==
  ASSUME NEW p \in Proc, Rests(p), NEW d \in Deployment, ~Adding(p, d)
  PROVE  \A q \in Proc : Adding(q, d) => Adding(q, d)'
BY DEF Adding, Rests, OthersRest

\* A step that leaves the queue alone, and ends no job of a canary still watched.
LEMMA FlowRest ==
  ASSUME IInv, Flow, NEW p \in Proc, Rests(p), WorkOf(p)', job' = job, pc[p] # "add",
         \A d \in Deployment :
           /\ Unstarted(d)' => Unstarted(d)
           /\ Left(d) => Left(d)'
           /\ Watched(d)' => Watched(d),
         p \in Slot => pc[p] # "idle" /\ at'[p] = at[p] /\ win'[p] = win[p] /\ try'[p] = try[p],
         p \in Slot /\ pc'[p] = "end" => \A d \in Deployment : Watched(d)' => at[p] # d
  PROVE  Flow'
<1>1. UntouchedInv' /\ RetryInv'
  BY DEF Flow, UntouchedInv, RetryInv
<1>2. WorkInv'
  BY WorkRest DEF Flow
<1>3. \A k \in Slot, d \in Deployment, w \in Window, t \in Try :
        Holds(k, d, w, t)' => Holds(k, d, w, t)
  BY HoldersRest
<1>4. HoldInv' /\ AloneInv'
  BY <1>3, HoldRest DEF Flow
<1>5. FollowedInv'
  <2> SUFFICES ASSUME NEW d \in Deployment, NEW w \in Window, NEW t \in Try,
                      Watched(d)', Done(d, w, t)'
               PROVE  Followed(d, w, t)'
    BY DEF FollowedInv
  <2>1. Done(d, w, t)
    <3>1. CASE job'[d][w][t] = "completed"
      BY <3>1 DEF Done
    <3>2. CASE \E k \in Slot : pc'[k] = "end" /\ Holds(k, d, w, t)'
      <4>1. PICK k \in Slot : pc'[k] = "end" /\ Holds(k, d, w, t)'
        BY <3>2
      <4>2. Holds(k, d, w, t) /\ at[k] = d
        BY <1>3, <4>1 DEF Holds
      <4>3. k # p
        BY <4>1, <4>2
      <4>4. pc[k] = "end"
        BY <4>1, <4>3 DEF Rests, OthersRest, Proc
      <4> QED  BY <4>2, <4>4 DEF Done
    <3> QED  BY <3>1, <3>2 DEF Done
  <2>2. Followed(d, w, t)
    BY <2>1 DEF Flow, FollowedInv
  <2>3. \A u \in Try : Alive(d, w, u) => Alive(d, w, u)'
    BY DEF Alive
  <2> QED  BY <2>2, <2>3, FollowedStays
<1>6. ChainInv'
  <2> SUFFICES ASSUME NEW d \in Deployment, Watched(d)' PROVE Chained(d)'
    BY DEF ChainInv
  <2>1. Chained(d)
    BY DEF Flow, ChainInv
  <2>2. \A q \in Proc : Adding(q, d) => Adding(q, d)'
    BY AddingRests DEF Adding
  <2> QED  BY <2>1, <2>2, ChainStays
<1> QED  BY <1>1, <1>2, <1>4, <1>5, <1>6 DEF Flow

LEMMA CreateInsertFlows ==
  ASSUME IInv, Flow, NEW p \in Proc, NEW d \in Deployment, CreateInsert(p, d)
  PROVE  Flow'
<1> USE DEF CreateInsert, historyVars
<1>1. p \notin Slot /\ pc[p] # "add"
  BY CanaryAssumption DEF IInv, LocalInv, LocalOf
<1>2. Goto(p, "idle") /\ Forget(p)
  BY <1>1 DEF Leave
<1>3. Rests(p) /\ pc'[p] = "idle"
  BY <1>2 DEF IInv, TypeOK, Goto, Forget, Rests, OthersRest
<1>4. WorkOf(p)'
  BY <1>3 DEF WorkOf
<1>5. \A e \in Deployment : (Unstarted(e)' => Unstarted(e)) /\ (Left(e) => Left(e)') /\ (Watched(e)' => Watched(e))
  BY DEF IInv, TypeOK, Unstarted, Left, Watched
<1> QED  BY <1>1, <1>3, <1>4, <1>5, FlowRest

\* A call that begins.
LEMMA CallerFlows ==
  ASSUME IInv, Flow, NEW c \in Caller, pc[c] = "idle", Rests(c), WorkOf(c)',
         UNCHANGED <<status, gates, passes, revived, job>>
  PROVE  Flow'
<1>1. c \in Proc /\ c \notin Slot /\ pc[c] # "add"
  BY CanaryAssumption DEF Proc
<1>2. \A e \in Deployment : (Unstarted(e)' => Unstarted(e)) /\ (Left(e) => Left(e)') /\ (Watched(e)' => Watched(e))
  BY DEF Unstarted, Left, Watched
<1> QED  BY <1>1, <1>2, FlowRest

LEMMA RequestFlows == ASSUME IInv, Flow, NEW c \in Caller, Request(c) PROVE Flow'
<1> USE DEF Goto, deploymentVars, historyVars
<1>0. c \in Proc
  BY DEF Proc
<1>1. CASE CreateCheck(c)
  BY <1>0, <1>1, CallerFlows DEF CreateCheck, IInv, TypeOK, Rests, OthersRest, WorkOf, localVars
<1>2. ASSUME NEW d \in Deployment, StartRead(c, d) PROVE Flow'
  BY <1>0, <1>2, CallerFlows DEF StartRead, IInv, TypeOK, Rests, OthersRest, WorkOf
<1>3. ASSUME NEW d \in Deployment, NEW w \in Window, EvaluateRead(c, d, w) PROVE Flow'
  <2>1. pc'[c] = "gate" /\ at'[c] = d /\ status'[d] = "ACTIVE" /\ Rests(c)
    BY <1>0, <1>3 DEF EvaluateRead, IInv, TypeOK, Rests, OthersRest
  <2>2. WorkOf(c)'
    BY <2>1 DEF WorkOf, Unstarted
  <2> QED  BY <1>3, <2>1, <2>2, CallerFlows DEF EvaluateRead
<1>4. ASSUME NEW d \in Deployment, NEW l \in {"promote", "rollback"}, Decide(c, d, l) PROVE Flow'
  BY <1>0, <1>4, CallerFlows DEF Decide, IInv, TypeOK, Rests, OthersRest, WorkOf
<1> QED  BY <1>1, <1>2, <1>3, <1>4 DEF Request, CreateCheck, StartRead, EvaluateRead, Decide

\* A step of a call that goes on, or returns, with what it has.
LEMMA WorkFlows ==
  ASSUME IInv, Flow, NEW p \in Proc, pc[p] \notin {"idle", "add"}, Rests(p), WorkOf(p)', job' = job,
         p \in Slot => UNCHANGED <<at, win, try>>,
         \A d \in Deployment : Unstarted(d)' => Unstarted(d),
         \A d \in Deployment : Left(d) => Left(d)',
         \A d \in Deployment : Watched(d)' => Watched(d),
         p \in Slot /\ pc'[p] = "end" => \A d \in Deployment : Watched(d)' => at[p] # d
  PROVE  Flow'
BY FlowRest

LEMMA LeaveRests ==
  ASSUME IInv, NEW p \in Proc, Leave(p)
  PROVE  /\ Rests(p) /\ pc'[p] \in {"idle", "end"} /\ WorkOf(p)'
         /\ p \in Slot => UNCHANGED <<at, win, try>>
<1>1. CASE p \in Slot
  BY <1>1 DEF Leave, Goto, IInv, TypeOK, Rests, OthersRest, localVars, WorkOf
<1>2. CASE p \notin Slot
  BY <1>2 DEF Leave, Goto, Forget, IInv, TypeOK, Rests, OthersRest, WorkOf
<1> QED  BY <1>1, <1>2

LEMMA LoadFlows == ASSUME IInv, Flow, NEW k \in Slot, LoadDeployment(k) PROVE Flow'
<1> USE DEF LoadDeployment, Goto, deploymentVars, historyVars
<1>1. k \in Proc /\ at[k] \in Deployment
  BY HeldBy
<1>2. /\ Rests(k) /\ at'[k] = at[k]
      /\ pc'[k] = (IF status[at[k]] = "ACTIVE" THEN "gate" ELSE "end")
  BY <1>1 DEF IInv, TypeOK, Rests, OthersRest
<1>3. WorkOf(k)'
  <2>1. PICK d \in Deployment : d = at[k]
    BY <1>1
  <2>2. at'[k] = d /\ pc'[k] = (IF status[d] = "ACTIVE" THEN "gate" ELSE "end") /\ status' = status
    BY <1>2, <2>1
  <2> QED  BY <2>2 DEF WorkOf, Unstarted
<1>4. \A d \in Deployment :
        (Unstarted(d)' => Unstarted(d)) /\ (Left(d) => Left(d)') /\ (Watched(d)' => Watched(d))
  BY DEF Unstarted, Left, Watched
<1>5. pc'[k] = "end" => \A d \in Deployment : Watched(d)' => at[k] # d
  BY <1>2 DEF Watched
<1> QED  BY <1>1, <1>2, <1>3, <1>4, <1>5, WorkFlows

LEMMA RecordGateFlows ==
  ASSUME IInv, Flow, NEW p \in Proc, NEW v \in Verdicts, RecordGate(p, v)
  PROVE  Flow'
<1> USE DEF RecordGate, Goto, deploymentVars
<1>1. at[p] \in Deployment /\ WorkOf(p)
  BY DEF IInv, LocalInv, LocalOf, Flow, WorkInv
<1>2. PICK d \in Deployment : d = at[p]
  BY <1>1
<1>3. Rests(p) /\ pc'[p] = Decision(p, v) /\ at'[p] = d
  BY <1>2 DEF IInv, TypeOK, Rests, OthersRest
<1>4. /\ Decision(p, v) \in {"rollback", "pause", "promote", "advance", "end", "add"}
      /\ Decision(p, v) = "end" => v = "WARN"
  BY CanaryAssumption DEF Decision
<1>5. WorkOf(p)'
  <2>1. ~Unstarted(d)'
    BY <1>1, <1>2 DEF WorkOf, Unstarted
  <2>2. ~(pc[p] \in {"recordPromote", "recordRollback"})'
    BY <1>3, <1>4
  <2> QED  BY <1>3, <2>1, <2>2 DEF WorkOf, Unstarted
<1>6. \A e \in Deployment : (Unstarted(e)' => Unstarted(e)) /\ (Left(e) => Left(e)')
  BY DEF Unstarted, Left
<1>7. \A e \in Deployment :
        gates'[e] = passes'[e] => gates[e] = passes[e] /\ (e = d => v = "PASS")
  <2> SUFFICES ASSUME NEW e \in Deployment, gates'[e] = passes'[e]
               PROVE  gates[e] = passes[e] /\ (e = d => v = "PASS")
    OBVIOUS
  <2>1. gates[e] \in Nat /\ passes[e] \in Nat /\ passes[e] <= gates[e]
    BY CanaryAssumption DEF IInv, TypeOK, SnapshotInv
  <2>2. /\ gates'[e] = IF e = d THEN gates[e] + 1 ELSE gates[e]
        /\ passes'[e] = IF e = d /\ v = "PASS" THEN passes[e] + 1 ELSE passes[e]
    BY <1>2 DEF IInv, TypeOK
  <2> QED  BY <2>1, <2>2
<1>8. \A e \in Deployment : Watched(e)' => Watched(e) /\ (e = d => v = "PASS")
  BY <1>7 DEF Watched
<1>9. pc'[p] = "end" => \A e \in Deployment : Watched(e)' => at[p] # e
  BY <1>2, <1>3, <1>4, <1>8
<1> QED  BY <1>3, <1>5, <1>6, <1>8, <1>9, WorkFlows

\* A decision, or a pause: the deployment is Left.
LEMMA LeavingFlows ==
  ASSUME IInv, Flow, NEW p \in Proc, NEW d \in Deployment, d = at[p],
         pc[p] \in {"pause", "promote", "rollback"}, Rests(p), job' = job,
         NEW s \in {"PAUSED", "PROMOTED", "ROLLED_BACK"}, status' = [status EXCEPT ![d] = s],
         UNCHANGED <<gates, passes, revived>>,
         pc'[p] \in {"idle", "end", "recordPromote", "recordRollback"}, 
         pc'[p] \in {"recordPromote", "recordRollback"} => at'[p] = at[p],
         p \in Slot => UNCHANGED <<at, win, try>>
  PROVE  Flow'
<1>1. \A e \in Deployment : status'[e] = IF e = d THEN s ELSE status[e]
  BY DEF IInv, TypeOK
<1>2. \A e \in Deployment : Unstarted(e)' => Unstarted(e)
  BY <1>1 DEF Unstarted
<1>3. \A e \in Deployment : Left(e) => Left(e)'
  BY <1>1 DEF Left
<1>4. \A e \in Deployment : Watched(e)' => Watched(e) /\ e # d
  BY <1>1 DEF Watched
<1>5. WorkOf(p)'
  <2>1. Left(d)'
    BY <1>1 DEF Left
  <2>2. pc'[p] \in {"recordPromote", "recordRollback"} => at'[p] = d
    OBVIOUS
  <2> QED  BY <2>1, <2>2 DEF WorkOf, Left
<1> QED  BY <1>2, <1>3, <1>4, <1>5, WorkFlows

LEMMA DecisionFlows ==
  ASSUME IInv, Flow, NEW p \in Proc, Pause(p) \/ Promote(p) \/ Rollback(p)
  PROVE  Flow'
<1> USE DEF historyVars
<1>1. at[p] \in Deployment
  BY DEF IInv, LocalInv, LocalOf, Pause, Promote, Rollback
<1>2. PICK d \in Deployment : d = at[p]
  BY <1>1
<1>3. CASE Pause(p)
  <2>1. Rests(p) /\ pc'[p] \in {"idle", "end"} /\ (p \in Slot => UNCHANGED <<at, win, try>>)
    BY <1>3, LeaveRests DEF Pause
  <2> QED  BY <1>2, <1>3, <2>1, LeavingFlows DEF Pause
<1>4. CASE Promote(p)
  <2>1. Rests(p) /\ pc'[p] = "recordPromote" /\ UNCHANGED <<at, win, try>>
    BY <1>4 DEF Promote, Goto, localVars, IInv, TypeOK, Rests, OthersRest
  <2> QED  BY <1>2, <1>4, <2>1, LeavingFlows DEF Promote
<1>5. CASE Rollback(p)
  <2>1. Rests(p) /\ pc'[p] = "recordRollback" /\ UNCHANGED <<at, win, try>>
    BY <1>5 DEF Rollback, Goto, localVars, IInv, TypeOK, Rests, OthersRest
  <2> QED  BY <1>2, <1>5, <2>1, LeavingFlows DEF Rollback
<1> QED  BY <1>3, <1>4, <1>5

LEMMA AdvanceFlows == ASSUME IInv, Flow, NEW p \in Proc, Advance(p) PROVE Flow'
<1> USE DEF Advance, Goto, historyVars, localVars
<1>1. at[p] \in Deployment /\ WorkOf(p)
  BY DEF IInv, LocalInv, LocalOf, Flow, WorkInv
<1>2. Rests(p) /\ pc'[p] = "add" /\ at' = at
  BY DEF IInv, TypeOK, Rests, OthersRest
<1>3. WorkOf(p)'
  BY <1>1, <1>2 DEF WorkOf, Unstarted
<1>4. \A d \in Deployment :
        (Unstarted(d)' => Unstarted(d)) /\ (Left(d) => Left(d)') /\ (Watched(d)' => Watched(d))
  BY DEF Unstarted, Left, Watched
<1> QED  BY <1>2, <1>3, <1>4, WorkFlows

LEMMA RefuseFlows == ASSUME IInv, Flow, NEW p \in Proc, Refuse(p) PROVE Flow'
<1> USE DEF Refuse, deploymentVars, historyVars
<1>1. p \notin Slot
  BY DEF MayDecide
<1>2. \A d \in Deployment :
        (Unstarted(d)' => Unstarted(d)) /\ (Left(d) => Left(d)') /\ (Watched(d)' => Watched(d))
  BY DEF Unstarted, Left, Watched
<1> QED  BY <1>1, <1>2, LeaveRests, WorkFlows

LEMMA RecordPromotionFlows == ASSUME IInv, Flow, NEW p \in Proc, RecordPromotion(p) PROVE Flow'
<1> USE DEF RecordPromotion, deploymentVars, historyVars
<1>1. at[p] \in Deployment /\ Left(at[p])
  BY DEF IInv, LocalInv, LocalOf, Flow, WorkInv, WorkOf
<1>2. PICK d \in Deployment : d = at[p]
  BY <1>1
<1>3. Left(d)
  BY <1>1, <1>2
<1>4. \A e \in Deployment :
        (Unstarted(e)' => Unstarted(e)) /\ (Left(e) => Left(e)') /\ (Watched(e)' => Watched(e))
  BY DEF Unstarted, Left, Watched
<1>5. \A e \in Deployment : Watched(e)' => at[p] # e
  BY <1>2, <1>3 DEF Left, Watched
<1> QED  BY <1>4, <1>5, LeaveRests, WorkFlows

LEMMA StartWriteFlows == ASSUME IInv, Flow, NEW p \in Proc, StartWrite(p) PROVE Flow'
<1> USE DEF StartWrite, Goto, localVars
<1>1. at[p] \in Deployment /\ win[p] = 0 /\ p \notin Slot
  BY CanaryAssumption DEF IInv, LocalInv, LocalOf
<1>2. PICK d \in Deployment : d = at[p]
  BY <1>1
<1>3. Rests(p) /\ pc'[p] = "add" /\ at' = at /\ win' = win
  BY DEF IInv, TypeOK, Rests, OthersRest
<1>4. \A e \in Deployment : status'[e] = IF e = d THEN "ACTIVE" ELSE status[e]
  BY <1>2 DEF IInv, TypeOK
<1>5. WorkOf(p)'
  <2>1. at'[p] = d /\ ~Unstarted(d)'
    BY <1>2, <1>3, <1>4 DEF Unstarted
  <2> QED  BY <1>3, <2>1 DEF WorkOf, Unstarted
<1>6. \A e \in Deployment : Unstarted(e)' => Unstarted(e)
  BY <1>4 DEF Unstarted
<1>7. \A e \in Deployment : Left(e) => Left(e)'
  <2>1. Left(d) => Left(d)'
    BY <1>2 DEF Left
  <2>2. \A e \in Deployment \ {d} : Left(e) => Left(e)'
    BY <1>2, <1>4 DEF Left
  <2> QED  BY <2>1, <2>2
<1>8. \A e \in Deployment : Watched(e)' => Watched(e) \/ (e = d /\ status[d] = "PENDING")
  <2>1. Watched(d)' => status[d] \in {"PENDING", "ACTIVE"} /\ d \notin revived
    BY <1>2 DEF Watched
  <2> QED  BY <1>2, <1>4, <2>1 DEF Watched
<1>9. \A k \in Slot, e \in Deployment, w \in Window, t \in Try :
        Holds(k, e, w, t)' => Holds(k, e, w, t) /\ (pc'[k] = "end" => pc[k] = "end")
  BY <1>1, <1>3, HoldersRest DEF Rests, OthersRest, Proc
<1>10. UntouchedInv' /\ RetryInv'
  BY <1>6 DEF Flow, UntouchedInv, RetryInv
<1>11. WorkInv'
  BY <1>3, <1>5, <1>6, <1>7, WorkRest DEF Flow
<1>12. HoldInv' /\ AloneInv'
  BY <1>9, HoldRest DEF Flow
<1>13. status[d] = "PENDING" =>
         \A w \in Window, t \in Try : job[d][w][t] = "none" /\ ~Done(d, w, t)
  <2> SUFFICES ASSUME status[d] = "PENDING", NEW w \in Window, NEW t \in Try
               PROVE  job[d][w][t] = "none" /\ ~Done(d, w, t)
    OBVIOUS
  <2>1. job[d][w][t] = "none"
    BY DEF Flow, UntouchedInv, Unstarted
  <2> QED  BY <2>1 DEF Flow, HoldInv, Done
<1>14. FollowedInv'
  <2> SUFFICES ASSUME NEW e \in Deployment, NEW w \in Window, NEW t \in Try,
                      Watched(e)', Done(e, w, t)'
               PROVE  Followed(e, w, t)'
    BY DEF FollowedInv
  <2>1. Done(e, w, t)
    BY <1>9 DEF Done
  <2>2. Followed(e, w, t)
    BY <1>8, <1>13, <2>1 DEF Flow, FollowedInv
  <2> QED  BY <2>2, FollowedStays DEF Alive
<1>15. ChainInv'
  <2> SUFFICES ASSUME NEW e \in Deployment, Watched(e)' PROVE Chained(e)'
    BY DEF ChainInv
  <2>1. CASE Watched(e)
    <3>1. Chained(e)
      BY <2>1 DEF Flow, ChainInv
    <3>2. \A q \in Proc : Adding(q, e) => Adding(q, e)'
      BY <1>3, AddingRests DEF Adding
    <3> QED  BY <3>1, <3>2, ChainStays
  <2>2. CASE e = d /\ status[d] = "PENDING"
    <3>1. Adding(p, d)'
      BY <1>1, <1>2, <1>3 DEF Adding
    <3>2. \A w \in Window : job'[d][w][0] = "none"
      BY <1>13, <2>2, TryFacts
    <3> QED  BY <2>2, <3>1, <3>2 DEF Chained, Starting
  <2> QED  BY <1>8, <2>1, <2>2
<1> QED  BY <1>10, <1>11, <1>12, <1>14, <1>15 DEF Flow

LEMMA AddJobFlows ==
  ASSUME IInv, Flow, NEW p \in Proc, AddJob(p), faults' = faults
  PROVE  Flow'
<1> USE DEF deploymentVars, historyVars
<1>1. at[p] \in Deployment /\ win[p] + 1 \in Window /\ win[p] \in Nat /\ WorkOf(p)
  <2>1. LocalOf(p) /\ win[p] \in 0 .. MaxWindow /\ pc[p] = "add"
    BY DEF IInv, TypeOK, LocalInv, AddJob
  <2> QED  BY <2>1, CanaryAssumption DEF LocalOf, Window, Flow, WorkInv
<1>2. PICK d \in Deployment, w \in Window : d = at[p] /\ w = win[p] + 1
  BY <1>1
<1>3. /\ Rests(p) /\ WorkOf(p)' /\ pc'[p] \in {"idle", "end"}
      /\ p \in Slot => UNCHANGED <<at, win, try>>
  BY LeaveRests DEF AddJob
<1>4. /\ job'[d][w][0] = IF job[d][w][0] = "none" THEN "delayed" ELSE job[d][w][0]
      /\ \A e \in Deployment, v \in Window, u \in Try :
           e # d \/ v # w \/ u # 0 => job'[e][v][u] = job[e][v][u]
  <2>1. faults \in Nat
    BY CanaryAssumption DEF IInv, TypeOK
  <2>2. job' = [job EXCEPT ![d][w][0] = IF @ = "none" THEN "delayed" ELSE @]
    BY <1>2, <2>1 DEF AddJob
  <2>3. job[d][w][0] \in JobState /\ "delayed" \in JobState
    BY TryFacts DEF IInv, TypeOK, JobState
  <2>4. PICK s \in JobState : s = IF job[d][w][0] = "none" THEN "delayed" ELSE job[d][w][0]
    BY <2>3
  <2>5. job' = [job EXCEPT ![d][w][0] = s]
    BY <2>2, <2>4
  <2>6. /\ job'[d][w][0] = s
        /\ \A e \in Deployment, v \in Window, u \in Try :
             e # d \/ v # w \/ u # 0 => job'[e][v][u] = job[e][v][u]
    <3>1. TypeOK /\ 0 \in Try
      BY TryFacts DEF IInv
    <3> QED  BY <2>5, <3>1 DEF TypeOK
  <2> QED  BY <2>4, <2>6
<1>5. \A e \in Deployment, v \in Window, u \in Try :
        /\ job[e][v][u] # "none" => job'[e][v][u] = job[e][v][u]
        /\ job'[e][v][u] = "completed" => job[e][v][u] = "completed"
        /\ u # 0 => job'[e][v][u] = job[e][v][u]
        /\ e # d => job'[e][v][u] = job[e][v][u]
  BY <1>4
<1>6. job'[d][w][0] # "none"
  BY <1>4
<1>7. \A e \in Deployment :
        /\ Unstarted(e)' <=> Unstarted(e)
        /\ Left(e) <=> Left(e)'
        /\ Watched(e)' <=> Watched(e)
  BY DEF AddJob, Unstarted, Left, Watched
<1>8. ~Unstarted(d)
  BY <1>1, <1>2 DEF AddJob, WorkOf
<1>9. \A k \in Slot, e \in Deployment, v \in Window, u \in Try :
        Holds(k, e, v, u)' => Holds(k, e, v, u)
  BY <1>3, HoldersRest DEF AddJob
<1>10. UntouchedInv'
  BY <1>5, <1>7, <1>8 DEF Flow, UntouchedInv
<1>11. RetryInv'
  <2> SUFFICES ASSUME NEW e \in Deployment, NEW v \in Window, NEW t \in Try, NEW u \in Try \ {0},
                      u < t, job'[e][v][t] # "none"
               PROVE  job'[e][v][u] # "none"
    BY DEF RetryInv
  <2>1. t # 0
    BY TryFacts
  <2>2. job[e][v][t] # "none"
    BY <1>5, <2>1
  <2> QED  BY <1>5, <2>2 DEF Flow, RetryInv
<1>12. WorkInv'
  BY <1>3, <1>7, WorkRest DEF Flow
<1>13. HoldInv' /\ AloneInv'
  BY <1>5, <1>9, HoldRest DEF Flow
<1>14. FollowedInv'
  <2> SUFFICES ASSUME NEW e \in Deployment, NEW v \in Window, NEW t \in Try,
                      Watched(e), Done(e, v, t)'
               PROVE  Followed(e, v, t)'
    BY <1>7 DEF FollowedInv
  <2>1. CASE Done(e, v, t)
    <3>1. Followed(e, v, t)
      BY <2>1 DEF Flow, FollowedInv
    <3>2. \A u \in Try : Alive(e, v, u) => Alive(e, v, u)'
      BY <1>5 DEF Alive
    <3> QED  BY <1>5, <3>1, <3>2, FollowedStays, TryFacts
  <2>2. CASE ~Done(e, v, t)
    <3>1. PICK k \in Slot : pc'[k] = "end" /\ Holds(k, e, v, t)'
      BY <1>5, <2>2 DEF Done
    <3>2. k = p
      BY <1>3, <1>9, <2>2, <3>1 DEF Done, Rests, OthersRest, Proc
    <3>3. e = d /\ v + 1 = w
      BY <1>2, <1>9, <3>1, <3>2 DEF Holds
    <3> QED  BY <1>6, <3>3 DEF Followed
  <2> QED  BY <2>1, <2>2
<1>15. ChainInv'
  <2> SUFFICES ASSUME NEW e \in Deployment, Watched(e) PROVE Chained(e)'
    BY <1>7 DEF ChainInv
  <2>1. Chained(e)
    BY DEF Flow, ChainInv
  <2>2. CASE e # d
    <3>1. ~Adding(p, e)
      BY <1>2, <2>2 DEF Adding
    <3> QED  BY <1>3, <1>5, <2>1, <2>2, <3>1, AddingRests, ChainStays, TryFacts
  <2>3. CASE e = d /\ Starting(d)
    <3>1. LastWindow(d, w)'
      BY <1>4, <1>6, <2>3, TryFacts DEF Starting, LastWindow
    <3> QED  BY <2>3, <3>1 DEF Chained
  <2>4. CASE e = d /\ \E v \in Window : LastWindow(d, v)
    <3>1. PICK v \in Window : LastWindow(d, v)
      BY <2>4
    <3>2. v \in Nat /\ w \in Nat
      BY TryFacts
    <3>3. CASE v < w
      <4>1. LastWindow(d, w)'
        BY <1>4, <1>6, <3>1, <3>2, <3>3, TryFacts DEF LastWindow
      <4> QED  BY <2>4, <4>1 DEF Chained
    <3>4. CASE ~(v < w)
      <4>1. LastWindow(d, v)'
        BY <1>4, <1>5, <3>1, <3>2, <3>4, TryFacts DEF LastWindow
      <4> QED  BY <2>4, <4>1 DEF Chained
    <3> QED  BY <3>3, <3>4
  <2> QED  BY <2>1, <2>2, <2>3, <2>4 DEF Chained
<1> QED  BY <1>10, <1>11, <1>12, <1>13, <1>14, <1>15 DEF Flow

\* A slot takes a job, defers its window or ends its job: the deployments rest,
\* and no id is forgotten.
LEMMA SlotFlows ==
  ASSUME IInv, Flow, NEW k \in Slot, Rests(k), WorkOf(k)', pc[k] # "add",
         UNCHANGED <<status, gates, passes, revived>>,
         \A d \in Deployment, w \in Window : job'[d][w][0] = "none" <=> job[d][w][0] = "none",
         UntouchedInv', HoldInv' /\ AloneInv', RetryInv', FollowedInv'
  PROVE  Flow'
<1>1. \A d \in Deployment :
        /\ Unstarted(d)' => Unstarted(d)
        /\ Left(d) => Left(d)'
        /\ Watched(d)' => Watched(d)
  BY DEF Unstarted, Left, Watched
<1>2. k \in Proc
  BY DEF Proc
<1>3. WorkInv'
  BY <1>1, <1>2, WorkRest DEF Flow
<1>4. ChainInv'
  <2> SUFFICES ASSUME NEW d \in Deployment, Watched(d)' PROVE Chained(d)'
    BY DEF ChainInv
  <2>1. Chained(d)
    BY <1>1 DEF Flow, ChainInv
  <2>2. ~Adding(k, d)
    BY DEF Adding
  <2> QED  BY <1>2, <2>1, <2>2, AddingRests, ChainStays
<1> QED  BY <1>3, <1>4 DEF Flow

LEMMA TakeJobFlows ==
  ASSUME IInv, Flow, NEW k \in Slot, NEW d \in Deployment, NEW w \in Window, NEW t \in Try,
         TakeJob(k, d, w, t)
  PROVE  Flow'
<1> USE DEF TakeJob, Goto, deploymentVars, historyVars
<1>1. k \in Proc /\ Rests(k) /\ pc'[k] = "load" /\ at'[k] = d /\ win'[k] = w /\ try'[k] = t
  BY DEF IInv, TypeOK, Rests, OthersRest, Proc
<1>2. /\ job'[d][w][t] = "active"
      /\ \A e \in Deployment, v \in Window, u \in Try :
           e # d \/ v # w \/ u # t => job'[e][v][u] = job[e][v][u]
  BY JobAfter DEF IInv, JobState
<1>3. \A e \in Deployment, v \in Window, u \in Try :
        /\ job'[e][v][u] = "none" <=> job[e][v][u] = "none"
        /\ job'[e][v][u] = "completed" <=> job[e][v][u] = "completed"
        /\ Alive(e, v, u) => Alive(e, v, u)'
        /\ job[e][v][u] = "active" => job'[e][v][u] = "active"
  BY <1>2 DEF Alive
<1>4. \A l \in Slot, e \in Deployment, v \in Window, u \in Try :
        Holds(l, e, v, u)' =>
          IF l = k THEN e = d /\ v = w /\ u = t ELSE Holds(l, e, v, u) /\ pc'[l] = pc[l]
  BY <1>1 DEF Holds, Rests, OthersRest, Proc
<1>5. WorkOf(k)'
  BY <1>1 DEF WorkOf
<1>6. UntouchedInv' /\ RetryInv'
  BY <1>3 DEF Flow, UntouchedInv, RetryInv, Unstarted
<1>7. HoldInv'
  BY <1>2, <1>3, <1>4 DEF Flow, HoldInv
<1>8. AloneInv'
  <2>1. \A l \in Slot : ~Holds(l, d, w, t)
    BY DEF Flow, HoldInv
  <2> QED  BY <1>4, <2>1 DEF Flow, AloneInv
<1>9. FollowedInv'
  <2> SUFFICES ASSUME NEW e \in Deployment, NEW v \in Window, NEW u \in Try,
                      Watched(e), Done(e, v, u)'
               PROVE  Followed(e, v, u)'
    BY DEF FollowedInv, Watched
  <2>1. Done(e, v, u)
    BY <1>1, <1>3, <1>4 DEF Done
  <2>2. Followed(e, v, u)
    BY <2>1 DEF Flow, FollowedInv
  <2> QED  BY <1>3, <2>2, FollowedStays, TryFacts
<1> QED  BY <1>1, <1>3, <1>5, <1>6, <1>7, <1>8, <1>9, SlotFlows, TryFacts

LEMMA DeferFlows == ASSUME IInv, Flow, NEW k \in Slot, Defer(k) PROVE Flow'
<1> USE DEF Goto, deploymentVars, historyVars, localVars
<1>1. /\ k \in Proc /\ at[k] \in Deployment /\ win[k] \in Window /\ try[k] \in Try
      /\ Holds(k, at[k], win[k], try[k])
  BY HeldBy DEF Defer
<1>2. PICK d \in Deployment, w \in Window, r \in Try : d = at[k] /\ w = win[k] /\ r = try[k]
  BY <1>1
<1>3. PICK t \in Try \ {0} :
        /\ job[d][w][t] = "none"
        /\ \A u \in Try \ {0} : job[d][w][u] = "none" => t <= u
        /\ job' = [job EXCEPT ![d][w][t] = "delayed"]
  BY <1>2 DEF Defer
<1>4. /\ job'[d][w][t] = "delayed"
      /\ \A e \in Deployment, v \in Window, u \in Try :
           e # d \/ v # w \/ u # t => job'[e][v][u] = job[e][v][u]
  BY <1>3, JobAfter DEF IInv, JobState
<1>5. \A e \in Deployment, v \in Window, u \in Try :
        /\ job[e][v][u] # "none" => job'[e][v][u] = job[e][v][u]
        /\ job'[e][v][u] = "completed" => job[e][v][u] = "completed"
        /\ Alive(e, v, u) => Alive(e, v, u)'
  BY <1>3, <1>4 DEF Alive
<1>6. Rests(k) /\ pc'[k] = "end" /\ WorkOf(k)' /\ UNCHANGED <<at, win, try>>
  BY <1>1 DEF Defer, IInv, TypeOK, Rests, OthersRest, WorkOf
<1>7. \A l \in Slot, e \in Deployment, v \in Window, u \in Try :
        Holds(l, e, v, u)' => Holds(l, e, v, u)
  BY <1>1, <1>6, HoldersRest DEF Defer
<1>8. job[d][w][r] = "active"
  BY <1>1, <1>2 DEF Flow, HoldInv
<1>9. t \in Nat /\ r \in Nat
  BY TryFacts
<1>10. t > r
  <2>1. CASE r = 0
    BY <1>9, <2>1
  <2>2. CASE r # 0
    BY <1>3, <1>8, <1>9, <2>2 DEF Flow, RetryInv
  <2> QED  BY <2>1, <2>2
<1>11. UntouchedInv'
  <2>1. ~Unstarted(d)
    BY <1>8 DEF Flow, UntouchedInv
  <2> QED  BY <1>4, <2>1 DEF Defer, Flow, UntouchedInv, Unstarted
<1>12. RetryInv'
  <2> SUFFICES ASSUME NEW e \in Deployment, NEW v \in Window, NEW x \in Try, NEW u \in Try \ {0},
                      u < x, job'[e][v][x] # "none"
               PROVE  job'[e][v][u] # "none"
    BY DEF RetryInv
  <2>1. CASE job[e][v][x] # "none"
    BY <1>5, <2>1 DEF Flow, RetryInv
  <2>2. CASE job[e][v][x] = "none"
    <3>1. e = d /\ v = w /\ x = t /\ u \in Nat
      BY <1>4, <2>2, TryFacts
    <3>2. job[d][w][u] # "none"
      BY <1>3, <1>9, <3>1
    <3> QED  BY <1>5, <3>1, <3>2
  <2> QED  BY <2>1, <2>2
<1>13. HoldInv' /\ AloneInv'
  BY <1>5, <1>7, HoldRest DEF Flow
<1>14. FollowedInv'
  <2> SUFFICES ASSUME NEW e \in Deployment, NEW v \in Window, NEW u \in Try,
                      Watched(e), Done(e, v, u)'
               PROVE  Followed(e, v, u)'
    BY DEF FollowedInv, Watched, Defer
  <2>1. CASE Done(e, v, u)
    <3>1. Followed(e, v, u)
      BY <2>1 DEF Flow, FollowedInv
    <3> QED  BY <1>5, <3>1, FollowedStays, TryFacts
  <2>2. CASE ~Done(e, v, u)
    <3>1. PICK l \in Slot : pc'[l] = "end" /\ Holds(l, e, v, u)'
      BY <1>5, <2>2 DEF Done
    <3>2. l = k
      BY <1>6, <1>7, <2>2, <3>1 DEF Done, Rests, OthersRest, Proc
    <3>3. e = d /\ v = w /\ u = r
      BY <1>2, <1>7, <3>1, <3>2 DEF Holds
    <3> QED  BY <1>4, <1>10, <3>3 DEF Followed, Alive
  <2> QED  BY <2>1, <2>2
<1>15. \A e \in Deployment, v \in Window : job'[e][v][0] = job[e][v][0]
  BY <1>4, TryFacts
<1> QED  BY <1>6, <1>11, <1>12, <1>13, <1>14, <1>15, SlotFlows DEF Defer

LEMMA EndJobFlows == ASSUME IInv, Flow, NEW k \in Slot, EndJob(k) PROVE Flow'
<1> USE DEF Goto, deploymentVars, historyVars
<1>1. /\ k \in Proc /\ at[k] \in Deployment /\ win[k] \in Window /\ try[k] \in Try
      /\ Holds(k, at[k], win[k], try[k]) /\ pc[k] = "end"
  BY HeldBy DEF EndJob
<1>2. PICK d \in Deployment, w \in Window, t \in Try : d = at[k] /\ w = win[k] /\ t = try[k]
  BY <1>1
<1>3. /\ job'[d][w][t] = "completed"
      /\ \A e \in Deployment, v \in Window, u \in Try :
           e # d \/ v # w \/ u # t => job'[e][v][u] = job[e][v][u]
  <2>1. job' = [job EXCEPT ![d][w][t] = "completed"] /\ "completed" \in JobState
    BY <1>2 DEF EndJob, JobState
  <2>2. TypeOK
    BY DEF IInv
  <2> QED  BY <2>1, <2>2 DEF TypeOK
<1>4. job[d][w][t] = "active" /\ Done(d, w, t)
  BY <1>1, <1>2 DEF Flow, HoldInv, Done
<1>5. \A e \in Deployment, v \in Window, u \in Try :
        job'[e][v][u] = "none" <=> job[e][v][u] = "none"
  BY <1>3, <1>4
<1>6. Rests(k) /\ pc'[k] = "idle" /\ WorkOf(k)'
  BY <1>1 DEF EndJob, Forget, IInv, TypeOK, Rests, OthersRest, WorkOf
<1>7. \A l \in Slot, e \in Deployment, v \in Window, u \in Try :
        Holds(l, e, v, u)' => l # k /\ Holds(l, e, v, u) /\ pc'[l] = pc[l]
  BY <1>6 DEF Holds, Rests, OthersRest, Proc
<1>8. UntouchedInv' /\ RetryInv'
  BY <1>5 DEF EndJob, Flow, UntouchedInv, RetryInv, Unstarted
<1>9. HoldInv' /\ AloneInv'
  <2>1. ASSUME NEW l \in Slot, NEW e \in Deployment, NEW v \in Window, NEW u \in Try,
               Holds(l, e, v, u)', job[e][v][u] = "active"
        PROVE  job'[e][v][u] = "active"
    <3>1. Holds(l, e, v, u) /\ l # k
      BY <1>7, <2>1
    <3>2. ~(e = d /\ v = w /\ u = t)
      BY <1>1, <1>2, <3>1 DEF Flow, AloneInv
    <3> QED  BY <1>3, <2>1, <3>2
  <2> QED  BY <1>7, <2>1, HoldRest DEF Flow
<1>10. FollowedInv'
  <2> SUFFICES ASSUME NEW e \in Deployment, NEW v \in Window, NEW u \in Try,
                      Watched(e), Done(e, v, u)'
               PROVE  Followed(e, v, u)'
    BY DEF FollowedInv, Watched, EndJob
  <2>1. Done(e, v, u)
    BY <1>3, <1>4, <1>7 DEF Done
  <2>2. Followed(e, v, u)
    BY <2>1 DEF Flow, FollowedInv
  <2>3. CASE v + 1 \in Window /\ job[e][v + 1][0] # "none"
    BY <1>5, <2>3, TryFacts DEF Followed
  <2>4. ASSUME NEW x \in Try, x > u, Alive(e, v, x)
        PROVE  Followed(e, v, u)'
    <3>1. CASE e # d \/ v # w \/ x # t
      BY <1>3, <2>4, <3>1 DEF Followed, Alive
    <3>2. CASE e = d /\ v = w /\ x = t
      <4>1. Followed(d, w, t)
        BY <1>4, <3>2 DEF Flow, FollowedInv
      <4>2. CASE w + 1 \in Window /\ job[d][w + 1][0] # "none"
        BY <1>5, <3>2, <4>2, TryFacts DEF Followed
      <4>3. ASSUME NEW y \in Try, y > t, Alive(d, w, y)
            PROVE  Followed(e, v, u)'
        <5>1. y > u /\ y # t
          BY <2>4, <3>2, <4>3, TryFacts
        <5> QED  BY <1>3, <3>2, <4>3, <5>1 DEF Followed, Alive
      <4> QED  BY <4>1, <4>2, <4>3 DEF Followed
    <3> QED  BY <3>1, <3>2
  <2> QED  BY <2>2, <2>3, <2>4 DEF Followed
<1> QED  BY <1>1, <1>5, <1>6, <1>8, <1>9, <1>10, SlotFlows, TryFacts DEF EndJob

-----------------------------------------------------------------------------

LEMMA FlowStarts == Init => FlowInv
<1> SUFFICES ASSUME Init PROVE Flow
  BY DEF FlowInv
<1>1. UntouchedInv /\ RetryInv
  BY DEF Init, UntouchedInv, RetryInv
<1>2. WorkInv /\ HoldInv /\ AloneInv
  BY DEF Init, WorkInv, WorkOf, HoldInv, AloneInv, Holds, Proc
<1>3. FollowedInv /\ ChainInv
  BY DEF Init, FollowedInv, ChainInv, Watched
<1> QED  BY <1>1, <1>2, <1>3 DEF Flow

LEMMA FlowStutters == ASSUME Flow, UNCHANGED vars PROVE Flow'
<1> USE DEF vars
<1>1. UntouchedInv' /\ WorkInv' /\ HoldInv' /\ AloneInv' /\ RetryInv'
  BY DEF Flow, UntouchedInv, WorkInv, HoldInv, AloneInv, RetryInv, Unstarted, WorkOf, Left, Holds
<1>2. \A d \in Deployment : Watched(d)' = Watched(d) /\ Chained(d)' = Chained(d)
  BY DEF Watched, Chained, Starting, Adding, LastWindow
<1>3. \A d \in Deployment, w \in Window, t \in Try :
        Done(d, w, t)' = Done(d, w, t) /\ Followed(d, w, t)' = Followed(d, w, t)
  BY DEF Done, Holds, Followed, Alive
<1> QED  BY <1>1, <1>2, <1>3 DEF Flow, FollowedInv, ChainInv

LEMMA FlowStep == IInv /\ FlowInv /\ [Next]_vars => FlowInv'
<1> SUFFICES ASSUME IInv, FlowInv, [Next]_vars, faults' = 0 PROVE Flow'
  BY DEF FlowInv
<1>1. ASSUME NEW p \in Proc, Crash(p) PROVE Flow'
  BY <1>1, CanaryAssumption DEF Crash, IInv, TypeOK
<1>2. ASSUME NEW p \in Proc, AddJob(p) PROVE Flow'
  <2>1. faults = 0
    BY <1>2, CanaryAssumption DEF AddJob, IInv, TypeOK
  <2> QED  BY <1>2, <2>1, AddJobFlows DEF FlowInv
<1>3. ASSUME NEW p \in Proc, Step(p), ~AddJob(p) PROVE Flow'
  <2>1. faults = 0
    BY <1>3 DEF Step, CreateInsert, StartWrite, Pause, Advance, RecordGate, Promote,
       Rollback, Refuse, RecordPromotion
  <2>2. Flow
    BY <2>1 DEF FlowInv
  <2> QED  BY <1>3, <2>2, CreateInsertFlows, StartWriteFlows, DecisionFlows, AdvanceFlows,
              RecordGateFlows, RefuseFlows, RecordPromotionFlows DEF Step
<1>4. ASSUME NEW k \in Slot, SlotStep(k) PROVE Flow'
  <2>1. Flow
    BY <1>4 DEF FlowInv, SlotStep, TakeJob, LoadDeployment, Defer, EndJob
  <2> QED  BY <1>4, <2>1, TakeJobFlows, LoadFlows, DeferFlows, EndJobFlows DEF SlotStep
<1>5. ASSUME NEW c \in Caller, Request(c) PROVE Flow'
  <2>1. Flow
    BY <1>5 DEF FlowInv, Request, CreateCheck, StartRead, EvaluateRead, Decide
  <2> QED  BY <1>5, <2>1, RequestFlows
<1>6. CASE UNCHANGED vars
  BY <1>6, FlowStutters DEF FlowInv, vars
<1> QED  BY <1>1, <1>2, <1>3, <1>4, <1>5, <1>6 DEF Next

\* The last window with a job has a job that is not done.
LEMMA FlowEvaluates == IInv /\ FlowInv => ActiveIsEvaluated
<1> SUFFICES ASSUME IInv, Flow, NEW d \in Deployment, Watched(d) PROVE Evaluating(d)
  BY DEF FlowInv, ActiveIsEvaluated, Watched
<1>1. CASE Starting(d)
  BY <1>1 DEF Starting, Adding, Evaluating
<1>2. ASSUME NEW w \in Window, LastWindow(d, w) PROVE Evaluating(d)
  <2>1. CASE Alive(d, w, 0)
    BY <2>1, TryFacts DEF Alive, Evaluating
  <2>2. CASE job[d][w][0] = "completed"
    <3>1. Followed(d, w, 0)
      BY <2>2, TryFacts DEF Flow, FollowedInv, Done
    <3>2. ~(w + 1 \in Window /\ job[d][w + 1][0] # "none")
      BY <1>2, TryFacts DEF LastWindow
    <3> QED  BY <3>1, <3>2 DEF Followed, Alive, Evaluating
  <2>3. job[d][w][0] \in JobState
    BY TryFacts DEF IInv, TypeOK
  <2> QED  BY <1>2, <2>1, <2>2, <2>3 DEF LastWindow, Alive, JobState
<1> QED  BY <1>1, <1>2 DEF Flow, ChainInv, Chained
-----------------------------------------------------------------------------

\* Deployments, their jobs and the processes that work on them stay within
\* their types; a window and a percentage never leave their range.
THEOREM TypeCorrect == Spec => []TypeOK
<1>1. IInv => TypeOK
  BY DEF IInv
<1> QED  BY CanaryStarts, CanaryStep, <1>1, PTL DEF Spec

\* The traffic of an ACTIVE canary is covered by the gates that passed, however
\* calls of evaluateGate and jobs of runCanaryEvaluator overlap, and none is
\* promoted by its gates before they led to the maximum.
THEOREM TrafficIsEarned == Spec => []TrafficEarned
<1>1. IInv => TrafficEarned
  BY DEF IInv
<1> QED  BY CanaryStarts, CanaryStep, <1>1, PTL DEF Spec

\* While nothing dies, every promotion and rollback has its VersionPromotion row
\* or a process that is about to write it.
THEOREM DecisionsAreRecorded == Spec => []DecisionIsRecorded
<1>1. IInv => DecisionIsRecorded
  BY DEF IInv
<1> QED  BY CanaryStarts, CanaryStep, <1>1, PTL DEF Spec

\* While nothing dies and every gate passed, an ACTIVE canary has a job waiting
\* or running, or a process at work on it, however often it was started while
\* PENDING and whichever windows are evaluated by hand.
THEOREM ActiveStaysEvaluated == Spec => []ActiveIsEvaluated
<1>1. Init => IInv /\ FlowInv
  BY CanaryStarts, FlowStarts
<1>2. IInv /\ FlowInv /\ [Next]_vars => (IInv /\ FlowInv)'
  BY CanaryStep, FlowStep
<1> QED  BY <1>1, <1>2, FlowEvaluates, PTL DEF Spec

=============================================================================
