------------------------------- MODULE Canary -------------------------------
(***************************************************************************)
(* Canary releases: the API's CanaryService, the delayed BullMQ queue of   *)
(* gate evaluations and the worker's runCanaryEvaluator.  A process is an  *)
(* API call in progress or a slot of the worker; each database or queue    *)
(* call of it is one step.  All deployments belong to one pack.            *)
(***************************************************************************)
EXTENDS Integers

CONSTANTS
  Deployment,     \* canary deployments that may be created
  Caller,         \* API calls in progress at a time
  Slot,           \* concurrent jobs of the canary worker (2 in main.ts)
  Verdicts,       \* the gate results that occur
  InitialTraffic, IncrementStep, MaxTraffic,   \* percentages of a deployment
  FullTraffic,    \* 100
  MaxWindow,      \* bound: windows evaluated
  MaxRetry,       \* bound: deferrals of one window (the code has no limit)
  MaxGates,       \* bound: gate results recorded for one deployment
  MaxFaults,      \* bound: worker deaths and failed queue.add calls
  None            \* no deployment

\* The percentages are not validated by create; the properties below are about
\* requests that make sense.  A job stalled once is always delivered again.
ASSUME CanaryAssumption ==
  /\ InitialTraffic \in Nat \ {0} /\ IncrementStep \in Nat \ {0}
  /\ MaxTraffic \in Nat /\ FullTraffic \in Nat
  /\ InitialTraffic <= MaxTraffic /\ MaxTraffic <= FullTraffic
  /\ MaxWindow \in Nat \ {0} /\ MaxRetry \in Nat /\ MaxGates \in Nat
  /\ MaxFaults \in 0 .. 1
  /\ Verdicts \subseteq {"PASS", "WARN", "FAIL"}
  /\ None \notin Deployment /\ Caller \cap Slot = {}

Proc == Caller \cup Slot
Window == 1 .. MaxWindow
Try == 0 .. MaxRetry      \* 0: canary-eval-<id>-w<n>; others: its -retry- jobs
Live == {"PENDING", "ACTIVE", "PAUSED"}
Terminal == {"PROMOTED", "ROLLED_BACK"}
Status == {"absent"} \cup Live \cup Terminal
JobState == {"none", "delayed", "active", "completed"}
Pc == {"idle", "insert", "start", "load", "gate", "promote", "rollback",
       "pause", "advance", "add", "recordPromote", "recordRollback", "end"}
Verdict == {"PASS", "WARN", "FAIL", "manual"}

VARIABLES
  status, traffic, window,  \* CanaryDeployment.status, currentTrafficPct, currentWindow
  auto,      \* CanaryDeployment.autoRollbackEnabled
  passes,    \* CanaryGate rows with result PASS
  gates,     \* CanaryGate rows with any result
  records,   \* actions of the VersionPromotion rows of the deployment
  job,       \* the canary queue: state of the job of each window and try
  pc, at,    \* where each process stands and the deployment it works on
  win, try,  \* the window it evaluates, and which job of the window it runs
  snap,      \* the currentTrafficPct it read
  verdict,   \* the gate result it computed, "manual" for promote and rollback
  byHand,    \* history: deployments an operator promoted
  revived,   \* history: deployments made ACTIVE again by a start that came late
  faults     \* faults so far

deploymentVars == <<status, traffic, window, auto>>
historyVars == <<passes, gates, byHand, revived>>
localVars == <<at, win, try, snap, verdict>>
vars == <<status, traffic, window, auto, passes, gates, records, job, pc, at,
          win, try, snap, verdict, byHand, revived, faults>>

TypeOK ==
  /\ status \in [Deployment -> Status]
  /\ traffic \in [Deployment -> 0 .. FullTraffic]
  /\ window \in [Deployment -> 0 .. MaxWindow]
  /\ auto \in [Deployment -> BOOLEAN]
  /\ passes \in [Deployment -> 0 .. MaxGates]
  /\ gates \in [Deployment -> 0 .. MaxGates]
  /\ records \in [Deployment -> SUBSET {"PROMOTE", "ROLLBACK"}]
  /\ job \in [Deployment -> [Window -> [Try -> JobState]]]
  /\ pc \in [Proc -> Pc]
  /\ at \in [Proc -> Deployment \cup {None}]
  /\ win \in [Proc -> 0 .. MaxWindow]
  /\ try \in [Proc -> Try]
  /\ snap \in [Proc -> 0 .. FullTraffic]
  /\ verdict \in [Proc -> Verdict]
  /\ byHand \in SUBSET Deployment /\ revived \in SUBSET Deployment
  /\ faults \in 0 .. MaxFaults

Init ==
  /\ status = [d \in Deployment |-> "absent"]
  /\ traffic = [d \in Deployment |-> 0]
  /\ window = [d \in Deployment |-> 0]
  /\ auto = [d \in Deployment |-> TRUE]
  /\ passes = [d \in Deployment |-> 0]
  /\ gates = [d \in Deployment |-> 0]
  /\ records = [d \in Deployment |-> {}]
  /\ job = [d \in Deployment |-> [w \in Window |-> [t \in Try |-> "none"]]]
  /\ pc = [p \in Proc |-> "idle"]
  /\ at = [p \in Proc |-> None]
  /\ win = [p \in Proc |-> 0]
  /\ try = [p \in Proc |-> 0]
  /\ snap = [p \in Proc |-> 0]
  /\ verdict = [p \in Proc |-> "manual"]
  /\ byHand = {} /\ revived = {}
  /\ faults = 0

\* A process that is done keeps none of its locals.
Forget(p) ==
  /\ at' = [at EXCEPT ![p] = None]
  /\ win' = [win EXCEPT ![p] = 0]
  /\ try' = [try EXCEPT ![p] = 0]
  /\ snap' = [snap EXCEPT ![p] = 0]
  /\ verdict' = [verdict EXCEPT ![p] = "manual"]

Goto(p, l) == pc' = [pc EXCEPT ![p] = l]

\* A call returns; a slot still has its job to end.
Leave(p) ==
  IF p \in Slot THEN Goto(p, "end") /\ UNCHANGED localVars
                ELSE Goto(p, "idle") /\ Forget(p)

-----------------------------------------------------------------------------
\* Mutated actions: plausible slips in the code, each of which some property
\* below must notice.  The specification uses none of them.

\* A warning counts as a pass.
DecisionWarnPasses(p, v) ==
  CASE v = "FAIL" -> IF auto[at[p]] THEN "rollback" ELSE "pause"
    [] OTHER -> IF snap[p] + IncrementStep >= MaxTraffic THEN "promote" ELSE "advance"

\* start forgets to schedule the first evaluation.
StartWriteUnscheduled(c) ==
  /\ pc[c] = "start"
  /\ status' = [status EXCEPT ![at[c]] = "ACTIVE"]
  /\ traffic' = [traffic EXCEPT ![at[c]] = InitialTraffic]
  /\ window' = [window EXCEPT ![at[c]] = 1]
  /\ Leave(c)
  /\ UNCHANGED <<auto, historyVars, records, job, faults>>

\* A window without enough executions is given up.
DeferGivesUp(k) ==
  /\ pc[k] = "gate"
  /\ Goto(k, "end")
  /\ UNCHANGED <<deploymentVars, historyVars, localVars, job, records, faults>>

\* The worker forgets the version history.
RollbackUnrecorded(p) ==
  /\ pc[p] = "rollback"
  /\ p \in Slot \/ status[at[p]] \in {"ACTIVE", "PAUSED"}
  /\ status' = [status EXCEPT ![at[p]] = "ROLLED_BACK"]
  /\ traffic' = [traffic EXCEPT ![at[p]] = 0]
  /\ Leave(p)
  /\ UNCHANGED <<window, auto, historyVars, records, job, faults>>

-----------------------------------------------------------------------------
\* CanaryService.create and .start

\* create: no live deployment of the pack was found ...
CreateCheck(c) ==
  /\ pc[c] = "idle"
  /\ \A d \in Deployment : status[d] \notin Live
  /\ Goto(c, "insert")
  /\ UNCHANGED <<deploymentVars, historyVars, localVars, records, job, faults>>

\* ... so one is inserted, PENDING, with its initial gate row.
CreateInsert(c, d) ==
  /\ pc[c] = "insert"
  /\ status[d] = "absent"
  /\ status' = [status EXCEPT ![d] = "PENDING"]
  /\ \E enabled \in BOOLEAN : auto' = [auto EXCEPT ![d] = enabled]
  /\ Leave(c)
  /\ UNCHANGED <<traffic, window, historyVars, records, job, faults>>

StartRead(c, d) ==
  /\ pc[c] = "idle"
  /\ status[d] = "PENDING"
  /\ Goto(c, "start")
  /\ at' = [at EXCEPT ![c] = d]
  /\ UNCHANGED <<deploymentVars, historyVars, win, try, snap, verdict, records, job, faults>>

\* The update names only the id: it is made whatever the status is by now.
StartWrite(c) ==
  /\ pc[c] = "start"
  /\ status' = [status EXCEPT ![at[c]] = "ACTIVE"]
  /\ traffic' = [traffic EXCEPT ![at[c]] = InitialTraffic]
  /\ window' = [window EXCEPT ![at[c]] = 1]
  /\ revived' = IF status[at[c]] \in {"PENDING", "ACTIVE"} THEN revived ELSE revived \cup {at[c]}
  /\ Goto(c, "add")
  /\ UNCHANGED <<auto, passes, gates, byHand, localVars, records, job, faults>>

\* queue.add of the next window's job: ignored when the queue has seen its id;
\* the call may fail.
AddJob(p) ==
  /\ pc[p] = "add"
  /\ \/ /\ job' = [job EXCEPT ![at[p]][win[p] + 1][0] = IF @ = "none" THEN "delayed" ELSE @]
        /\ UNCHANGED faults
     \/ /\ faults < MaxFaults
        /\ faults' = faults + 1
        /\ UNCHANGED job
  /\ Leave(p)
  /\ UNCHANGED <<deploymentVars, historyVars, records>>

-----------------------------------------------------------------------------
\* Gate evaluation: CanaryService.evaluateGate (a call names any window) and
\* runCanaryEvaluator (a job names its window).

EvaluateRead(c, d, w) ==
  /\ pc[c] = "idle"
  /\ status[d] = "ACTIVE"
  /\ Goto(c, "gate")
  /\ at' = [at EXCEPT ![c] = d]
  /\ win' = [win EXCEPT ![c] = w]
  /\ snap' = [snap EXCEPT ![c] = traffic[d]]
  /\ UNCHANGED <<deploymentVars, historyVars, try, verdict, records, job, faults>>

TakeJob(k, d, w, t) ==
  /\ pc[k] = "idle"
  /\ job[d][w][t] = "delayed"
  /\ job' = [job EXCEPT ![d][w][t] = "active"]
  /\ Goto(k, "load")
  /\ at' = [at EXCEPT ![k] = d]
  /\ win' = [win EXCEPT ![k] = w]
  /\ try' = [try EXCEPT ![k] = t]
  /\ UNCHANGED <<deploymentVars, historyVars, snap, verdict, records, faults>>

LoadDeployment(k) ==
  /\ pc[k] = "load"
  /\ Goto(k, IF status[at[k]] = "ACTIVE" THEN "gate" ELSE "end")
  /\ snap' = [snap EXCEPT ![k] = traffic[at[k]]]
  /\ UNCHANGED <<deploymentVars, historyVars, at, win, try, verdict, records, job, faults>>

\* Too few executions: the same window again later, under a fresh job id.
Defer(k) ==
  LET fresh == {t \in Try \ {0} : job[at[k]][win[k]][t] = "none"} IN
  /\ pc[k] = "gate"
  /\ \E t \in fresh :
       /\ \A u \in fresh : t <= u
       /\ job' = [job EXCEPT ![at[k]][win[k]][t] = "delayed"]
  /\ Goto(k, "end")
  /\ UNCHANGED <<deploymentVars, historyVars, localVars, records, faults>>

NextTraffic(p) ==
  LET next == snap[p] + IncrementStep IN IF next < MaxTraffic THEN next ELSE MaxTraffic

\* What follows a gate result.  The worker does nothing on WARN; the API
\* schedules the next window.
Decision(p, v) ==
  CASE v = "FAIL" -> IF auto[at[p]] THEN "rollback" ELSE "pause"
    [] v = "PASS" -> IF NextTraffic(p) >= MaxTraffic THEN "promote" ELSE "advance"
    [] v = "WARN" -> IF p \in Slot THEN "end" ELSE "add"

\* The gate row is created and the decision follows from what was read before.
RecordGate(p, v) ==
  /\ pc[p] = "gate"
  /\ gates[at[p]] < MaxGates
  /\ gates' = [gates EXCEPT ![at[p]] = @ + 1]
  /\ passes' = [passes EXCEPT ![at[p]] = IF v = "PASS" THEN @ + 1 ELSE @]
  /\ verdict' = [verdict EXCEPT ![p] = v]
  /\ Goto(p, Decision(p, v))
  /\ Decision(p, v) \in {"add", "advance"} => win[p] < MaxWindow
  /\ UNCHANGED <<deploymentVars, at, win, try, snap, byHand, revived, records, job, faults>>

\* Unconditional updates by id.
Pause(p) ==
  /\ pc[p] = "pause"
  /\ status' = [status EXCEPT ![at[p]] = "PAUSED"]
  /\ Leave(p)
  /\ UNCHANGED <<traffic, window, auto, historyVars, records, job, faults>>

Advance(p) ==
  /\ pc[p] = "advance"
  /\ traffic' = [traffic EXCEPT ![at[p]] = NextTraffic(p)]
  /\ window' = [window EXCEPT ![at[p]] = win[p] + 1]
  /\ Goto(p, "add")
  /\ UNCHANGED <<status, auto, historyVars, localVars, records, job, faults>>

-----------------------------------------------------------------------------
\* promote and rollback

Decide(c, d, l) ==
  /\ pc[c] = "idle"
  /\ status[d] # "absent"
  /\ Goto(c, l)
  /\ at' = [at EXCEPT ![c] = d]
  /\ UNCHANGED <<deploymentVars, historyVars, win, try, snap, verdict, records, job, faults>>

\* The API's updateMany names the status; the worker's update does not.
MayDecide(p) == p \in Slot \/ status[at[p]] \in {"ACTIVE", "PAUSED"}

Promote(p) ==
  /\ pc[p] = "promote"
  /\ MayDecide(p)
  /\ status' = [status EXCEPT ![at[p]] = "PROMOTED"]
  /\ traffic' = [traffic EXCEPT ![at[p]] = FullTraffic]
  /\ byHand' = IF verdict[p] = "manual" THEN byHand \cup {at[p]} ELSE byHand
  /\ Goto(p, "recordPromote")
  /\ UNCHANGED <<window, auto, passes, gates, revived, localVars, records, job, faults>>

Rollback(p) ==
  /\ pc[p] = "rollback"
  /\ MayDecide(p)
  /\ status' = [status EXCEPT ![at[p]] = "ROLLED_BACK"]
  /\ traffic' = [traffic EXCEPT ![at[p]] = 0]
  /\ Goto(p, "recordRollback")
  /\ UNCHANGED <<window, auto, historyVars, localVars, records, job, faults>>

\* The update matched no row: the call fails.
Refuse(p) ==
  /\ pc[p] \in {"promote", "rollback"}
  /\ ~MayDecide(p)
  /\ Leave(p)
  /\ UNCHANGED <<deploymentVars, historyVars, records, job, faults>>

RecordPromotion(p) ==
  /\ pc[p] \in {"recordPromote", "recordRollback"}
  /\ records' = [records EXCEPT ![at[p]] =
       @ \cup {IF pc[p] = "recordPromote" THEN "PROMOTE" ELSE "ROLLBACK"}]
  /\ Leave(p)
  /\ UNCHANGED <<deploymentVars, historyVars, job, faults>>

-----------------------------------------------------------------------------
\* The queue and the worker process

EndJob(k) ==
  /\ pc[k] = "end"
  /\ job' = [job EXCEPT ![at[k]][win[k]][try[k]] = "completed"]
  /\ Goto(k, "idle")
  /\ Forget(k)
  /\ UNCHANGED <<deploymentVars, historyVars, records, faults>>

\* A process dies between two calls.  The job a slot held is delivered again
\* once BullMQ finds it stalled.
Crash(p) ==
  /\ pc[p] # "idle"
  /\ faults < MaxFaults
  /\ faults' = faults + 1
  /\ job' = IF p \in Slot THEN [job EXCEPT ![at[p]][win[p]][try[p]] = "delayed"] ELSE job
  /\ Goto(p, "idle")
  /\ Forget(p)
  /\ UNCHANGED <<deploymentVars, historyVars, records>>

\* The next call of a process that is in the middle of something.
Step(p) ==
  \/ \E d \in Deployment : CreateInsert(p, d)
  \/ StartWrite(p) \/ AddJob(p) \/ Pause(p) \/ Advance(p)
  \/ \E v \in Verdicts : RecordGate(p, v)
  \/ Promote(p) \/ Rollback(p) \/ Refuse(p) \/ RecordPromotion(p)

SlotStep(k) ==
  \/ \E d \in Deployment, w \in Window, t \in Try : TakeJob(k, d, w, t)
  \/ LoadDeployment(k) \/ Defer(k) \/ EndJob(k)

Request(c) ==
  \/ CreateCheck(c)
  \/ \E d \in Deployment :
       \/ StartRead(c, d)
       \/ \E w \in Window : EvaluateRead(c, d, w)
       \/ Decide(c, d, "promote") \/ Decide(c, d, "rollback")

Next ==
  \/ \E p \in Proc : Step(p) \/ Crash(p)
  \/ \E k \in Slot : SlotStep(k)
  \/ \E c \in Caller : Request(c)

Spec == Init /\ [][Next]_vars

\* Calls in progress and the worker proceed; no request need ever be made.
FairSpec ==
  /\ Spec
  /\ \A c \in Caller : WF_vars(Step(c))
  /\ \A k \in Slot : WF_vars(Step(k) \/ SlotStep(k))

-----------------------------------------------------------------------------
\* Properties

\* Traffic of an ACTIVE canary is earned: at most one increment for each gate
\* that passed, and never above the maximum of the deployment; and a canary
\* nobody promoted by hand is promoted only after its gates led from the initial
\* traffic to the maximum.  (The advance and the promotion of evaluateGate and
\* runCanaryEvaluator, whose traffic is a stale snapshot.)
TrafficEarned ==
  \A d \in Deployment :
    LET earned == InitialTraffic + IncrementStep * passes[d] IN
    /\ status[d] = "ACTIVE" => traffic[d] <= earned
    /\ status[d] = "ACTIVE" => traffic[d] <= MaxTraffic
    /\ status[d] = "PROMOTED" /\ d \notin byHand => MaxTraffic <= earned

\* Every decision gets its VersionPromotion row, or a process is about to
\* write it: the deployment and the version history agree.
Recording(d, l) == \E p \in Proc : at[p] = d /\ pc[p] = l

DecisionIsRecorded ==
  faults = 0 => \A d \in Deployment :
    /\ status[d] = "PROMOTED" => "PROMOTE" \in records[d] \/ Recording(d, "recordPromote")
    /\ status[d] = "ROLLED_BACK" => "ROLLBACK" \in records[d] \/ Recording(d, "recordRollback")

\* An ACTIVE canary goes on being evaluated until a gate does not pass ("WARN:
\* continue at same traffic" schedules nothing): a job of it is in the queue, or
\* a process works on it, whatever was started twice or evaluated by hand.  Not
\* so for one that a start, which had read PENDING, made ACTIVE again after it was
\* decided or paused: the queue has seen the id of its first job.
Evaluating(d) ==
  \/ \E w \in Window, t \in Try : job[d][w][t] \in {"delayed", "active"}
  \/ \E p \in Proc : at[p] = d /\ pc[p] \in {"gate", "advance", "add"}

ActiveIsEvaluated ==
  faults = 0 => \A d \in Deployment :
    status[d] = "ACTIVE" /\ gates[d] = passes[d] /\ d \notin revived => Evaluating(d)

\* Without faults and without warnings a canary that is started ends, by the
\* gates alone: promoted, rolled back or paused.  Not so one without traffic, whose
\* window is deferred again and again: here, as often as the bound lets it be.
Starved(d) == \E w \in Window : job[d][w][MaxRetry] # "none"

CanaryEnds ==
  \A d \in Deployment : status[d] = "ACTIVE" ~>
    (status[d] \in {"PAUSED"} \cup Terminal \/ Starved(d))

-----------------------------------------------------------------------------
\* What the code says of itself and the model refutes

\* A canary is "only update if still in ACTIVE or PAUSED state": a rollback
\* is final, the candidate is not promoted after it.
RolledBackIsFinal ==
  [][\A d \in Deployment : status[d] = "ROLLED_BACK" => status'[d] = "ROLLED_BACK"]_vars

=============================================================================
