---------------------------- MODULE WorkflowRuns ----------------------------
(***************************************************************************)
(* One run of a workflow graph in the API process: WorkflowRunnerService   *)
(* plans the nodes into levels, WorkflowNodeRouter executes the nodes of a *)
(* level together, and MissionService keeps the mission the run reports    *)
(* to.  Users start, pause, resume and complete the mission meanwhile.     *)
(* Every operation on a mission writes its status and then publishes a     *)
(* message, which A2ABusService stores in Postgres and appends to a Redis  *)
(* stream, in this order: each of the three may fail.                      *)
(***************************************************************************)
EXTENDS Naturals, Sequences

CONSTANTS
  Workflow,   \* the inputs of run: sequences of nodes [id, type, dependsOn, resolves]
  User,       \* calls of the mission controller in progress at a time
  Runner,     \* the run, where it operates on the mission
  Closing,    \* the statuses users complete a mission with
  MaxOps,     \* bound: operations users begin
  MaxFaults   \* bound: calls of Postgres and Redis that fail, and crashes

\* plain stands for start, end, decision and skill, call for connector and
\* adapter: what differs for a run is who is asked, and what may fail.  A node
\* resolves if the references of its input mapping are strings, as those the
\* builder makes are; nothing checks a mapping sent to the API.
NodeType == {"plain", "call", "agent", "human"}

ASSUME RunsAssumption ==
  /\ \A w \in Workflow : Len(w) \in Nat /\ DOMAIN w = 1 .. Len(w)
  /\ \A w \in Workflow : \A p \in DOMAIN w : w[p].type \in NodeType /\ w[p].resolves \in BOOLEAN
  /\ Runner \notin User /\ (User \cup {Runner}) \cap Nat = {}
  /\ Closing \subseteq {"SUCCEEDED", "FAILED", "CANCELLED", "ROLLED_BACK"}
  /\ MaxOps \in Nat /\ MaxFaults \in Nat

Ended == {"SUCCEEDED", "FAILED", "CANCELLED", "ROLLED_BACK"}
MissionStatus == {"PLANNING", "RUNNING", "WAITING_HUMAN"} \cup Ended

VARIABLES
  flow, wants,            \* the input: nodes and createMission
  pc,                     \* where the run stands
  levels, level,          \* the plan, and how many of its levels were begun
  at,                     \* where each node stands, by position in flow
  verdict, session,       \* the status the run arrived at, and the row's
  linked,                 \* execCtx.missionId is set
  mission, told, aired,   \* the mission's status; the last one its stored
                          \* messages announce; the last one in the stream
  act,                    \* the operation each actor has begun on the mission
  ops, faults,
  overlap                 \* history: two operations were in progress at once

planVars == <<flow, wants, levels, level>>
missionVars == <<mission, told, aired, act, overlap>>
runVars == <<planVars, pc, at, verdict, session, linked, missionVars, ops, faults>>

Position == UNION {DOMAIN w : w \in Workflow}
Actor == User \cup {Runner} \cup DOMAIN flow

Idle == [at |-> "idle", to |-> "none"]
Act == {Idle} \cup [at : {"write", "say"}, to : MissionStatus]

RunTypeOK ==
  /\ flow \in Workflow /\ wants \in BOOLEAN
  /\ pc \in {"idle", "create", "created", "start", "plan", "level", "await",
             "finish", "complete", "returned", "threw", "dead"}
  /\ levels \in Seq(SUBSET DOMAIN flow) /\ level \in 0 .. Len(levels)
  /\ at \in [DOMAIN flow -> {"idle", "running", "working", "pausing", "threw", "ok", "bad"}]
  /\ verdict \in {"SUCCEEDED", "FAILED", "BLOCKED"}
  /\ session \in {"none", "RUNNING", "SUCCEEDED", "FAILED", "BLOCKED"}
  /\ linked \in BOOLEAN
  /\ mission \in {"none"} \cup MissionStatus
  /\ told \in {"none"} \cup MissionStatus /\ aired \in {"none"} \cup MissionStatus
  /\ act \in [Actor -> Act]
  /\ ops \in 0 .. MaxOps /\ faults \in 0 .. MaxFaults
  /\ overlap \in BOOLEAN

RunInit ==
  /\ flow \in Workflow /\ wants \in BOOLEAN
  /\ pc = "idle"
  /\ levels = << >> /\ level = 0
  /\ at = [p \in DOMAIN flow |-> "idle"]
  /\ verdict = "SUCCEEDED" /\ session = "none" /\ linked = FALSE
  /\ mission = "none" /\ told = "none" /\ aired = "none"
  /\ act = [a \in Actor |-> Idle]
  /\ ops = 0 /\ faults = 0
  /\ overlap = FALSE

Id(S) == {flow[p].id : p \in S}

\* A map by id keeps the last of the nodes with an id; without any dependsOn
\* the nodes run one after the other as they are given.
Linear == \A p \in DOMAIN flow : flow[p].dependsOn = {}
Kept == {p \in DOMAIN flow : \A q \in DOMAIN flow : q > p => flow[q].id # flow[p].id}
Planned == UNION {levels[l] : l \in DOMAIN levels}

-----------------------------------------------------------------------------
\* Mutated definitions: plausible slips in the code, each of which some property
\* below must notice.  The specification uses none of them.

\* A node is ready when one of the nodes it depends on is done.
ReadyOnAny ==
  IF Linear
    THEN {p \in DOMAIN flow : p = Len(levels) + 1}
    ELSE {p \in Kept \ Planned : flow[p].dependsOn = {} \/ flow[p].dependsOn \cap Id(Planned) # {}}

\* Only a run that succeeded completes its mission.
FinishForgetsFailed ==
  /\ pc = "finish"
  /\ session' = verdict
  /\ pc' = IF linked /\ verdict = "SUCCEEDED" THEN "complete" ELSE "returned"
  /\ UNCHANGED <<planVars, at, verdict, linked, missionVars, ops, faults>>

\* The message goes to the stream only.
PublishLive(a, sent) ==
  /\ act[a].at = "say"
  /\ aired' = IF sent = "everywhere" THEN act[a].to ELSE aired
  /\ act' = [act EXCEPT ![a] = Idle]
  /\ faults' = IF sent = "everywhere" THEN faults ELSE faults + 1
  /\ faults' <= MaxFaults
  /\ UNCHANGED <<mission, told, overlap>>

-----------------------------------------------------------------------------
\* Operations on the mission

\* Two operations overlap when one begins while the other is in progress.
Begin(a, stage, to) ==
  /\ act[a] = Idle
  /\ act' = [act EXCEPT ![a] = [at |-> stage, to |-> to]]
  /\ overlap' = (overlap \/ \E b \in Actor \ {a} : act[b] # Idle)

\* start and resume check the status they read and write RUNNING in a later
\* call; pauseForHuman and complete write theirs whatever the status is.
Check(a, from) ==
  /\ mission = from
  /\ Begin(a, "write", "RUNNING")
  /\ UNCHANGED <<mission, told, aired>>

Write(a) ==
  /\ act[a].at = "write"
  /\ mission' = act[a].to
  /\ act' = [act EXCEPT ![a].at = "say"]
  /\ UNCHANGED <<told, aired, overlap>>

Set(a, s) ==
  /\ mission' = s
  /\ Begin(a, "say", s)
  /\ UNCHANGED <<told, aired>>

\* create checks the key and inserts the row.
Create(a) ==
  /\ mission = "none"
  /\ Set(a, "PLANNING")

\* A2ABusService.publish: the row first, then the stream.  When either call
\* fails the operation rejects, its status already written.
Publish(a, sent) ==
  /\ act[a].at = "say"
  /\ told' = IF sent = "nowhere" THEN told ELSE act[a].to
  /\ aired' = IF sent = "everywhere" THEN act[a].to ELSE aired
  /\ act' = [act EXCEPT ![a] = Idle]
  /\ faults' = IF sent = "everywhere" THEN faults ELSE faults + 1
  /\ faults' <= MaxFaults
  /\ UNCHANGED <<mission, overlap>>

Sent == {"nowhere", "stored", "everywhere"}

-----------------------------------------------------------------------------
\* WorkflowRunnerService.run

Goto(l) == pc' = l

CreateSession ==
  /\ pc = "idle"
  /\ session' = "RUNNING"
  /\ Goto(IF wants THEN "create" ELSE "plan")
  /\ UNCHANGED <<planVars, at, verdict, linked, missionVars, ops, faults>>

CreateSessionFails ==
  /\ pc = "idle" /\ faults < MaxFaults
  /\ faults' = faults + 1
  /\ Goto("threw")
  /\ UNCHANGED <<planVars, at, verdict, session, linked, missionVars, ops>>

CreateMission ==
  /\ pc = "create"
  /\ Create(Runner)
  /\ Goto("created")
  /\ UNCHANGED <<planVars, at, verdict, session, linked, ops, faults>>

\* The mission of a create that rejected after its insert stays behind.
Created(sent) ==
  /\ pc = "created"
  /\ Publish(Runner, sent)
  /\ linked' = (sent = "everywhere")
  /\ Goto(IF sent = "everywhere" THEN "start" ELSE "plan")
  /\ UNCHANGED <<planVars, at, verdict, session, ops>>

StartMission ==
  /\ pc = "start"
  /\ Check(Runner, "PLANNING") /\ UNCHANGED <<pc, faults>>
  /\ UNCHANGED <<planVars, at, verdict, session, linked, ops>>

StartRefused ==
  /\ pc = "start" /\ act[Runner] = Idle
  /\ mission # "PLANNING"
  /\ Goto("plan")
  /\ UNCHANGED <<planVars, at, verdict, session, linked, missionVars, ops, faults>>

WriteStarted ==
  /\ pc = "start"
  /\ Write(Runner)
  /\ UNCHANGED <<planVars, pc, at, verdict, session, linked, ops, faults>>

Started(sent) ==
  /\ pc = "start"
  /\ Publish(Runner, sent)
  /\ Goto("plan")
  /\ UNCHANGED <<planVars, at, verdict, session, linked, ops>>

\* planExecutionLevels, one level at a time: the nodes whose dependencies are
\* all in earlier levels.
Ready ==
  IF Linear
    THEN {p \in DOMAIN flow : p = Len(levels) + 1}
    ELSE {p \in Kept \ Planned : flow[p].dependsOn \subseteq Id(Planned)}

ToPlan == IF Linear THEN DOMAIN flow ELSE Kept

PlanLevel ==
  /\ pc = "plan"
  /\ Ready # {}
  /\ levels' = Append(levels, Ready)
  /\ UNCHANGED <<flow, wants, level, pc, at, verdict, session, linked, missionVars, ops, faults>>

\* "Workflow DAG cycle or unsatisfiable dependency detected": run rejects.
PlanEnds ==
  /\ pc = "plan"
  /\ Ready = {}
  /\ Goto(IF Planned = ToPlan THEN "level" ELSE "threw")
  /\ UNCHANGED <<planVars, at, verdict, session, linked, missionVars, ops, faults>>

BeginLevel ==
  /\ pc = "level" /\ level < Len(levels)
  /\ level' = level + 1
  /\ at' = [p \in DOMAIN flow |-> IF p \in levels[level + 1] THEN "running" ELSE at[p]]
  /\ Goto("await")
  /\ UNCHANGED <<flow, wants, levels, verdict, session, linked, missionVars, ops, faults>>

\* Promise.all: every node of the level has answered.  A failed node ends the
\* run before a paused one does.
Verdict ==
  IF \E p \in levels[level] : at[p] = "bad" THEN "FAILED"
  ELSE IF \E p \in levels[level] : flow[p].type = "human" THEN "BLOCKED"
  ELSE "SUCCEEDED"

EndLevel ==
  /\ pc = "await"
  /\ \A p \in levels[level] : at[p] \in {"ok", "bad"}
  /\ verdict' = Verdict
  /\ Goto(IF Verdict = "SUCCEEDED" THEN "level" ELSE "finish")
  /\ UNCHANGED <<planVars, at, session, linked, missionVars, ops, faults>>

NoLevelLeft ==
  /\ pc = "level" /\ level = Len(levels)
  /\ Goto("finish")
  /\ UNCHANGED <<planVars, at, verdict, session, linked, missionVars, ops, faults>>

\* The run's last word on the session; its failure rejects the run.
Finish ==
  /\ pc = "finish"
  /\ session' = verdict
  /\ Goto(IF linked /\ verdict # "BLOCKED" THEN "complete" ELSE "returned")
  /\ UNCHANGED <<planVars, at, verdict, linked, missionVars, ops, faults>>

FinishFails ==
  /\ pc = "finish" /\ faults < MaxFaults
  /\ faults' = faults + 1
  /\ Goto("threw")
  /\ UNCHANGED <<planVars, at, verdict, session, linked, missionVars, ops>>

CompleteMission ==
  /\ pc = "complete"
  /\ Set(Runner, verdict)
  /\ UNCHANGED <<planVars, pc, at, verdict, session, linked, ops, faults>>

Completed(sent) ==
  /\ pc = "complete"
  /\ Publish(Runner, sent)
  /\ Goto("returned")
  /\ UNCHANGED <<planVars, at, verdict, session, linked, ops>>

\* create, start and complete catch what fails before they have written.
MissionCallFails ==
  /\ pc \in {"create", "start", "complete"} /\ act[Runner].at \in {"idle", "write"}
  /\ faults < MaxFaults
  /\ faults' = faults + 1
  /\ act' = [act EXCEPT ![Runner] = Idle]
  /\ Goto(IF pc = "complete" THEN "returned" ELSE "plan")
  /\ UNCHANGED <<planVars, at, verdict, session, linked, mission, told, aired, overlap, ops>>

RunStep ==
  \/ CreateMission \/ StartMission \/ StartRefused \/ WriteStarted
  \/ \E sent \in Sent : Created(sent) \/ Started(sent) \/ Completed(sent)
  \/ PlanLevel \/ PlanEnds \/ BeginLevel \/ EndLevel \/ NoLevelLeft
  \/ Finish \/ CompleteMission

-----------------------------------------------------------------------------
\* WorkflowNodeRouter.execute

\* The nodes of a level go on when one of them has made the run reject.
Answer(p, result) ==
  /\ pc \in {"await", "threw"}
  /\ at' = [at EXCEPT ![p] = result]
  /\ UNCHANGED <<planVars, verdict, session, linked, ops>>

\* resolveInput, before the try: Promise.all rejects, and the run with it.
NodeThrows(p) ==
  /\ at[p] = "running" /\ ~flow[p].resolves
  /\ Answer(p, "threw")
  /\ Goto("threw")
  /\ UNCHANGED <<missionVars, faults>>

\* From here on whatever fails becomes a failed result.
Runs(p) == at[p] = "running" /\ flow[p].resolves /\ UNCHANGED pc

NodeSucceeds(p) ==
  /\ Runs(p) /\ flow[p].type = "plain"
  /\ Answer(p, "ok")
  /\ UNCHANGED <<missionVars, faults>>

\* Input that does not match its schema, a refused or failed call; a human
\* node fails only without a mission.
NodeFails(p) ==
  /\ Runs(p)
  /\ flow[p].type = "human" => ~linked
  /\ Answer(p, "bad")
  /\ UNCHANGED <<missionVars, faults>>

\* A connector, an adapter or an agent is asked.  AgentDispatcherService.dispatch
\* publishes the request before and the response after; a message that cannot
\* be published rejects.
NodeAsks(p) ==
  /\ Runs(p) /\ flow[p].type \in {"agent", "call"}
  /\ Answer(p, "working")
  /\ UNCHANGED <<missionVars, faults>>

\* Nothing bounds the time this takes: local handlers, adapters and webhooks
\* have no timeout, and that of a REST agent ends with the first byte.
NodeIsAnswered(p, result) ==
  /\ at[p] = "working"
  /\ Answer(p, result)
  /\ UNCHANGED <<pc, missionVars, faults>>

HumanPauses(p) ==
  /\ Runs(p) /\ flow[p].type = "human" /\ linked
  /\ Set(p, "WAITING_HUMAN")
  /\ Answer(p, "pausing")
  /\ UNCHANGED faults

HumanPaused(p, sent) ==
  /\ at[p] = "pausing"
  /\ Publish(p, sent)
  /\ Answer(p, IF sent = "everywhere" THEN "ok" ELSE "bad")
  /\ UNCHANGED pc

\* The agent's messages, or the call that pauses the mission, fail.
NodeIsCutOff(p) ==
  /\ flow[p].type \in {"agent", "human"} /\ linked
  /\ (at[p] = "running" /\ flow[p].resolves) \/ at[p] = "working"
  /\ faults < MaxFaults
  /\ faults' = faults + 1
  /\ Answer(p, "bad")
  /\ UNCHANGED <<pc, missionVars>>

NodeStep(p) ==
  /\ p \in DOMAIN flow
  /\ \/ NodeThrows(p) \/ NodeSucceeds(p) \/ NodeFails(p) \/ NodeAsks(p)
     \/ HumanPauses(p) \/ \E sent \in Sent : HumanPaused(p, sent)

Answered(p) == p \in DOMAIN flow /\ \E result \in {"ok", "bad"} : NodeIsAnswered(p, result)

-----------------------------------------------------------------------------
\* The mission controller

runVarsButMission == <<planVars, pc, at, verdict, session, linked>>

UserBegins(u) ==
  /\ ops < MaxOps /\ ops' = ops + 1
  /\ \/ ~wants /\ Create(u)
     \/ Check(u, "PLANNING") \/ Check(u, "WAITING_HUMAN")
     \/ mission # "none" /\ \E s \in {"WAITING_HUMAN"} \cup Closing : Set(u, s)
  /\ UNCHANGED <<runVarsButMission, faults>>

UserStep(u) ==
  /\ \/ Write(u) /\ UNCHANGED faults
     \/ \E sent \in Sent : Publish(u, sent)
  /\ UNCHANGED <<runVarsButMission, ops>>

\* The nodes of a run that rejected may still be at work.
RunOver ==
  /\ pc \in {"idle", "returned", "threw", "dead"}
  /\ pc = "threw" => \A p \in DOMAIN flow : at[p] \notin {"running", "working", "pausing"}

\* The API process dies, and with it the run and every call.  Nothing takes
\* the run up again.
ApiDies ==
  /\ ~RunOver /\ faults < MaxFaults
  /\ faults' = faults + 1
  /\ Goto("dead")
  /\ act' = [a \in Actor |-> Idle]
  /\ UNCHANGED <<planVars, at, verdict, session, linked, mission, told, aired, overlap, ops>>

RunOn ==
  \/ RunStep \/ FinishFails \/ MissionCallFails
  \/ \E p \in Position : NodeStep(p) \/ Answered(p) \/ (p \in DOMAIN flow /\ NodeIsCutOff(p))

RunNext ==
  \/ CreateSession \/ CreateSessionFails \/ RunOn
  \/ \E u \in User : UserBegins(u) \/ UserStep(u)
  \/ ApiDies

\* The run and its database calls go on; those its nodes ask may never answer.
RunFairness ==
  /\ WF_runVars(RunStep)
  /\ \A p \in Position : WF_runVars(NodeStep(p))

RunSpec == RunInit /\ [][RunNext]_runVars /\ RunFairness

-----------------------------------------------------------------------------
\* Properties

\* What a node waits for, by position: the nodes before it in a linear
\* workflow, otherwise those it depends on.  0 stands for a node that is not
\* there.
Needs(p) ==
  IF Linear THEN {q \in DOMAIN flow : q < p}
  ELSE {q \in Kept : flow[q].id \in flow[p].dependsOn}
         \cup (IF flow[p].dependsOn \subseteq Id(Kept) THEN {} ELSE {0})

\* Levels executed together, fail-fast and the pause at a human node implement
\* GraphExecution: no node runs before what it needs has succeeded, twice, or
\* beside a failure that was seen, and the session ends as its nodes did.
Graph == INSTANCE GraphExecution WITH
  needs <- [p \in ToPlan |-> Needs(p)],
  asks <- {p \in ToPlan : flow[p].type = "human"},
  started <- {p \in ToPlan : at[p] # "idle"},
  done <- {p \in ToPlan : at[p] = "ok"},
  failed <- {p \in ToPlan : at[p] = "bad"},
  outcome <- IF session \in {"none", "RUNNING"} THEN "running" ELSE session

FollowsGraph == Graph!GraphSpec

\* Left alone, a run leaves its mission in the state of its session, whatever
\* order the human nodes and failures of a level come in.
MissionAgrees ==
  pc = "returned" /\ linked /\ ops = 0 /\ faults = 0 =>
    mission = IF session = "BLOCKED" THEN "WAITING_HUMAN" ELSE session

\* replay tells what became of the mission: unless operations overlapped or a
\* call failed, the last status the stored messages and the stream announce is
\* the mission's.
HistoryTellsStatus ==
  (/\ mission # "none" /\ faults = 0 /\ ~overlap
   /\ \A a \in Actor : act[a] = Idle)
  => told = mission /\ aired = mission

\* A set of nodes waits for itself, or for a node that is not there.
Unsatisfiable ==
  ~Linear /\ \E S \in SUBSET Kept \ {{}} :
    \A p \in S : ~(flow[p].dependsOn \subseteq Id(Kept \ S))

\* A run ends unless a node waits for an answer for good: it returns with its
\* session ended or blocked, and rejects, its session RUNNING for good, only for
\* a graph that cannot be planned, a mapping that does not resolve, or when its
\* last update fails.
Hangs == pc = "await" /\ \E p \in DOMAIN flow : at[p] = "working"

RunEnds ==
  <>[]Hangs
  \/ (pc # "idle" ~>
        \/ pc = "returned" /\ session # "RUNNING"
        \/ pc = "threw" /\ (Unsatisfiable \/ faults > 0 \/ \E p \in DOMAIN flow : at[p] = "threw")
        \/ pc = "dead")

=============================================================================
