---------------------------- MODULE EnginesProofs ----------------------------
(***************************************************************************)
(* What the two engines that run a draft keep, for any graphs, inputs,     *)
(* users, retries and bounds on operations and faults.                     *)
(*                                                                         *)
(* The pipeline: which nodes have an answer, by where execute stands; what *)
(* hasFailed stands for; and what is on its way to the client.  The run of *)
(* a graph: the plan, how far the run is in it and what became of its      *)
(* nodes; and what the mission's operations in progress will write and     *)
(* say.  The page: which of the two engines had the nodes.                 *)
(***************************************************************************)
EXTENDS BuilderRun, TLAPS

-----------------------------------------------------------------------------
\* The pipeline

InLoop == {"create", "node", "record", "next", "retry"}

\* Before the request.
IdleInv ==
  ppc = "idle" =>
    /\ batch = << >> /\ pos = 1 /\ ~hasFailed /\ psession = "none"
    /\ client = "idle" /\ mail = "none" /\ heard = "none"

\* Inside the loop the nodes before the current one have their results and
\* those behind it have none.
LoopInv ==
  ppc \in InLoop =>
    /\ batch # << >> /\ pos \in 1 .. Len(batch)
    /\ \A p \in DOMAIN batch : p < pos => result[p] # "none"
    /\ \A p \in DOMAIN batch : p > pos => result[p] = "none"
    /\ ppc \in {"create", "node"} <=> result[pos] = "none"

\* Behind it: what has no result is behind a node that stopped the pipeline.
LeftOut ==
  \A p \in DOMAIN batch : result[p] = "none" =>
    \E q \in 1 .. p - 1 : result[q] = "bad" /\ batch[q].onFailure = "stop"

\* The flag is of a node that failed, and one that is not tried again.
FailedInv ==
  hasFailed => \E p \in DOMAIN batch :
    /\ result[p] = "bad"
    /\ ppc \in {"node", "record", "retry"} => p < pos

\* A node that is tried again has tries left.
AgainInv ==
  /\ ppc \in {"idle", "create", "node", "record"} => again = 0
  /\ ppc = "retry" => again < Retries

\* The session of a run that has not come to its last update.
SessionInv ==
  /\ ppc = "create" => psession = "none"
  /\ ppc \in {"node", "record", "next", "retry", "finish"} => psession = "RUNNING"
  /\ ppc = "announce" => psession \in Outcome
  /\ psession \in Outcome => ppc \in {"announce", "ended", "dead"}

\* What was sent, or heard, is true.
ClientInv ==
  /\ mail \in Outcome => mail = psession
  /\ heard \in Outcome => heard = psession
  /\ mail = "error" => outages > 0 \/ (late /\ client # "posted")
  /\ heard = "error" => outages > 0 \/ late
  /\ heard # "none" => client = "closed"
  /\ client = "closed" => mail = "none"

PipeInv ==
  /\ PipeTypeOK
  /\ IdleInv /\ LoopInv /\ FailedInv /\ AgainInv
  /\ ppc = "finish" \/ psession \in Outcome => LeftOut
  /\ SessionInv /\ PipelineOutcome /\ ClientInv

-----------------------------------------------------------------------------

LEMMA PipeStarts == PipeInit => PipeInv
<1> SUFFICES ASSUME PipeInit PROVE PipeInv
  OBVIOUS
<1> USE DEF PipeInit, Outcome
<1>1. PipeTypeOK
  <2>1. Len(batch) = 0 /\ DOMAIN batch = {} /\ result = [p \in {} |-> "none"]
    OBVIOUS
  <2>2. result \in [DOMAIN batch -> {"none", "ok", "bad"}]
    BY <2>1
  <2>3. pos \in 1 .. Len(batch) + 1 /\ again \in 0 .. Retries /\ outages \in 0 .. MaxOutages
    BY <2>1, PipelineAssumption
  <2> QED  BY <2>2, <2>3 DEF PipeTypeOK
<1>2. IdleInv /\ LoopInv /\ FailedInv /\ AgainInv
  BY PipelineAssumption DEF IdleInv, LoopInv, FailedInv, AgainInv, InLoop
<1>3. SessionInv /\ PipelineOutcome /\ ClientInv
  BY DEF SessionInv, PipelineOutcome, ClientInv
<1> QED  BY <1>1, <1>2, <1>3 DEF PipeInv

\* What a step of the client, which leaves the engine alone, has to keep.
LEMMA EngineRests ==
  ASSUME PipeInv, UNCHANGED <<inputVars, engineVars>>, PipeTypeOK', ClientInv', ppc # "idle"
  PROVE  PipeInv'
BY DEF PipeInv, IdleInv, LoopInv, FailedInv, AgainInv, LeftOut, SessionInv, PipelineOutcome,
       inputVars, engineVars

\* What a step of the engine, which tells the client nothing, has to keep.
LEMMA ClientRests ==
  ASSUME PipeInv, UNCHANGED <<clientVars, mail, outages>>,
         psession \notin Outcome
  PROVE  ClientInv'
BY DEF PipeInv, ClientInv, clientVars, Outcome

LEMMA ElementOfInput ==
  ASSUME NEW S, NEW b \in Seq(S), NEW n \in 1 .. Len(b)
  PROVE  b[n] \in S
OBVIOUS

\* The input of a run, and its current node.
LEMMA InputFacts ==
  ASSUME PipeInv
  PROVE  /\ batch # << >> => batch \in Seq([onFailure : {"stop", "continue", "retry"}])
         /\ Len(batch) \in Nat /\ DOMAIN batch = 1 .. Len(batch)
         /\ ppc \in InLoop =>
              pos \in DOMAIN batch /\ batch[pos].onFailure \in {"stop", "continue", "retry"}
<1>1. batch # << >> => batch \in Seq([onFailure : {"stop", "continue", "retry"}])
  BY PipelineAssumption DEF PipeInv, PipeTypeOK
<1>2. Len(batch) \in Nat /\ DOMAIN batch = 1 .. Len(batch)
  BY <1>1
<1>3. ASSUME ppc \in InLoop
      PROVE  pos \in DOMAIN batch /\ batch[pos].onFailure \in {"stop", "continue", "retry"}
  <2>1. pos \in DOMAIN batch /\ batch # << >>
    BY <1>2, <1>3 DEF PipeInv, LoopInv
  <2>2. batch[pos] \in [onFailure : {"stop", "continue", "retry"}]
    BY <1>1, <1>2, <2>1, ElementOfInput
  <2> QED  BY <2>1, <2>2
<1> QED  BY <1>1, <1>2, <1>3

LEMMA PostKeeps ==
  ASSUME PipeInv, NEW b \in Batch, NEW how \in {"answer", "events"}, Post(b, how)
  PROVE  PipeInv'
<1> USE DEF Post, inputVars, engineVars, clientVars
<1>1. /\ b # << >> /\ b \in Seq([onFailure : {"stop", "continue", "retry"}])
      /\ Len(b) \in Nat /\ Len(b) >= 1 /\ DOMAIN b = 1 .. Len(b)
  BY PipelineAssumption
<1>2. /\ batch = << >> /\ pos = 1 /\ ~hasFailed /\ psession = "none"
      /\ mail = "none" /\ heard = "none" /\ again = 0
  BY DEF PipeInv, IdleInv, AgainInv
<1>3. PipeTypeOK'
  BY <1>1, <1>2 DEF PipeInv, PipeTypeOK, Outcome
<1>4. LoopInv'
  BY <1>1, <1>2 DEF LoopInv, InLoop
<1>5. IdleInv' /\ FailedInv' /\ AgainInv'
  BY <1>2 DEF IdleInv, FailedInv, AgainInv
<1>6. SessionInv' /\ PipelineOutcome' /\ ClientInv'
  BY <1>2 DEF SessionInv, PipelineOutcome, ClientInv, Outcome
<1> QED  BY <1>2, <1>3, <1>4, <1>5, <1>6 DEF PipeInv, Outcome

LEMMA CreateKeeps == ASSUME PipeInv, CreateRun PROVE PipeInv'
<1> USE DEF CreateRun, inputVars, engineVars, clientVars
<1>1. PipeTypeOK'
  BY DEF PipeInv, PipeTypeOK
<1>2. IdleInv' /\ LoopInv' /\ AgainInv'
  BY DEF PipeInv, IdleInv, LoopInv, AgainInv, InLoop
<1>3. FailedInv'
  BY DEF PipeInv, PipeTypeOK, FailedInv, LoopInv, InLoop
<1>4. SessionInv' /\ PipelineOutcome' /\ ClientInv'
  BY ClientRests DEF PipeInv, SessionInv, PipelineOutcome, Outcome
<1> QED  BY <1>1, <1>2, <1>3, <1>4 DEF PipeInv, Outcome

LEMMA ExecuteKeeps ==
  ASSUME PipeInv, NEW r \in {"ok", "bad"}, Execute(r)
  PROVE  PipeInv'
<1> USE DEF Execute, inputVars, engineVars, clientVars
<1>0. pos \in DOMAIN batch /\ DOMAIN batch = 1 .. Len(batch) /\ Len(batch) \in Nat
  BY InputFacts DEF InLoop
<1>1. PipeTypeOK'
  BY <1>0 DEF PipeInv, PipeTypeOK
<1>2. IdleInv' /\ LoopInv' /\ AgainInv'
  BY <1>0 DEF PipeInv, PipeTypeOK, IdleInv, LoopInv, AgainInv, InLoop
<1>3. FailedInv'
  BY <1>0 DEF PipeInv, PipeTypeOK, FailedInv, LoopInv, InLoop
<1>4. SessionInv' /\ PipelineOutcome' /\ ClientInv'
  BY ClientRests DEF PipeInv, SessionInv, PipelineOutcome, Outcome
<1> QED  BY <1>1, <1>2, <1>3, <1>4 DEF PipeInv, SessionInv, Outcome

LEMMA RecordKeeps == ASSUME PipeInv, Record PROVE PipeInv'
<1> USE DEF Record, inputVars, engineVars, clientVars
<1>0. /\ pos \in DOMAIN batch /\ DOMAIN batch = 1 .. Len(batch)
      /\ Len(batch) \in Nat
      /\ batch[pos].onFailure \in {"stop", "continue", "retry"}
  BY InputFacts DEF InLoop
<1>1. PipeTypeOK'
  BY <1>0 DEF PipeInv, PipeTypeOK
<1>2. IdleInv' /\ LoopInv' /\ AgainInv'
  BY <1>0, PipelineAssumption DEF PipeInv, PipeTypeOK, IdleInv, LoopInv, AgainInv, InLoop
<1>3. FailedInv'
  BY <1>0 DEF PipeInv, PipeTypeOK, FailedInv, LoopInv, InLoop
<1>4. ppc' = "finish" => LeftOut'
  BY <1>0 DEF PipeInv, PipeTypeOK, LoopInv, InLoop, LeftOut
<1>5. SessionInv' /\ PipelineOutcome' /\ ClientInv'
  BY <1>0, ClientRests DEF PipeInv, SessionInv, PipelineOutcome, Outcome
<1> QED  BY <1>1, <1>2, <1>3, <1>4, <1>5 DEF PipeInv, SessionInv, Outcome

LEMMA RetryKeeps ==
  ASSUME PipeInv, NEW r \in {"ok", "bad"}, Retry(r)
  PROVE  PipeInv'
<1> USE DEF Retry, inputVars, engineVars, clientVars
<1>0. pos \in DOMAIN batch /\ DOMAIN batch = 1 .. Len(batch) /\ Len(batch) \in Nat
  BY InputFacts DEF InLoop
<1>1. PipeTypeOK'
  BY <1>0, PipelineAssumption DEF PipeInv, PipeTypeOK, AgainInv
<1>2. IdleInv' /\ LoopInv' /\ AgainInv'
  BY <1>0, PipelineAssumption DEF PipeInv, PipeTypeOK, IdleInv, LoopInv, AgainInv, InLoop
<1>3. FailedInv'
  BY <1>0 DEF PipeInv, PipeTypeOK, FailedInv, LoopInv, InLoop
<1>4. SessionInv' /\ PipelineOutcome' /\ ClientInv'
  BY ClientRests DEF PipeInv, SessionInv, PipelineOutcome, Outcome
<1> QED  BY <1>1, <1>2, <1>3, <1>4 DEF PipeInv, SessionInv, Outcome

LEMMA NextNodeKeeps == ASSUME PipeInv, NextNode PROVE PipeInv'
<1> USE DEF NextNode, inputVars, engineVars, clientVars
<1>0. pos \in DOMAIN batch /\ DOMAIN batch = 1 .. Len(batch) /\ Len(batch) \in Nat
  BY InputFacts DEF InLoop
<1>1. PipeTypeOK'
  BY <1>0, PipelineAssumption DEF PipeInv, PipeTypeOK
<1>2. IdleInv' /\ LoopInv' /\ AgainInv'
  BY <1>0 DEF PipeInv, PipeTypeOK, IdleInv, LoopInv, AgainInv, InLoop
<1>3. FailedInv'
  BY <1>0 DEF PipeInv, PipeTypeOK, FailedInv, LoopInv, InLoop
<1>4. ppc' = "finish" => LeftOut'
  BY <1>0 DEF PipeInv, LoopInv, InLoop, LeftOut
<1>5. SessionInv' /\ PipelineOutcome' /\ ClientInv'
  BY ClientRests DEF PipeInv, SessionInv, PipelineOutcome, Outcome
<1> QED  BY <1>1, <1>2, <1>3, <1>4, <1>5 DEF PipeInv, SessionInv, Outcome

LEMMA FinishRunKeeps == ASSUME PipeInv, FinishRun PROVE PipeInv'
<1> USE DEF FinishRun, inputVars, engineVars, clientVars
<1>1. FinalStatus \in Outcome /\ (FinalStatus = "FAILED" <=> \E p \in DOMAIN batch : result[p] = "bad")
  BY DEF PipeInv, FailedInv, FinalStatus, Outcome
<1>2. PipeTypeOK'
  BY <1>1 DEF PipeInv, PipeTypeOK
<1>3. IdleInv' /\ LoopInv' /\ AgainInv' /\ FailedInv'
  BY DEF PipeInv, IdleInv, LoopInv, AgainInv, FailedInv, InLoop
<1>4. LeftOut'
  BY DEF PipeInv, LeftOut
<1>5. SessionInv' /\ PipelineOutcome' /\ ClientInv'
  BY <1>1, <1>4, ClientRests DEF PipeInv, SessionInv, PipelineOutcome, LeftOut, Outcome
<1> QED  BY <1>2, <1>3, <1>4, <1>5 DEF PipeInv

\* The last message of an execution.
LEMMA SendKeeps ==
  ASSUME PipeInv, NEW event \in {"error"} \cup Outcome, Send(event),
         event \in Outcome => event = psession,
         event = "error" => outages' > 0,
         outages' \in outages .. MaxOutages,
         ppc # "idle",
         UNCHANGED <<inputVars, pos, result, again, hasFailed, psession, clientVars>>
  PROVE  PipeInv'
<1> USE DEF Send, inputVars, engineVars, clientVars
<1>0. outages' \in 0 .. MaxOutages
  BY PipelineAssumption DEF PipeInv, PipeTypeOK
<1>1. PipeTypeOK'
  BY ZenonT(60), <1>0 DEF PipeInv, PipeTypeOK
<1>2. IdleInv' /\ LoopInv' /\ AgainInv' /\ FailedInv'
  BY DEF PipeInv, IdleInv, LoopInv, AgainInv, FailedInv, InLoop, inputVars
<1>3. SessionInv' /\ PipelineOutcome'
  BY DEF PipeInv, SessionInv, PipelineOutcome, Outcome, inputVars
<1>4. ClientInv'
  BY DEF PipeInv, PipeTypeOK, ClientInv, Outcome, inputVars, clientVars
<1>5. ppc' = "finish" \/ psession' \in Outcome => LeftOut'
  BY DEF PipeInv, LeftOut, inputVars
<1> QED  BY <1>1, <1>2, <1>3, <1>4, <1>5 DEF PipeInv

LEMMA AnnounceKeeps == ASSUME PipeInv, Announce PROVE PipeInv'
<1>1. psession \in Outcome /\ "error" \notin Outcome
  BY DEF PipeInv, SessionInv, Announce, Outcome
<1>2. outages' \in outages .. MaxOutages
  BY PipelineAssumption DEF PipeInv, PipeTypeOK, Announce
<1> QED  BY <1>1, <1>2, SendKeeps DEF Announce

LEMMA ThrowsKeep == ASSUME PipeInv, Throws PROVE PipeInv'
<1>1. outages' \in outages .. MaxOutages /\ outages' > 0
  BY PipelineAssumption DEF PipeInv, PipeTypeOK, Throws, Outage
<1> QED  BY <1>1, SendKeeps DEF Throws, Outcome

LEMMA OpenKeeps == ASSUME PipeInv, Open PROVE PipeInv'
<1> USE DEF Open, inputVars, engineVars, clientVars
<1>1. PipeTypeOK'
  BY DEF PipeInv, PipeTypeOK, inputVars, engineVars
<1>2. ClientInv'
  BY DEF PipeInv, ClientInv, Outcome, engineVars
<1>3. ppc # "idle"
  BY DEF PipeInv, IdleInv
<1> QED  BY <1>1, <1>2, <1>3, EngineRests

LEMMA HearKeeps == ASSUME PipeInv, Hear PROVE PipeInv'
<1> USE DEF Hear, inputVars, engineVars, clientVars
<1>1. PipeTypeOK'
  BY DEF PipeInv, PipeTypeOK, inputVars, engineVars
<1>2. ClientInv'
  BY DEF PipeInv, ClientInv, Outcome, engineVars
<1>3. ppc # "idle"
  BY DEF PipeInv, IdleInv
<1> QED  BY <1>1, <1>2, <1>3, EngineRests

LEMMA FinalizeKeeps == ASSUME PipeInv, Finalize PROVE PipeInv'
<1> USE DEF Finalize, inputVars, engineVars, clientVars
<1>0. stream' \in BOOLEAN /\ PipeTypeOK
  BY DEF PipeInv
<1>1. PipeTypeOK'
  BY ZenonT(60), <1>0 DEF PipeTypeOK
<1>2. ClientInv'
  BY DEF PipeInv, ClientInv, Outcome, engineVars, clientVars
<1>3. ppc # "idle"
  BY DEF PipeInv, IdleInv
<1> QED  BY <1>1, <1>2, <1>3, EngineRests

LEMMA DisconnectKeeps == ASSUME PipeInv, Disconnect PROVE PipeInv'
<1> USE DEF Disconnect, inputVars, engineVars, clientVars
<1>1. PipeTypeOK'
  BY PipelineAssumption DEF PipeInv, PipeTypeOK, Outage, inputVars, engineVars
<1>2. ClientInv'
  BY PipelineAssumption DEF PipeInv, PipeTypeOK, ClientInv, Outcome, Outage, engineVars
<1>3. ppc # "idle"
  BY DEF PipeInv, IdleInv
<1> QED  BY <1>1, <1>2, <1>3, EngineRests

LEMMA DeathKeeps == ASSUME PipeInv, PipeDies PROVE PipeInv'
<1> USE DEF PipeDies, inputVars, engineVars, clientVars
<1>0. outages' \in 0 .. MaxOutages /\ outages' > 0
  BY PipelineAssumption DEF PipeInv, PipeTypeOK, Outage
<1>1. PipeTypeOK'
  BY ZenonT(60), <1>0 DEF PipeInv, PipeTypeOK
<1>2. IdleInv' /\ LoopInv' /\ AgainInv' /\ FailedInv'
  BY DEF PipeInv, IdleInv, LoopInv, AgainInv, FailedInv, InLoop, inputVars
<1>3. SessionInv' /\ PipelineOutcome'
  BY DEF PipeInv, SessionInv, PipelineOutcome, Outcome, inputVars
<1>4. ClientInv'
  BY PipelineAssumption DEF PipeInv, PipeTypeOK, ClientInv, Outcome, Outage
<1>5. ppc' = "finish" \/ psession' \in Outcome => LeftOut'
  BY DEF PipeInv, LeftOut, inputVars
<1> QED  BY <1>1, <1>2, <1>3, <1>4, <1>5 DEF PipeInv

LEMMA StutterKeeps == ASSUME PipeInv, UNCHANGED pipeVars PROVE PipeInv'
BY DEF PipeInv, PipeTypeOK, IdleInv, LoopInv, FailedInv, AgainInv, LeftOut, SessionInv,
       PipelineOutcome, ClientInv, pipeVars, inputVars, engineVars, clientVars

LEMMA PipeStep == PipeInv /\ [PipeNext]_pipeVars => PipeInv'
<1> SUFFICES ASSUME PipeInv, [PipeNext]_pipeVars PROVE PipeInv'
  OBVIOUS
<1>1. CASE \E b \in Batch, how \in {"answer", "events"} : Post(b, how)
  BY <1>1, PostKeeps
<1>2. CASE EngineStep
  BY <1>2, CreateKeeps, RecordKeeps, NextNodeKeeps, FinishRunKeeps, AnnounceKeeps,
     ExecuteKeeps, RetryKeeps DEF EngineStep
<1>3. CASE ClientStep
  BY <1>3, OpenKeeps, HearKeeps, FinalizeKeeps DEF ClientStep
<1>4. CASE Throws \/ Disconnect \/ PipeDies
  BY <1>4, ThrowsKeep, DisconnectKeeps, DeathKeeps
<1>5. CASE UNCHANGED pipeVars
  BY <1>5, StutterKeeps
<1> QED  BY <1>1, <1>2, <1>3, <1>4, <1>5 DEF PipeNext, PipeOn

-----------------------------------------------------------------------------
\* The run of a graph: its plan and its nodes

NodePlace == {"idle", "running", "working", "pausing", "threw", "ok", "bad"}

\* The part of RunTypeOK that the plan and its nodes need.
PlanTypes ==
  /\ flow \in Workflow
  /\ levels \in Seq(SUBSET DOMAIN flow) /\ level \in 0 .. Len(levels)
  /\ at \in [DOMAIN flow -> NodePlace]
  /\ verdict \in {"SUCCEEDED", "FAILED", "BLOCKED"}

\* Each level holds nodes of the plan that are in no other, behind what they need.
LevelsInv ==
  \A l \in DOMAIN levels :
    /\ levels[l] # {} /\ levels[l] \subseteq ToPlan
    /\ Linear => levels[l] = {l}
    /\ \A m \in DOMAIN levels : m # l => levels[l] \cap levels[m] = {}
    /\ \A p \in levels[l] : \A q \in Needs(p) : \E m \in 1 .. l - 1 : q \in levels[m]

Through(l) == \A p \in levels[l] : at[p] = "ok" /\ flow[p].type # "human"

\* How far the run has come: levels behind it, the one it is at, those before it.
ReachInv ==
  /\ pc \in {"idle", "create", "created", "start", "plan"} => level = 0
  /\ pc \in {"level", "await", "finish", "complete", "returned"} => Planned = ToPlan
  /\ \A p \in DOMAIN flow : at[p] # "idle" => \E l \in 1 .. level : p \in levels[l]
  /\ \A l \in 1 .. level : l < level => Through(l)
  /\ pc = "level" /\ level > 0 => Through(level)
  /\ pc = "await" => level > 0
  /\ level > 0 => \A p \in levels[level] : at[p] # "idle"

\* The status the run arrives at.
VerdictInv ==
  /\ pc \in {"idle", "create", "created", "start", "plan", "level", "await"} => verdict = "SUCCEEDED"
  /\ pc \in {"finish", "complete", "returned"} =>
       /\ level > 0 => \A p \in levels[level] : at[p] \in {"ok", "bad"}
       /\ verdict = "SUCCEEDED" => level = Len(levels) /\ (level > 0 => Through(level))
       /\ verdict = "FAILED" => level > 0 /\ \E p \in levels[level] : at[p] = "bad"
       /\ verdict = "BLOCKED" => level > 0 /\ \E p \in levels[level] : flow[p].type = "human"
       /\ verdict # "FAILED" /\ level > 0 => \A p \in levels[level] : at[p] = "ok"
  /\ pc \in {"create", "created", "start", "plan", "level", "await", "finish"} => session = "RUNNING"
  /\ pc = "idle" => session = "none"
  /\ pc \in {"complete", "returned"} => session = verdict
  /\ pc = "complete" => verdict # "BLOCKED"

PlanInv == PlanTypes /\ LevelsInv /\ ReachInv /\ VerdictInv

-----------------------------------------------------------------------------

\* Where the mission stands for a run left alone.
Alone == ops = 0 /\ faults = 0
Asked == \E p \in DOMAIN flow : flow[p].type = "human" /\ at[p] \in {"pausing", "ok"}
InGraph == {"plan", "level", "await", "finish"}

ActTypes == act \in [Actor -> Act] /\ ops \in Nat /\ faults \in Nat /\ linked \in BOOLEAN

MissionInv ==
  /\ ops = 0 => \A u \in User : act[u] = Idle
  /\ pc \in {"idle", "create"} \cup InGraph => act[Runner] = Idle
  /\ pc \in {"idle", "create", "created"} => ~linked
  /\ pc = "idle" /\ ops = 0 => mission = "none"
  /\ Alone =>
       /\ pc = "create" => mission = "none"
       /\ pc = "created" => mission = "PLANNING" /\ act[Runner] = [at |-> "say", to |-> "PLANNING"]
       /\ pc = "start" =>
            \/ mission = "PLANNING" /\ act[Runner] \in {Idle, [at |-> "write", to |-> "RUNNING"]}
            \/ mission = "RUNNING" /\ act[Runner] = [at |-> "say", to |-> "RUNNING"]
       /\ pc \in InGraph /\ linked => mission = IF Asked THEN "WAITING_HUMAN" ELSE "RUNNING"
       /\ pc = "complete" /\ act[Runner] # Idle => act[Runner].at = "say" /\ mission = verdict
       /\ pc = "returned" /\ linked => mission = IF verdict = "BLOCKED" THEN "WAITING_HUMAN" ELSE verdict
       /\ linked => \A p \in DOMAIN flow : flow[p].type = "human" => at[p] \notin {"working", "bad"}

\* One operation at a time, and what it has still to tell.
TellInv ==
  /\ mission = "none" => told = "none" /\ aired = "none" /\ \A a \in Actor : act[a] = Idle
  /\ faults = 0 /\ ~overlap =>
       /\ \A a, b \in Actor : act[a] # Idle /\ act[b] # Idle => a = b
       /\ (\A a \in Actor : act[a].at # "say") => told = mission /\ aired = mission
       /\ \A a \in Actor : act[a].at = "say" => act[a].to = mission

RunInv == PlanInv /\ ActTypes /\ MissionInv /\ TellInv

\* Why a run ended before its session did.
CauseInv ==
  /\ pc = "threw" => faults > 0 \/ level = 0 \/ \E p \in DOMAIN flow : at[p] = "threw"
  /\ pc = "dead" => faults > 0
  /\ \A p \in DOMAIN flow : at[p] = "threw" => ~flow[p].resolves

\* Which of the engines ran the nodes of the draft.
PageInv ==
  /\ page = "draft" => ppc = "idle"
  /\ ppc # "idle" \/ page = "fallback" => cut \/ pc \in {"idle", "threw", "dead"}
  /\ ppc # "idle" /\ page = "idle" => pc = "idle"
  /\ page # "idle" => \A p \in DOMAIN flow : flow[p].resolves
  /\ CauseInv

-----------------------------------------------------------------------------
\* The plan

LEMMA PlanFacts ==
  ASSUME PlanTypes
  PROVE  /\ Len(flow) \in Nat /\ DOMAIN flow = 1 .. Len(flow)
         /\ Len(levels) \in Nat /\ DOMAIN levels = 1 .. Len(levels) /\ level \in Nat /\ level <= Len(levels)
         /\ \A l \in DOMAIN levels : levels[l] \subseteq DOMAIN flow
BY RunsAssumption DEF PlanTypes

LEMMA FlowRests ==
  ASSUME flow' = flow
  PROVE  /\ ToPlan' = ToPlan /\ (Linear' <=> Linear) /\ Kept' = Kept /\ \A p : Needs(p)' = Needs(p)
         /\ Actor' = Actor
BY DEF ToPlan, Linear, Kept, Needs, Id, Actor

LEMMA RunStarts == RunInit => RunInv
<1> SUFFICES ASSUME RunInit PROVE RunInv
  OBVIOUS
<1> USE DEF RunInit
<1>1. PlanTypes
  BY DEF PlanTypes, NodePlace
<1>2. LevelsInv /\ ReachInv /\ VerdictInv
  BY DEF LevelsInv, ReachInv, VerdictInv
<1>3. ActTypes
  BY RunsAssumption DEF ActTypes, Act
<1>4. MissionInv
  BY DEF MissionInv, InGraph, Actor
<1>5. TellInv
  BY DEF TellInv, Idle
<1> QED  BY <1>1, <1>2, <1>3, <1>4, <1>5 DEF RunInv, PlanInv

LEMMA LevelsRest ==
  ASSUME PlanInv, UNCHANGED <<flow, levels>>
  PROVE  LevelsInv' /\ Planned' = Planned
BY FlowRests DEF PlanInv, LevelsInv, Planned

Before == {"idle", "create", "created", "start", "plan"}

\* A step of the run that leaves the plan and its nodes alone.
LEMMA PlanRests ==
  ASSUME PlanInv, UNCHANGED <<flow, levels, level, at, verdict>>,
         \/ pc' = pc /\ session' = session
         \/ pc \in Before /\ pc' \in Before \ {"idle"} /\ session' = "RUNNING"
         \/ pc' \in {"threw", "dead"}
         \/ pc = "complete" /\ pc' = "returned" /\ session' = session
  PROVE  PlanInv'
<1>1. PlanTypes'
  BY DEF PlanInv, PlanTypes
<1>2. ReachInv'
  BY LevelsRest, FlowRests DEF PlanInv, ReachInv, Through, Before
<1>3. VerdictInv'
  BY DEF PlanInv, VerdictInv, Through, Before
<1> QED  BY <1>1, <1>2, <1>3, LevelsRest DEF PlanInv

\* What a node of the next level needs is planned.
LEMMA ReadyNeeds ==
  ASSUME PlanInv
  PROVE  /\ Ready \subseteq ToPlan
         /\ \A l \in DOMAIN levels : Ready \cap levels[l] = {}
         /\ Linear /\ Ready # {} => Ready = {Len(levels) + 1}
         /\ \A p \in Ready : \A q \in Needs(p) : \E m \in DOMAIN levels : q \in levels[m]
<1>1. CASE Linear
  <2>1. \A l \in DOMAIN levels : levels[l] = {l}
    BY <1>1 DEF PlanInv, LevelsInv
  <2>2. Ready = {p \in DOMAIN flow : p = Len(levels) + 1} /\ ToPlan = DOMAIN flow
    BY <1>1 DEF Ready, ToPlan
  <2>3. \A p \in Ready : Needs(p) = {q \in DOMAIN flow : q < p}
    BY <1>1 DEF Needs
  <2>4. \A p \in Ready : \A q \in Needs(p) : q \in DOMAIN levels
    BY <2>2, <2>3, PlanFacts DEF PlanInv
  <2>5. \A l \in DOMAIN levels : Len(levels) + 1 # l
    BY PlanFacts DEF PlanInv
  <2> QED  BY <2>1, <2>2, <2>4, <2>5
<1>2. CASE ~Linear
  <2>1. Ready = {p \in Kept \ Planned : flow[p].dependsOn \subseteq Id(Planned)} /\ ToPlan = Kept
    BY <1>2 DEF Ready, ToPlan
  <2>2. Planned \subseteq Kept
    BY <2>1 DEF PlanInv, LevelsInv, Planned
  <2>3. ASSUME NEW p \in Ready, NEW q \in Needs(p) PROVE q \in Planned
    <3>1. Id(Planned) \subseteq Id(Kept)
      BY <2>2 DEF Id
    <3>2. q \in Kept /\ flow[q].id \in flow[p].dependsOn
      BY <1>2, <2>1, <2>3, <3>1 DEF Needs
    <3>3. PICK r \in Planned : flow[r].id = flow[q].id
      BY <2>1, <3>2 DEF Id
    <3>4. ~(r > q) /\ ~(q > r) /\ r \in DOMAIN flow /\ q \in DOMAIN flow
      BY <2>2, <3>2, <3>3 DEF Kept
    <3>5. q = r
      BY <3>4, PlanFacts DEF PlanInv
    <3> QED  BY <3>3, <3>5
  <2> QED  BY <1>2, <2>1, <2>3 DEF Planned
<1> QED  BY <1>1, <1>2

LEMMA PlanLevelKeeps == ASSUME PlanInv, PlanLevel PROVE PlanInv'
<1> USE DEF PlanLevel, missionVars
<1>1. /\ Len(levels') = Len(levels) + 1 /\ DOMAIN levels' = 1 .. Len(levels) + 1
      /\ \A l \in DOMAIN levels : levels'[l] = levels[l]
      /\ levels'[Len(levels) + 1] = Ready
      /\ Ready \subseteq DOMAIN flow
      /\ levels' \in Seq(SUBSET DOMAIN flow)
  <2>1. Ready \subseteq DOMAIN flow
    BY DEF Ready, Kept
  <2> QED  BY <2>1 DEF PlanInv, PlanTypes
<1>2. PlanTypes'
  BY <1>1, PlanFacts DEF PlanInv, PlanTypes
<1>3. LevelsInv'
  <2> SUFFICES ASSUME NEW l \in DOMAIN levels'
               PROVE  /\ levels'[l] # {} /\ levels'[l] \subseteq ToPlan
                      /\ Linear => levels'[l] = {l}
                      /\ \A m \in DOMAIN levels' : m # l => levels'[l] \cap levels'[m] = {}
                      /\ \A p \in levels'[l] : \A q \in Needs(p) : \E m \in 1 .. l - 1 : q \in levels'[m]
    BY FlowRests DEF LevelsInv
  <2>0. Len(levels) \in Nat /\ DOMAIN levels = 1 .. Len(levels)
    BY PlanFacts DEF PlanInv
  <2>1. CASE l \in DOMAIN levels
    <3>1. levels'[l] = levels[l] /\ \A m \in 1 .. l - 1 : levels'[m] = levels[m]
      BY <1>1, <2>0, <2>1
    <3>2. \A m \in DOMAIN levels' : m # l => levels'[l] \cap levels'[m] = {}
      BY <1>1, <2>0, <2>1, <3>1, ReadyNeeds DEF PlanInv, LevelsInv
    <3>3. \A p \in levels'[l] : \A q \in Needs(p) : \E m \in 1 .. l - 1 : q \in levels'[m]
      BY <2>1, <3>1 DEF PlanInv, LevelsInv
    <3> QED  BY <2>1, <3>1, <3>2, <3>3 DEF PlanInv, LevelsInv
  <2>2. CASE l = Len(levels) + 1
    <3>1. levels'[l] = Ready /\ 1 .. l - 1 = DOMAIN levels
      BY <1>1, <2>0, <2>2
    <3>2. \A m \in DOMAIN levels' : m # l => levels'[l] \cap levels'[m] = {}
      BY <1>1, <2>0, <2>2, <3>1, ReadyNeeds
    <3>3. \A p \in levels'[l] : \A q \in Needs(p) : \E m \in 1 .. l - 1 : q \in levels'[m]
      BY <1>1, <3>1, ReadyNeeds
    <3> QED  BY <2>2, <3>1, <3>2, <3>3, ReadyNeeds
  <2> QED  BY <1>1, <2>0, <2>1, <2>2
<1>4. ReachInv'
  BY PlanFacts DEF PlanInv, ReachInv
<1>5. VerdictInv'
  BY DEF PlanInv, VerdictInv
<1> QED  BY <1>2, <1>3, <1>4, <1>5 DEF PlanInv

LEMMA PlanEndsKeeps == ASSUME PlanInv, PlanEnds PROVE PlanInv'
<1> USE DEF PlanEnds, Goto, planVars
<1>1. PlanTypes' /\ LevelsInv'
  BY LevelsRest DEF PlanInv, PlanTypes
<1>2. ReachInv'
  BY LevelsRest, FlowRests DEF PlanInv, ReachInv
<1>3. VerdictInv'
  BY DEF PlanInv, VerdictInv
<1> QED  BY <1>1, <1>2, <1>3 DEF PlanInv

\* Before a level begins its nodes are at rest.
LEMMA NextLevelIdle ==
  ASSUME PlanInv, NEW l \in DOMAIN levels, l > level
  PROVE  \A p \in levels[l] : at[p] = "idle" /\ p \in DOMAIN flow /\ p \in ToPlan
<1> SUFFICES ASSUME NEW p \in levels[l] PROVE at[p] = "idle" /\ p \in DOMAIN flow /\ p \in ToPlan
  OBVIOUS
<1>1. p \in DOMAIN flow /\ p \in ToPlan
  BY PlanFacts DEF PlanInv, LevelsInv
<1>2. ASSUME NEW m \in 1 .. level PROVE p \notin levels[m]
  BY <1>2, PlanFacts DEF PlanInv, LevelsInv
<1> QED  BY <1>1, <1>2 DEF PlanInv, ReachInv

\* Behind a level that is through, every node that was begun succeeded.
LEMMA BegunSucceeded ==
  ASSUME PlanInv, level > 0 => Through(level)
  PROVE  \A p \in DOMAIN flow : at[p] # "idle" => at[p] = "ok" /\ flow[p].type # "human"
<1> SUFFICES ASSUME NEW p \in DOMAIN flow, at[p] # "idle" PROVE at[p] = "ok" /\ flow[p].type # "human"
  OBVIOUS
<1>1. PICK l \in 1 .. level : p \in levels[l]
  BY DEF PlanInv, ReachInv
<1>2. Through(l)
  BY <1>1, PlanFacts DEF PlanInv, ReachInv
<1> QED  BY <1>1, <1>2 DEF Through

LEMMA BeginLevelKeeps == ASSUME PlanInv, BeginLevel PROVE PlanInv'
<1> USE DEF BeginLevel, Goto, missionVars
<1>0. /\ level + 1 \in DOMAIN levels /\ level' = level + 1 /\ level' \in 0 .. Len(levels) /\ level \in Nat
  BY PlanFacts DEF PlanInv
<1>1. /\ \A p \in levels[level + 1] : at[p] = "idle" /\ at'[p] = "running"
      /\ \A p \in DOMAIN flow : p \notin levels[level + 1] => at'[p] = at[p]
  BY <1>0, NextLevelIdle, PlanFacts DEF PlanInv
<1>2. at' \in [DOMAIN flow -> NodePlace]
  BY DEF PlanInv, PlanTypes, NodePlace
<1>3. PlanTypes'
  BY <1>0, <1>2 DEF PlanInv, PlanTypes
<1>4. LevelsInv'
  BY LevelsRest
<1>5. ReachInv'
  <2>1. \A p \in DOMAIN flow : at'[p] # "idle" => \E l \in 1 .. level + 1 : p \in levels[l]
    BY <1>0, <1>1, PlanFacts DEF PlanInv, ReachInv
  <2>2. \A l \in 1 .. level : Through(l)
    BY <1>0 DEF PlanInv, ReachInv
  <2>3. \A l \in 1 .. level : Through(l)'
    <3> SUFFICES ASSUME NEW l \in 1 .. level, NEW p \in levels[l] PROVE at'[p] = "ok" /\ flow[p].type # "human"
      BY DEF Through
    <3>1. at[p] = "ok" /\ flow[p].type # "human"
      BY <2>2 DEF Through
    <3>2. p \in DOMAIN flow
      BY <1>0, PlanFacts DEF PlanInv
    <3>3. p \notin levels[level + 1]
      BY <1>1, <3>1
    <3> QED  BY <1>1, <3>1, <3>2, <3>3
  <2>4. Planned' = ToPlan'
    BY LevelsRest, FlowRests DEF PlanInv, ReachInv
  <2> QED  BY <1>0, <1>1, <2>1, <2>3, <2>4 DEF ReachInv
<1>6. VerdictInv'
  BY DEF PlanInv, VerdictInv
<1> QED  BY <1>3, <1>4, <1>5, <1>6 DEF PlanInv

LEMMA EndLevelKeeps == ASSUME PlanInv, EndLevel PROVE PlanInv'
<1> USE DEF EndLevel, Goto, planVars
<1>0. level \in DOMAIN levels /\ level > 0 /\ level \in Nat
  BY PlanFacts DEF PlanInv, ReachInv
<1>1. PlanTypes' /\ LevelsInv'
  BY LevelsRest DEF PlanInv, PlanTypes, Verdict
<1>2. Verdict = "SUCCEEDED" => Through(level)
  BY DEF Verdict, Through
<1>3. ReachInv'
  BY <1>0, <1>2, LevelsRest, FlowRests DEF PlanInv, ReachInv, Through
<1>4. VerdictInv'
  <2>1. /\ Verdict = "FAILED" => \E p \in levels[level] : at[p] = "bad"
        /\ Verdict = "BLOCKED" => \E p \in levels[level] : flow[p].type = "human"
        /\ Verdict # "FAILED" => \A p \in levels[level] : at[p] = "ok"
        /\ Verdict \in {"SUCCEEDED", "FAILED", "BLOCKED"}
    BY DEF Verdict
  <2> QED  BY <1>0, <2>1 DEF PlanInv, VerdictInv
<1> QED  BY <1>1, <1>3, <1>4 DEF PlanInv

LEMMA NoLevelLeftKeeps == ASSUME PlanInv, NoLevelLeft PROVE PlanInv'
<1> USE DEF NoLevelLeft, Goto, planVars
<1>1. PlanTypes' /\ LevelsInv'
  BY LevelsRest DEF PlanInv, PlanTypes
<1>2. ReachInv'
  BY LevelsRest, FlowRests DEF PlanInv, ReachInv, Through
<1>3. VerdictInv'
  BY DEF PlanInv, VerdictInv, ReachInv, Through
<1> QED  BY <1>1, <1>2, <1>3 DEF PlanInv

LEMMA FinishKeepsPlan == ASSUME PlanInv, Finish PROVE PlanInv'
<1> USE DEF Finish, Goto, planVars
<1>1. PlanTypes' /\ LevelsInv'
  BY LevelsRest DEF PlanInv, PlanTypes
<1>2. ReachInv'
  BY LevelsRest, FlowRests DEF PlanInv, ReachInv, Through
<1>3. VerdictInv'
  BY DEF PlanInv, VerdictInv, Through
<1> QED  BY <1>1, <1>2, <1>3 DEF PlanInv

\* A node goes on, or answers.
LEMMA AnswerKeeps ==
  ASSUME PlanInv, NEW p \in DOMAIN flow, NEW answer \in NodePlace \ {"idle"}, Answer(p, answer),
         at[p] \in {"running", "working", "pausing"}, pc' \in {pc, "threw"}
  PROVE  PlanInv' /\ (\A q \in DOMAIN flow : at'[q] = IF q = p THEN answer ELSE at[q])
                  /\ p \in levels[level] /\ p \in ToPlan
<1> USE DEF Answer, planVars
<1>0. level \in DOMAIN levels /\ level > 0 /\ level \in Nat
  BY PlanFacts DEF PlanInv, ReachInv
<1>1. \A q \in DOMAIN flow : at'[q] = IF q = p THEN answer ELSE at[q]
  BY DEF PlanInv, PlanTypes
<1>2. PlanTypes' /\ LevelsInv'
  BY LevelsRest DEF PlanInv, PlanTypes
<1>3. \A l \in 1 .. level : l < level => Through(l) /\ p \notin levels[l] /\ levels[l] \subseteq DOMAIN flow
  BY PlanFacts DEF PlanInv, ReachInv, Through
<1>4. p \in levels[level] /\ levels[level] \subseteq DOMAIN flow /\ levels[level] \subseteq ToPlan
  BY <1>0, <1>3, PlanFacts DEF PlanInv, ReachInv, LevelsInv
<1>5. ReachInv'
  <2>1. \A l \in 1 .. level : l < level => Through(l)'
    BY <1>1, <1>3 DEF Through
  <2>2. \A q \in levels[level] : at'[q] # "idle"
    BY <1>0, <1>1, <1>4 DEF PlanInv, ReachInv
  <2>3. \A q \in DOMAIN flow : at'[q] # "idle" => \E l \in 1 .. level : q \in levels[l]
    BY <1>0, <1>1, <1>4 DEF PlanInv, ReachInv
  <2> QED  BY <1>0, <2>1, <2>2, <2>3, LevelsRest, FlowRests DEF PlanInv, ReachInv
<1>6. VerdictInv'
  BY DEF PlanInv, VerdictInv
<1> QED  BY <1>1, <1>2, <1>4, <1>5, <1>6 DEF PlanInv
-----------------------------------------------------------------------------
\* The operations on the mission

LEMMA Actors ==
  ASSUME flow \in Workflow
  PROVE  /\ Runner \in Actor /\ User \subseteq Actor /\ DOMAIN flow \subseteq Actor
         /\ Runner \notin DOMAIN flow /\ Runner \notin User
         /\ \A u \in User : u \notin DOMAIN flow /\ u # Runner
<1>1. DOMAIN flow \subseteq Nat
  BY RunsAssumption
<1> QED  BY <1>1, RunsAssumption DEF Actor

LEMMA ActFacts ==
  ASSUME ActTypes
  PROVE  /\ \A a \in Actor : act[a] \in Act /\ act[a].at \in {"idle", "write", "say"}
         /\ \A a \in Actor : act[a] = Idle <=> act[a].at = "idle"
         /\ \A a \in Actor : act[a] # Idle => act[a].to \in MissionStatus
         /\ "none" \notin MissionStatus /\ Idle.at = "idle"
BY DEF ActTypes, Act, Idle, MissionStatus, Ended

\* What a step does to the operation an actor has begun.
LEMMA ActChanges ==
  ASSUME ActTypes, NEW a \in Actor, NEW new \in Act, Actor' = Actor, act' = [act EXCEPT ![a] = new]
  PROVE  act' \in [Actor' -> Act] /\ act'[a] = new /\ \A b \in Actor \ {a} : act'[b] = act[b]
BY DEF ActTypes

LEMMA TellBegin ==
  ASSUME ActTypes, TellInv, NEW a \in Actor, NEW stage \in {"write", "say"}, NEW to \in MissionStatus,
         Begin(a, stage, to), Actor' = Actor, faults' = faults, UNCHANGED <<told, aired>>,
         \/ stage = "write" /\ mission' = mission /\ mission # "none"
         \/ stage = "say" /\ mission' = to
  PROVE  /\ act' \in [Actor' -> Act] /\ act'[a] = [at |-> stage, to |-> to]
         /\ \A b \in Actor \ {a} : act'[b] = act[b]
         /\ TellInv'
<1> DEFINE new == [at |-> stage, to |-> to]
<1>1. new \in Act /\ new.at = stage /\ new.to = to /\ new # Idle
  BY DEF Act, Idle
<1>2. act[a] = Idle /\ act' = [act EXCEPT ![a] = new]
  BY DEF Begin
<1> HIDE DEF new
<1>3. act' \in [Actor' -> Act] /\ act'[a] = new /\ \A b \in Actor \ {a} : act'[b] = act[b]
  BY <1>1, <1>2, ActChanges
<1>4. mission' # "none"
  BY ActFacts
<1>5. ASSUME faults' = 0, ~overlap'
      PROVE  /\ \A b, c \in Actor' : act'[b] # Idle /\ act'[c] # Idle => b = c
             /\ (\A b \in Actor' : act'[b].at # "say") => told' = mission' /\ aired' = mission'
             /\ \A b \in Actor' : act'[b].at = "say" => act'[b].to = mission'
  <2>1. \A b \in Actor \ {a} : act[b] = Idle
    BY <1>5 DEF Begin
  <2>2. ~overlap
    BY <1>5 DEF Begin
  <2>3. \A b \in Actor : act[b].at # "say"
    BY <1>2, <2>1, ActFacts
  <2>4. told = mission /\ aired = mission
    BY <1>5, <2>2, <2>3 DEF TellInv
  <2>5. \A b \in Actor \ {a} : act'[b] = Idle /\ act'[b].at # "say"
    BY <1>3, <2>1, ActFacts
  <2> QED  BY <1>1, <1>3, <2>4, <2>5
<1>6. TellInv'
  BY <1>4, <1>5 DEF TellInv
<1> QED  BY <1>3, <1>6 DEF new

LEMMA TellWrite ==
  ASSUME ActTypes, TellInv, NEW a \in Actor, Write(a), Actor' = Actor, faults' = faults
  PROVE  /\ act' \in [Actor' -> Act] /\ act'[a] = [at |-> "say", to |-> act[a].to]
         /\ \A b \in Actor \ {a} : act'[b] = act[b]
         /\ TellInv'
<1> DEFINE new == [at |-> "say", to |-> act[a].to]
<1>1. act[a] # Idle /\ act[a].to \in MissionStatus
  BY ActFacts DEF Write
<1>2. new \in Act /\ new.at = "say" /\ new.to = act[a].to /\ new # Idle
  BY <1>1 DEF Act, Idle
<1>3. act' = [act EXCEPT ![a] = new]
  <2>1. [act[a] EXCEPT !.at = "say"] = new
    BY <1>1 DEF ActTypes, Act, Idle
  <2> QED  BY <2>1 DEF Write
<1> HIDE DEF new
<1>4. act' \in [Actor' -> Act] /\ act'[a] = new /\ \A b \in Actor \ {a} : act'[b] = act[b]
  BY <1>2, <1>3, ActChanges
<1>5. mission' = act[a].to /\ mission' # "none" /\ UNCHANGED <<told, aired, overlap>>
  BY <1>1, ActFacts DEF Write
<1>6. ASSUME faults' = 0, ~overlap' PROVE \A b \in Actor \ {a} : act'[b] = Idle /\ act'[b].at # "say"
  BY <1>1, <1>4, <1>5, <1>6, ActFacts DEF TellInv
<1>7. TellInv'
  BY <1>2, <1>4, <1>5, <1>6 DEF TellInv
<1> QED  BY <1>4, <1>7 DEF new

LEMMA TellPublish ==
  ASSUME ActTypes, TellInv, NEW a \in Actor, NEW sent \in Sent, Publish(a, sent), Actor' = Actor
  PROVE  /\ act' \in [Actor' -> Act] /\ act'[a] = Idle /\ act[a].at = "say"
         /\ \A b \in Actor \ {a} : act'[b] = act[b]
         /\ faults' \in Nat /\ (faults' = 0 => sent = "everywhere" /\ faults = 0)
         /\ mission' = mission
         /\ TellInv'
<1>1. act[a].at = "say" /\ act[a] # Idle /\ Idle \in Act
  BY ActFacts DEF Publish, Act
<1>2. act' \in [Actor' -> Act] /\ act'[a] = Idle /\ \A b \in Actor \ {a} : act'[b] = act[b]
  BY <1>1, ActChanges DEF Publish
<1>3. faults' \in Nat /\ (faults' = 0 => sent = "everywhere" /\ faults = 0) /\ UNCHANGED <<mission, overlap>>
  BY DEF Publish, ActTypes
<1>4. mission # "none"
  BY <1>1 DEF TellInv
<1>5. ASSUME faults' = 0, ~overlap'
      PROVE  told' = mission' /\ aired' = mission' /\ \A b \in Actor : act'[b] = Idle
  <2>1. told' = act[a].to /\ aired' = act[a].to
    BY <1>3, <1>5 DEF Publish
  <2>2. act[a].to = mission
    BY <1>1, <1>3, <1>5 DEF TellInv
  <2>3. \A b \in Actor \ {a} : act[b] = Idle
    BY <1>1, <1>3, <1>5 DEF TellInv
  <2> QED  BY <1>2, <1>3, <2>1, <2>2, <2>3
<1>6. TellInv'
  BY <1>3, <1>4, <1>5, ActFacts DEF TellInv
<1> QED  BY <1>1, <1>2, <1>3, <1>6

\* Calls that fail, and a process that dies with what it has begun.
LEMMA TellRests ==
  ASSUME ActTypes, TellInv, Actor' = Actor, UNCHANGED <<mission, told, aired, overlap>>, faults' \in Nat,
         \/ act' = act /\ (faults' = faults \/ faults' > 0)
         \/ act' = [a \in Actor |-> Idle] /\ faults' > 0
         \/ act' = [act EXCEPT ![Runner] = Idle] /\ faults' > 0
  PROVE  act' \in [Actor' -> Act] /\ TellInv' /\ \A a \in Actor : act'[a] \in {act[a], Idle}
<1>1. Idle \in Act
  BY DEF Act
<1>2. act' \in [Actor' -> Act] /\ \A a \in Actor : act'[a] \in {act[a], Idle}
  BY <1>1 DEF ActTypes
<1>3. mission' = "none" => told' = "none" /\ aired' = "none" /\ \A a \in Actor' : act'[a] = Idle
  BY <1>2 DEF TellInv
<1>4. ASSUME act' = act, faults' = faults PROVE TellInv'
  BY <1>3, <1>4 DEF TellInv
<1>5. ASSUME faults' > 0 PROVE TellInv'
  BY <1>3, <1>5 DEF TellInv
<1> QED  BY <1>2, <1>4, <1>5

-----------------------------------------------------------------------------
\* The mission, one action at a time

Unsaid == act' \in [Actor' -> Act] /\ TellInv'

LEMMA CreateSessionKeeps == ASSUME RunInv, CreateSession PROVE RunInv'
<1> USE DEF CreateSession, Goto, planVars, missionVars
<1>1. PlanInv'
  BY PlanRests DEF RunInv, Before, PlanInv, VerdictInv
<1>2. Unsaid
  BY TellRests, FlowRests DEF RunInv, ActTypes, Unsaid
<1>3. MissionInv'
  BY FlowRests DEF RunInv, MissionInv, InGraph, Alone
<1> QED  BY <1>1, <1>2, <1>3 DEF RunInv, ActTypes, Unsaid

LEMMA CreateSessionFailsKeeps == ASSUME RunInv, CreateSessionFails PROVE RunInv'
<1> USE DEF CreateSessionFails, Goto, planVars, missionVars
<1>1. PlanInv'
  BY PlanRests DEF RunInv
<1>2. Unsaid /\ faults' \in Nat
  BY TellRests, FlowRests DEF RunInv, ActTypes, Unsaid
<1>3. MissionInv'
  BY FlowRests DEF RunInv, MissionInv, InGraph, Alone, ActTypes
<1> QED  BY <1>1, <1>2, <1>3 DEF RunInv, ActTypes, Unsaid

LEMMA CreateMissionKeeps == ASSUME RunInv, CreateMission PROVE RunInv'
<1> USE DEF CreateMission, Goto, planVars
<1>0. flow \in Workflow
  BY DEF RunInv, PlanInv, PlanTypes
<1>1. PlanInv'
  BY PlanRests DEF RunInv, Before, PlanInv, VerdictInv
<1>2. /\ Unsaid /\ act'[Runner] = [at |-> "say", to |-> "PLANNING"]
      /\ \A u \in User : act'[u] = act[u]
  <2>1. Begin(Runner, "say", "PLANNING") /\ mission' = "PLANNING" /\ UNCHANGED <<told, aired>>
    BY DEF Create, Set
  <2> QED  BY <1>0, <2>1, TellBegin, FlowRests, Actors DEF RunInv, Unsaid, MissionStatus
<1>3. MissionInv'
  BY <1>2, FlowRests DEF RunInv, MissionInv, InGraph, Alone, Create, Set
<1> QED  BY <1>1, <1>2, <1>3 DEF RunInv, ActTypes, Unsaid

LEMMA CreatedKeeps == ASSUME RunInv, NEW sent \in Sent, Created(sent) PROVE RunInv'
<1> USE DEF Created, Goto, planVars
<1>0. flow \in Workflow
  BY DEF RunInv, PlanInv, PlanTypes
<1>1. PlanInv'
  BY PlanRests DEF RunInv, Before, PlanInv, VerdictInv
<1>2. /\ Unsaid /\ act'[Runner] = Idle /\ \A u \in User : act'[u] = act[u]
      /\ mission' = mission /\ faults' \in Nat /\ (faults' = 0 => sent = "everywhere" /\ faults = 0)
  BY <1>0, TellPublish, FlowRests, Actors DEF RunInv, Unsaid
<1>3. \A p \in DOMAIN flow : at[p] = "idle"
  BY DEF RunInv, PlanInv, ReachInv
<1>4. MissionInv'
  BY <1>2, <1>3, FlowRests DEF RunInv, MissionInv, InGraph, Alone
<1>5. linked' \in BOOLEAN
  OBVIOUS
<1> QED  BY <1>1, <1>2, <1>4, <1>5 DEF RunInv, ActTypes, Unsaid

LEMMA StartMissionKeeps == ASSUME RunInv, StartMission PROVE RunInv'
<1> USE DEF StartMission, planVars
<1>0. flow \in Workflow
  BY DEF RunInv, PlanInv, PlanTypes
<1>1. PlanInv'
  BY PlanRests DEF RunInv
<1>2. /\ Unsaid /\ act'[Runner] = [at |-> "write", to |-> "RUNNING"]
      /\ \A u \in User : act'[u] = act[u]
  <2>1. /\ Begin(Runner, "write", "RUNNING") /\ mission' = mission /\ mission = "PLANNING"
        /\ UNCHANGED <<told, aired>>
    BY DEF Check
  <2> QED  BY <1>0, <2>1, TellBegin, FlowRests, Actors DEF RunInv, Unsaid, MissionStatus
<1>3. MissionInv'
  BY <1>2, FlowRests DEF RunInv, MissionInv, InGraph, Alone, Check
<1> QED  BY <1>1, <1>2, <1>3 DEF RunInv, ActTypes, Unsaid

LEMMA StartRefusedKeeps == ASSUME RunInv, StartRefused PROVE RunInv'
<1> USE DEF StartRefused, Goto, planVars, missionVars
<1>1. PlanInv'
  BY PlanRests DEF RunInv, Before, PlanInv, VerdictInv
<1>2. Unsaid
  BY TellRests, FlowRests DEF RunInv, ActTypes, Unsaid
<1>3. ~Alone
  BY DEF RunInv, MissionInv, Idle
<1>4. MissionInv'
  BY <1>3, FlowRests DEF RunInv, MissionInv, InGraph, Alone
<1> QED  BY <1>1, <1>2, <1>4 DEF RunInv, ActTypes, Unsaid

LEMMA WriteStartedKeeps == ASSUME RunInv, WriteStarted PROVE RunInv'
<1> USE DEF WriteStarted, planVars
<1>0. flow \in Workflow
  BY DEF RunInv, PlanInv, PlanTypes
<1>1. PlanInv'
  BY PlanRests DEF RunInv
<1>2. /\ Unsaid /\ act'[Runner] = [at |-> "say", to |-> act[Runner].to]
      /\ \A u \in User : act'[u] = act[u]
  BY <1>0, TellWrite, FlowRests, Actors DEF RunInv, Unsaid
<1>3. act[Runner].at = "write" /\ mission' = act[Runner].to /\ act[Runner] # Idle
  BY DEF Write, Idle
<1>4. MissionInv'
  BY <1>2, <1>3, FlowRests DEF RunInv, MissionInv, InGraph, Alone
<1> QED  BY <1>1, <1>2, <1>4 DEF RunInv, ActTypes, Unsaid

LEMMA StartedKeeps == ASSUME RunInv, NEW sent \in Sent, Started(sent) PROVE RunInv'
<1> USE DEF Started, Goto, planVars
<1>0. flow \in Workflow
  BY DEF RunInv, PlanInv, PlanTypes
<1>1. PlanInv'
  BY PlanRests DEF RunInv, Before, PlanInv, VerdictInv
<1>2. /\ Unsaid /\ act'[Runner] = Idle /\ act[Runner].at = "say" /\ \A u \in User : act'[u] = act[u]
      /\ mission' = mission /\ faults' \in Nat /\ (faults' = 0 => sent = "everywhere" /\ faults = 0)
  BY <1>0, TellPublish, FlowRests, Actors DEF RunInv, Unsaid
<1>3. \A p \in DOMAIN flow : at[p] = "idle"
  BY DEF RunInv, PlanInv, ReachInv
<1>4. MissionInv'
  BY <1>2, <1>3, FlowRests DEF RunInv, MissionInv, InGraph, Alone, Asked, Idle
<1> QED  BY <1>1, <1>2, <1>4 DEF RunInv, ActTypes, Unsaid
\* Planning, beginning and ending levels do not touch the mission.
LEMMA MissionRests ==
  ASSUME RunInv, PlanInv', UNCHANGED <<flow, missionVars, linked, ops, faults>>, pc \in InGraph,
         pc' \in InGraph \cup {"threw"},
         \A p \in DOMAIN flow : flow[p].type = "human" =>
           /\ at'[p] \in {"pausing", "ok"} <=> at[p] \in {"pausing", "ok"}
           /\ at'[p] \in {"working", "bad"} => at[p] \in {"working", "bad"} \/ ~linked
  PROVE  RunInv'
<1> USE DEF missionVars
<1>1. Unsaid
  BY TellRests, FlowRests DEF RunInv, ActTypes, Unsaid
<1>2. Asked' <=> Asked
  BY DEF Asked
<1>3. MissionInv'
  BY <1>2, FlowRests DEF RunInv, MissionInv, InGraph, Alone
<1> QED  BY <1>1, <1>3 DEF RunInv, ActTypes, Unsaid

LEMMA LevelStepsKeep ==
  ASSUME RunInv, PlanLevel \/ PlanEnds \/ BeginLevel \/ EndLevel \/ NoLevelLeft
  PROVE  RunInv'
<1>1. CASE PlanLevel \/ PlanEnds \/ EndLevel \/ NoLevelLeft
  <2>1. PlanInv'
    BY <1>1, PlanLevelKeeps, PlanEndsKeeps, EndLevelKeeps, NoLevelLeftKeeps DEF RunInv
  <2>2. /\ UNCHANGED <<flow, missionVars, linked, ops, faults, at>> /\ pc \in InGraph
        /\ pc' \in InGraph \cup {"threw"}
    BY <1>1 DEF PlanLevel, PlanEnds, EndLevel, NoLevelLeft, Goto, planVars, InGraph
  <2> QED  BY <2>1, <2>2, MissionRests
<1>2. CASE BeginLevel
  <2> USE DEF BeginLevel, Goto
  <2>1. PlanInv'
    BY <1>2, BeginLevelKeeps DEF RunInv
  <2>2. \A p \in DOMAIN flow : at'[p] = at[p] \/ (at[p] = "idle" /\ at'[p] = "running")
    <3>1. level + 1 \in DOMAIN levels /\ level + 1 > level
      BY <1>2, PlanFacts DEF RunInv, PlanInv
    <3>2. \A p \in levels[level + 1] : at[p] = "idle"
      BY <3>1, NextLevelIdle DEF RunInv
    <3> QED  BY <1>2, <3>2
  <2> QED  BY <1>2, <2>1, <2>2, MissionRests DEF InGraph
<1> QED  BY <1>1, <1>2

LEMMA FinishKeeps == ASSUME RunInv, Finish PROVE RunInv'
<1> USE DEF Finish, Goto, planVars, missionVars
<1>1. PlanInv'
  BY FinishKeepsPlan DEF RunInv
<1>2. Unsaid
  BY TellRests, FlowRests DEF RunInv, ActTypes, Unsaid
<1>3. verdict = "BLOCKED" => Asked
  <2> SUFFICES ASSUME verdict = "BLOCKED" PROVE Asked
    OBVIOUS
  <2>1. PICK p \in levels[level] : flow[p].type = "human" /\ at[p] = "ok" /\ level > 0
    BY DEF RunInv, PlanInv, VerdictInv
  <2>2. p \in DOMAIN flow
    BY <2>1, PlanFacts DEF RunInv, PlanInv
  <2> QED  BY <2>1, <2>2 DEF Asked
<1>4. MissionInv'
  BY <1>3, FlowRests DEF RunInv, MissionInv, InGraph, Alone
<1> QED  BY <1>1, <1>2, <1>4 DEF RunInv, ActTypes, Unsaid

LEMMA CallsFailKeep == ASSUME RunInv, FinishFails \/ MissionCallFails \/ ApiDies PROVE RunInv'
<1> USE DEF FinishFails, MissionCallFails, ApiDies, Goto, planVars, missionVars
<1>0. flow \in Workflow /\ faults \in Nat
  BY DEF RunInv, PlanInv, PlanTypes, ActTypes
<1>1. PlanInv'
  BY PlanRests DEF RunInv, PlanInv, VerdictInv, Before
<1>2. UNCHANGED <<flow, mission, told, aired, overlap, linked, ops>> /\ faults' \in Nat /\ faults' > 0
  BY <1>0
<1>3. Unsaid /\ \A a \in Actor : act'[a] \in {act[a], Idle}
  BY <1>0, <1>2, TellRests, FlowRests DEF RunInv, Unsaid
<1>4. /\ act' = act \/ act'[Runner] = Idle
      /\ pc' \in {"threw", "dead", "plan", "returned"}
      /\ pc' \in {"plan"} => act'[Runner] = Idle
  BY <1>0, Actors DEF RunInv, ActTypes
<1>5. MissionInv'
  BY <1>0, <1>2, <1>3, <1>4, Actors, FlowRests DEF RunInv, MissionInv, InGraph, Alone
<1> QED  BY <1>1, <1>2, <1>3, <1>5 DEF RunInv, ActTypes, Unsaid

LEMMA CompleteMissionKeeps == ASSUME RunInv, CompleteMission PROVE RunInv'
<1> USE DEF CompleteMission, planVars
<1>0. flow \in Workflow /\ verdict \in MissionStatus
  BY DEF RunInv, PlanInv, PlanTypes, VerdictInv, MissionStatus, Ended
<1>1. PlanInv'
  BY PlanRests DEF RunInv
<1>2. /\ Unsaid /\ act'[Runner] = [at |-> "say", to |-> verdict] /\ mission' = verdict
      /\ \A u \in User : act'[u] = act[u]
  <2>1. Begin(Runner, "say", verdict) /\ mission' = verdict /\ UNCHANGED <<told, aired>>
    BY DEF Set
  <2> QED  BY <1>0, <2>1, TellBegin, FlowRests, Actors DEF RunInv, Unsaid
<1>3. MissionInv'
  BY <1>2, FlowRests DEF RunInv, MissionInv, InGraph, Alone
<1> QED  BY <1>1, <1>2, <1>3 DEF RunInv, ActTypes, Unsaid

LEMMA CompletedKeeps == ASSUME RunInv, NEW sent \in Sent, Completed(sent) PROVE RunInv'
<1> USE DEF Completed, Goto, planVars
<1>0. flow \in Workflow
  BY DEF RunInv, PlanInv, PlanTypes
<1>1. PlanInv'
  BY PlanRests DEF RunInv
<1>2. /\ Unsaid /\ act'[Runner] = Idle /\ act[Runner] # Idle /\ \A u \in User : act'[u] = act[u]
      /\ mission' = mission /\ faults' \in Nat /\ (faults' = 0 => sent = "everywhere" /\ faults = 0)
  BY <1>0, TellPublish, ActFacts, FlowRests, Actors DEF RunInv, Unsaid
<1>3. verdict # "BLOCKED"
  BY DEF RunInv, PlanInv, VerdictInv
<1>4. MissionInv'
  BY <1>2, <1>3, FlowRests DEF RunInv, MissionInv, InGraph, Alone
<1> QED  BY <1>1, <1>2, <1>4 DEF RunInv, ActTypes, Unsaid
\* A node that answers without an operation on the mission.
LEMMA NodeAnswers ==
  ASSUME RunInv, NEW p \in DOMAIN flow, NEW answer \in NodePlace \ {"idle"}, Answer(p, answer),
         at[p] \in {"running", "working", "pausing"}, UNCHANGED missionVars, faults' \in Nat,
         faults' = faults \/ faults' > 0, IF answer = "threw" THEN pc' = "threw" ELSE pc' = pc,
         \/ faults' > 0 \/ ~linked
         \/ flow[p].type # "human"
         \/ answer = "threw"
         \/ at[p] = "working"
  PROVE  RunInv'
<1> USE DEF missionVars
<1>1. PlanInv' /\ \A q \in DOMAIN flow : at'[q] = IF q = p THEN answer ELSE at[q]
  BY AnswerKeeps DEF RunInv
<1>2. UNCHANGED <<flow, verdict, linked, ops>> /\ pc \in {"await", "threw"}
  BY DEF Answer, planVars
<1>3. Unsaid
  BY <1>2, TellRests, FlowRests DEF RunInv, ActTypes, Unsaid
<1>4. Alone' /\ linked => Alone /\ (flow[p].type # "human" \/ answer = "threw")
  BY <1>2 DEF Alone, RunInv, MissionInv
<1>5. Alone' /\ linked /\ answer # "threw" => (Asked' <=> Asked)
  BY <1>1, <1>2, <1>4 DEF Asked
<1>6. MissionInv'
  BY <1>1, <1>2, <1>4, <1>5, FlowRests DEF RunInv, MissionInv, InGraph, Alone
<1> QED  BY <1>1, <1>2, <1>3, <1>6 DEF RunInv, ActTypes, Unsaid

LEMMA HumanPausesKeeps == ASSUME RunInv, NEW p \in DOMAIN flow, HumanPauses(p) PROVE RunInv'
<1> USE DEF HumanPauses, Runs
<1>0. flow \in Workflow
  BY DEF RunInv, PlanInv, PlanTypes
<1>1. PlanInv' /\ \A q \in DOMAIN flow : at'[q] = IF q = p THEN "pausing" ELSE at[q]
  BY AnswerKeeps DEF RunInv, NodePlace
<1>2. UNCHANGED <<flow, pc, verdict, linked, ops>> /\ pc \in {"await", "threw"}
  BY DEF Answer, Runs, planVars
<1>3. Unsaid /\ \A a \in User \cup {Runner} : act'[a] = act[a]
  <2>1. /\ Begin(p, "say", "WAITING_HUMAN") /\ mission' = "WAITING_HUMAN" /\ UNCHANGED <<told, aired>>
    BY DEF Set
  <2>2. p \in Actor /\ \A a \in User \cup {Runner} : a \in Actor \ {p}
    BY <1>0, Actors
  <2>3. Unsaid /\ \A a \in Actor \ {p} : act'[a] = act[a]
    BY <1>2, <2>1, <2>2, TellBegin, FlowRests DEF RunInv, Unsaid, MissionStatus
  <2> QED  BY <2>2, <2>3
<1>4. Asked' /\ mission' = "WAITING_HUMAN"
  BY <1>1, <1>2 DEF Asked, Set
<1>5. MissionInv'
  BY <1>1, <1>2, <1>3, <1>4, FlowRests DEF RunInv, MissionInv, InGraph, Alone
<1> QED  BY <1>1, <1>2, <1>3, <1>5 DEF RunInv, ActTypes, Unsaid

LEMMA HumanPausedKeeps ==
  ASSUME RunInv, NEW p \in DOMAIN flow, NEW sent \in Sent, HumanPaused(p, sent)
  PROVE  RunInv'
<1> USE DEF HumanPaused
<1> DEFINE answer == IF sent = "everywhere" THEN "ok" ELSE "bad"
<1>0. flow \in Workflow
  BY DEF RunInv, PlanInv, PlanTypes
<1>1. PlanInv' /\ \A q \in DOMAIN flow : at'[q] = IF q = p THEN answer ELSE at[q]
  BY AnswerKeeps DEF RunInv, NodePlace
<1>2. UNCHANGED <<flow, pc, verdict, linked, ops>> /\ pc \in {"await", "threw"}
  BY DEF Answer, Runs, planVars
<1>3. /\ Unsaid /\ \A a \in User \cup {Runner} : act'[a] = act[a]
      /\ mission' = mission /\ faults' \in Nat /\ (faults' = 0 => sent = "everywhere" /\ faults = 0)
  BY <1>0, <1>2, TellPublish, FlowRests, Actors DEF RunInv, Unsaid
<1>4. Alone' => (Asked' <=> Asked)
  BY <1>1, <1>2, <1>3 DEF Asked, Alone
<1>5. MissionInv'
  BY <1>1, <1>2, <1>3, <1>4, FlowRests DEF RunInv, MissionInv, InGraph, Alone
<1> QED  BY <1>1, <1>2, <1>3, <1>5 DEF RunInv, ActTypes, Unsaid

LEMMA NodeKeeps ==
  ASSUME RunInv, NEW p \in DOMAIN flow, NodeStep(p) \/ Answered(p) \/ NodeIsCutOff(p)
  PROVE  RunInv'
<1> USE DEF NodePlace, Runs
<1>0. faults \in Nat
  BY DEF RunInv, ActTypes
<1>1. CASE NodeSucceeds(p)
  BY <1>0, <1>1, NodeAnswers DEF NodeSucceeds
<1>2. CASE NodeFails(p)
  BY <1>0, <1>2, NodeAnswers DEF NodeFails
<1>3. CASE NodeAsks(p)
  BY <1>0, <1>3, NodeAnswers DEF NodeAsks
<1>4. ASSUME NEW answer \in {"ok", "bad"}, NodeIsAnswered(p, answer) PROVE RunInv'
  BY <1>0, <1>4, NodeAnswers DEF NodeIsAnswered
<1>5. CASE NodeIsCutOff(p)
  BY <1>0, <1>5, NodeAnswers DEF NodeIsCutOff
<1>6. CASE NodeThrows(p)
  BY <1>0, <1>6, NodeAnswers DEF NodeThrows, Goto
<1> QED  BY <1>1, <1>2, <1>3, <1>4, <1>5, <1>6, HumanPausesKeeps, HumanPausedKeeps DEF NodeStep, Answered

-----------------------------------------------------------------------------
\* The mission controller

LEMMA UserBeginsKeeps == ASSUME RunInv, NEW u \in User, UserBegins(u) PROVE RunInv'
<1>0. flow \in Workflow /\ ops \in Nat
  BY DEF RunInv, PlanInv, PlanTypes, ActTypes
<1>1. UNCHANGED <<flow, wants, levels, level, pc, at, verdict, session, linked, faults>> /\ ops' \in Nat /\ ops' > 0
  BY <1>0 DEF UserBegins, runVarsButMission, planVars
<1>2. PlanInv'
  BY <1>1, PlanRests DEF RunInv
<1>3. PICK stage \in {"write", "say"}, to \in MissionStatus :
        /\ Begin(u, stage, to) /\ UNCHANGED <<told, aired>>
        /\ \/ stage = "write" /\ mission' = mission /\ mission # "none"
           \/ stage = "say" /\ mission' = to
  <2>1. CASE Create(u)
    BY <2>1 DEF Create, Set, MissionStatus
  <2>2. CASE Check(u, "PLANNING") \/ Check(u, "WAITING_HUMAN")
    BY <2>2 DEF Check, MissionStatus
  <2>3. ASSUME NEW s \in {"WAITING_HUMAN"} \cup Closing, Set(u, s)
        PROVE  \E stage \in {"write", "say"}, to \in MissionStatus :
                 /\ Begin(u, stage, to) /\ UNCHANGED <<told, aired>>
                 /\ \/ stage = "write" /\ mission' = mission /\ mission # "none"
                    \/ stage = "say" /\ mission' = to
    <3>1. s \in MissionStatus
      BY RunsAssumption DEF MissionStatus, Ended
    <3> QED  BY <2>3, <3>1 DEF Set
  <2> QED  BY <2>1, <2>2, <2>3 DEF UserBegins
<1>4. Unsaid /\ act'[Runner] = act[Runner]
  <2>1. u \in Actor /\ Runner \in Actor \ {u} /\ Actor' = Actor
    BY <1>0, <1>1, Actors, FlowRests
  <2>2. Unsaid /\ \A b \in Actor \ {u} : act'[b] = act[b]
    BY <1>1, <1>3, <2>1, TellBegin DEF RunInv, Unsaid
  <2> QED  BY <2>1, <2>2
<1>5. MissionInv'
  BY <1>1, <1>4, FlowRests DEF RunInv, MissionInv, InGraph, Alone
<1> QED  BY <1>1, <1>2, <1>4, <1>5 DEF RunInv, ActTypes, Unsaid

LEMMA UserStepKeeps == ASSUME RunInv, NEW u \in User, UserStep(u) PROVE RunInv'
<1>0. flow \in Workflow /\ ops \in Nat /\ u \in Actor
  BY Actors DEF RunInv, PlanInv, PlanTypes, ActTypes
<1>1. UNCHANGED <<flow, wants, levels, level, pc, at, verdict, session, linked, ops>>
  BY DEF UserStep, runVarsButMission, planVars
<1>2. PlanInv'
  BY <1>1, PlanRests DEF RunInv
<1>3. Unsaid /\ act'[Runner] = act[Runner] /\ act[u] # Idle /\ faults' \in Nat
  <2>1. CASE Write(u) /\ UNCHANGED faults
    <3>1. act[u] # Idle
      BY <1>0, <2>1, ActFacts DEF Write, RunInv
    <3> QED  BY <1>0, <1>1, <2>1, <3>1, TellWrite, FlowRests, Actors DEF RunInv, Unsaid, ActTypes
  <2>2. ASSUME NEW sent \in Sent, Publish(u, sent) PROVE Unsaid /\ act'[Runner] = act[Runner] /\ act[u] # Idle /\ faults' \in Nat
    BY <1>0, <1>1, <2>2, TellPublish, ActFacts, FlowRests, Actors DEF RunInv, Unsaid
  <2> QED  BY <2>1, <2>2 DEF UserStep
<1>4. ops # 0
  BY <1>3 DEF RunInv, MissionInv
<1>5. MissionInv'
  BY <1>0, <1>1, <1>3, <1>4, FlowRests DEF RunInv, MissionInv, InGraph, Alone
<1> QED  BY <1>1, <1>2, <1>3, <1>5 DEF RunInv, ActTypes, Unsaid

LEMMA RunKeeps == ASSUME RunInv, [RunNext]_runVars PROVE RunInv'
<1>1. CASE RunStep
  BY <1>1, CreateMissionKeeps, StartMissionKeeps, StartRefusedKeeps, WriteStartedKeeps, CreatedKeeps,
     StartedKeeps, CompletedKeeps, LevelStepsKeep, FinishKeeps, CompleteMissionKeeps DEF RunStep
<1>2. ASSUME NEW p \in Position, NodeStep(p) \/ Answered(p) \/ (p \in DOMAIN flow /\ NodeIsCutOff(p)) PROVE RunInv'
  BY <1>2, NodeKeeps DEF NodeStep, Answered
<1>3. CASE RunOn
  BY <1>1, <1>2, <1>3, CallsFailKeep DEF RunOn
<1>4. CASE UNCHANGED runVars
  <2>1. PlanInv'
    BY <1>4, PlanRests DEF RunInv, runVars, planVars
  <2>2. UNCHANGED <<flow, pc, at, verdict, session, linked, mission, told, aired, act, overlap, ops, faults>>
    BY <1>4 DEF runVars, planVars, missionVars
  <2>3. ActTypes' /\ TellInv'
    BY <2>2, FlowRests DEF RunInv, ActTypes, TellInv
  <2>4. MissionInv'
    BY <2>2, FlowRests DEF RunInv, MissionInv, Alone, Asked
  <2> QED  BY <2>1, <2>3, <2>4 DEF RunInv
<1> QED  BY <1>3, <1>4, CreateSessionKeeps, CreateSessionFailsKeeps, UserBeginsKeeps, UserStepKeeps, CallsFailKeep
         DEF RunNext
-----------------------------------------------------------------------------
\* The run implements GraphExecution

RunOutcome == IF session \in {"none", "RUNNING"} THEN "running" ELSE session

LEMMA GraphRests ==
  ASSUME UNCHANGED <<flow, at>>, RunOutcome' = RunOutcome
  PROVE  UNCHANGED Graph!graphVars
<1>1. ToPlan' = ToPlan /\ \A p : Needs(p)' = Needs(p)
  BY FlowRests
<1>2. [p \in ToPlan |-> Needs(p)]' = [p \in ToPlan |-> Needs(p)]
  BY <1>1
<1> QED  BY <1>1, <1>2 DEF RunOutcome, Graph!graphVars

\* Every level that was begun, but for the last, is through.
LEMMA Behind ==
  ASSUME PlanInv, NEW p \in DOMAIN flow, at[p] # "idle"
  PROVE  p \in ToPlan /\ level > 0 /\ (p \in levels[level] \/ at[p] = "ok")
<1>1. PICK l \in 1 .. level : p \in levels[l]
  BY DEF PlanInv, ReachInv
<1>2. l \in DOMAIN levels /\ level > 0
  BY <1>1, PlanFacts DEF PlanInv
<1>3. p \in ToPlan
  BY <1>1, <1>2 DEF PlanInv, LevelsInv
<1>4. CASE l < level
  BY <1>1, <1>2, <1>3, <1>4 DEF PlanInv, ReachInv, Through
<1>5. CASE l = level
  BY <1>1, <1>2, <1>3, <1>5
<1> QED  BY <1>1, <1>4, <1>5, PlanFacts DEF PlanInv

LEMMA BeginLevelStarts ==
  ASSUME PlanInv, BeginLevel
  PROVE  \E S \in SUBSET DOMAIN [p \in ToPlan |-> Needs(p)] : Graph!Start(S)
<1> USE DEF BeginLevel, missionVars
<1>0. PICK S : S = levels[level + 1]
  OBVIOUS
<1>1. level \in Nat /\ level + 1 \in DOMAIN levels /\ ToPlan \subseteq DOMAIN flow
  BY PlanFacts DEF PlanInv, ToPlan, Kept
<1>2. S # {} /\ S \subseteq ToPlan /\ \A p \in S : at[p] = "idle"
  BY <1>0, <1>1, NextLevelIdle DEF PlanInv, LevelsInv
<1>3. \A p \in DOMAIN flow : at[p] # "idle" => at[p] = "ok"
  BY BegunSucceeded DEF PlanInv, ReachInv
<1>4. \A n \in S : Needs(n) \subseteq {p \in ToPlan : at[p] = "ok"}
  <2> SUFFICES ASSUME NEW n \in S, NEW q \in Needs(n) PROVE q \in ToPlan /\ at[q] = "ok"
    OBVIOUS
  <2>1. PICK m \in 1 .. level : q \in levels[m]
    BY <1>0, <1>1 DEF PlanInv, LevelsInv
  <2>2. Through(m)
    BY <1>1, <2>1 DEF PlanInv, ReachInv
  <2>3. m \in DOMAIN levels
    BY <1>1, <2>1, PlanFacts DEF PlanInv
  <2> QED  BY <2>1, <2>2, <2>3 DEF Through, PlanInv, LevelsInv
<1>5. \A p \in DOMAIN flow : at'[p] = IF p \in S THEN "running" ELSE at[p]
  BY <1>0
<1>6. RunOutcome = "running" /\ RunOutcome' = RunOutcome
  BY DEF PlanInv, VerdictInv, RunOutcome
<1>7. UNCHANGED flow /\ ToPlan' = ToPlan /\ [p \in ToPlan |-> Needs(p)]' = [p \in ToPlan |-> Needs(p)]
  BY FlowRests
<1>8. Graph!Start(S)
  <2>1. {p \in ToPlan : at[p] = "bad"} = {}
    BY <1>1, <1>3
  <2>2. S \subseteq ToPlan \ {p \in ToPlan : at[p] # "idle"}
    BY <1>2
  <2>3. {p \in ToPlan : at[p] # "idle"}' = {p \in ToPlan : at[p] # "idle"} \cup S
    BY <1>1, <1>2, <1>5, <1>7
  <2>4. /\ {p \in ToPlan : at[p] = "ok"}' = {p \in ToPlan : at[p] = "ok"}
        /\ {p \in ToPlan : at[p] = "bad"}' = {p \in ToPlan : at[p] = "bad"}
        /\ {p \in ToPlan : flow[p].type = "human"}' = {p \in ToPlan : flow[p].type = "human"}
    BY <1>1, <1>2, <1>5, <1>7
  <2>5. DOMAIN [p \in ToPlan |-> Needs(p)] = ToPlan /\ \A n \in S : [p \in ToPlan |-> Needs(p)][n] = Needs(n)
    BY <1>2
  <2>6. \A n \in S : [p \in ToPlan |-> Needs(p)][n] \subseteq {p \in ToPlan : at[p] = "ok"}
    BY <1>4, <2>5
  <2>7. (IF session \in {"none", "RUNNING"} THEN "running" ELSE session) = "running"
        /\ (IF session \in {"none", "RUNNING"} THEN "running" ELSE session)' = "running"
    BY <1>6 DEF RunOutcome
  <2>8. S # {} /\ S \subseteq (DOMAIN [p \in ToPlan |-> Needs(p)]) \ {p \in ToPlan : at[p] # "idle"}
    BY <1>2, <2>2, <2>5
  <2> QED  BY <1>7, <2>1, <2>3, <2>4, <2>6, <2>7, <2>8 DEF Graph!Start
<1> QED  BY <1>2, <1>8

LEMMA FinishEnds ==
  ASSUME PlanInv, Finish
  PROVE  \E o \in {"SUCCEEDED", "FAILED", "BLOCKED"} : Graph!End(o)
<1> USE DEF Finish, planVars, missionVars
<1>1. level \in Nat /\ ToPlan \subseteq DOMAIN flow
  BY PlanFacts DEF PlanInv, ToPlan, Kept
<1>2. verdict \in {"SUCCEEDED", "FAILED", "BLOCKED"} /\ RunOutcome = "running" /\ RunOutcome' = verdict
  BY DEF PlanInv, PlanTypes, VerdictInv, RunOutcome
<1>3. \A p \in ToPlan : at[p] # "idle" => at[p] \in {"ok", "bad"}
  BY <1>1, Behind DEF PlanInv, VerdictInv
<1>4. level > 0 => level \in DOMAIN levels /\ levels[level] \subseteq ToPlan
  BY PlanFacts DEF PlanInv, LevelsInv
<1>5. verdict = "FAILED" => \E p \in ToPlan : at[p] = "bad"
  BY <1>4 DEF PlanInv, VerdictInv
<1>6. verdict # "FAILED" => \A p \in ToPlan : at[p] # "bad"
  BY <1>1, Behind DEF PlanInv, VerdictInv
<1>7. verdict = "BLOCKED" => \E p \in ToPlan : at[p] = "ok" /\ flow[p].type = "human"
  BY <1>4 DEF PlanInv, VerdictInv
<1>8. verdict = "SUCCEEDED" => \A p \in ToPlan : at[p] = "ok" /\ flow[p].type # "human"
  <2> SUFFICES ASSUME verdict = "SUCCEEDED", NEW p \in ToPlan PROVE at[p] = "ok" /\ flow[p].type # "human"
    OBVIOUS
  <2>1. PICK l \in DOMAIN levels : p \in levels[l]
    BY DEF PlanInv, ReachInv, Planned
  <2>2. level = Len(levels) /\ (level > 0 => Through(level))
    BY DEF PlanInv, VerdictInv
  <2>3. l \in 1 .. level
    BY <2>1, <2>2, PlanFacts DEF PlanInv
  <2>4. Through(l)
    BY <1>1, <2>2, <2>3 DEF PlanInv, ReachInv
  <2> QED  BY <2>1, <2>4 DEF Through
<1>9. UNCHANGED <<flow, at>> /\ ToPlan' = ToPlan /\ [p \in ToPlan |-> Needs(p)]' = [p \in ToPlan |-> Needs(p)]
  BY FlowRests
<1>10. Graph!End(verdict)
  <2>1. {p \in ToPlan : at[p] # "idle"} = {p \in ToPlan : at[p] = "ok"} \cup {p \in ToPlan : at[p] = "bad"}
    BY <1>3
  <2>2. \/ verdict = "FAILED" /\ {p \in ToPlan : at[p] = "bad"} # {}
        \/ /\ verdict = "BLOCKED" /\ {p \in ToPlan : at[p] = "bad"} = {}
           /\ {p \in ToPlan : at[p] = "ok"} \cap {p \in ToPlan : flow[p].type = "human"} # {}
        \/ /\ verdict = "SUCCEEDED"
           /\ {p \in ToPlan : at[p] = "ok"} = DOMAIN [p \in ToPlan |-> Needs(p)]
           /\ {p \in ToPlan : at[p] = "ok"} \cap {p \in ToPlan : flow[p].type = "human"} = {}
    BY <1>2, <1>5, <1>6, <1>7, <1>8
  <2> QED  BY <1>2, <1>9, <2>1, <2>2 DEF Graph!End, RunOutcome
<1> QED  BY <1>2, <1>10

LEMMA AnswerFollows ==
  ASSUME PlanInv, NEW p \in DOMAIN flow, NEW answer \in {"ok", "bad", "working", "pausing", "threw"},
         Answer(p, answer), at[p] \in {"running", "working", "pausing"}, pc' \in {pc, "threw"}
  PROVE  [Graph!GraphNext]_(Graph!graphVars)
<1>1. p \in ToPlan /\ \A q \in DOMAIN flow : at'[q] = IF q = p THEN answer ELSE at[q]
  BY AnswerKeeps DEF NodePlace
<1>2. ToPlan \subseteq DOMAIN flow
  BY DEF ToPlan, Kept
<1>3. UNCHANGED <<flow, session>> /\ ToPlan' = ToPlan /\ [q \in ToPlan |-> Needs(q)]' = [q \in ToPlan |-> Needs(q)]
  BY FlowRests DEF Answer, planVars
<1>4. /\ {q \in ToPlan : at[q] # "idle"}' = {q \in ToPlan : at[q] # "idle"}
      /\ {q \in ToPlan : flow[q].type = "human"}' = {q \in ToPlan : flow[q].type = "human"}
  BY <1>1, <1>2, <1>3
<1>5. p \in {q \in ToPlan : at[q] # "idle"} \ ({q \in ToPlan : at[q] = "ok"} \cup {q \in ToPlan : at[q] = "bad"})
  BY <1>1
<1>6. CASE answer = "ok"
  <2>1. /\ {q \in ToPlan : at[q] = "ok"}' = {q \in ToPlan : at[q] = "ok"} \cup {p}
        /\ {q \in ToPlan : at[q] = "bad"}' = {q \in ToPlan : at[q] = "bad"}
    BY <1>1, <1>2, <1>3, <1>6
  <2>2. Graph!Succeed(p)
    BY <1>3, <1>4, <1>5, <2>1 DEF Graph!Succeed
  <2> QED  BY <1>1, <2>2 DEF Graph!GraphNext
<1>7. CASE answer = "bad"
  <2>1. /\ {q \in ToPlan : at[q] = "bad"}' = {q \in ToPlan : at[q] = "bad"} \cup {p}
        /\ {q \in ToPlan : at[q] = "ok"}' = {q \in ToPlan : at[q] = "ok"}
    BY <1>1, <1>2, <1>3, <1>7
  <2>2. Graph!Fail(p)
    BY <1>3, <1>4, <1>5, <2>1 DEF Graph!Fail
  <2> QED  BY <1>1, <2>2 DEF Graph!GraphNext
<1>8. CASE answer \in {"working", "pausing", "threw"}
  <2>1. /\ {q \in ToPlan : at[q] = "ok"}' = {q \in ToPlan : at[q] = "ok"}
        /\ {q \in ToPlan : at[q] = "bad"}' = {q \in ToPlan : at[q] = "bad"}
    BY <1>1, <1>2, <1>3, <1>8
  <2> QED  BY <1>3, <1>4, <2>1 DEF Graph!graphVars
<1> QED  BY <1>6, <1>7, <1>8

LEMMA RunFollows ==
  ASSUME RunInv, [RunNext]_runVars
  PROVE  [Graph!GraphNext]_(Graph!graphVars)
<1>0. PlanInv
  BY DEF RunInv
<1>1. CASE BeginLevel
  BY <1>0, <1>1, BeginLevelStarts DEF Graph!GraphNext
<1>2. CASE Finish
  BY <1>0, <1>2, FinishEnds DEF Graph!GraphNext
<1>3. ASSUME NEW p \in DOMAIN flow, NodeStep(p) \/ Answered(p) \/ NodeIsCutOff(p) PROVE [Graph!GraphNext]_(Graph!graphVars)
  <2>1. PICK answer \in {"ok", "bad", "working", "pausing", "threw"} :
          Answer(p, answer) /\ at[p] \in {"running", "working", "pausing"} /\ pc' \in {pc, "threw"}
    BY <1>3 DEF NodeStep, Answered, NodeThrows, NodeSucceeds, NodeFails, NodeAsks, NodeIsAnswered, HumanPauses,
                HumanPaused, NodeIsCutOff, Runs, Goto
  <2> QED  BY <1>0, <2>1, AnswerFollows
<1>4. CASE UNCHANGED <<flow, at, session>>
  BY <1>4, GraphRests DEF RunOutcome
<1>5. CASE CreateSession
  <2>1. UNCHANGED <<flow, at>> /\ RunOutcome' = RunOutcome
    BY <1>0, <1>5 DEF CreateSession, planVars, PlanInv, VerdictInv, RunOutcome
  <2> QED  BY <2>1, GraphRests
<1>6. ASSUME RunStep PROVE BeginLevel \/ Finish \/ UNCHANGED <<flow, at, session>>
  BY <1>6 DEF RunStep, CreateMission, StartMission, StartRefused, WriteStarted, Created, Started, Completed,
              PlanLevel, PlanEnds, EndLevel, NoLevelLeft, CompleteMission, planVars
<1>7. ASSUME CreateSessionFails \/ FinishFails \/ MissionCallFails \/ ApiDies PROVE UNCHANGED <<flow, at, session>>
  BY <1>7 DEF CreateSessionFails, FinishFails, MissionCallFails, ApiDies, planVars
<1>8. ASSUME NEW u \in User, UserBegins(u) \/ UserStep(u) PROVE UNCHANGED <<flow, at, session>>
  BY <1>8 DEF UserBegins, UserStep, runVarsButMission, planVars
<1>9. ASSUME UNCHANGED runVars PROVE UNCHANGED <<flow, at, session>>
  BY <1>9 DEF runVars, planVars
<1>10. ASSUME NEW p \in Position, NodeStep(p) \/ Answered(p) PROVE p \in DOMAIN flow
  BY <1>10 DEF NodeStep, Answered
<1> QED  BY <1>1, <1>2, <1>3, <1>4, <1>5, <1>6, <1>7, <1>8, <1>9, <1>10 DEF RunNext, RunOn

-----------------------------------------------------------------------------
\* The page

LEMMA InputOfDraft ==
  ASSUME RunInv
  PROVE  [p \in DOMAIN flow |-> [onFailure |-> flow[p].onFailure]] \in Batch
BY BuilderAssumption DEF RunInv, PlanInv, PlanTypes

LEMMA StepsOfRun == [Next]_vars => [RunNext]_runVars
<1> SUFFICES ASSUME [Next]_vars PROVE [RunNext]_runVars
  OBVIOUS
<1>1. CASE ExecuteDraft
  BY <1>1 DEF ExecuteDraft, RunNext
<1>2. CASE PageStep \/ DraftIsCut
  BY <1>2 DEF PageStep, DraftAnswered, DraftFails, FallBack, PipelineAnswered, DraftIsCut
<1>3. CASE CallRun \/ CallPipeline
  BY <1>3 DEF CallRun, CallPipeline, RunNext
<1>4. CASE UserActs
  BY <1>4 DEF UserActs, RunNext
<1>5. CASE RunOn
  BY <1>5 DEF RunNext
<1>6. CASE UNCHANGED runVars
  BY <1>6
<1>7. CASE ProcessDies
  BY <1>7 DEF ProcessDies, RunNext
<1>8. CASE UNCHANGED vars
  BY <1>8 DEF vars
<1> QED  BY <1>1, <1>2, <1>3, <1>4, <1>5, <1>6, <1>7, <1>8 DEF Next

\* An outage the page sees, which the pipeline does not.
LEMMA OutageKeeps ==
  ASSUME PipeInv, Outage, UNCHANGED <<inputVars, engineVars, stream, mail, clientVars>>
  PROVE  PipeInv'
<1> USE DEF inputVars, engineVars, clientVars
<1>1. outages' \in 0 .. MaxOutages /\ outages' > 0
  BY PipelineAssumption DEF PipeInv, PipeTypeOK, Outage
<1>2. PipeTypeOK'
  BY <1>1 DEF PipeInv, PipeTypeOK
<1>3. ClientInv'
  BY <1>1 DEF PipeInv, ClientInv
<1>4. IdleInv' /\ LoopInv' /\ FailedInv' /\ AgainInv' /\ SessionInv' /\ PipelineOutcome' /\ LeftOut' = LeftOut
  BY DEF PipeInv, IdleInv, LoopInv, FailedInv, AgainInv, SessionInv, PipelineOutcome, LeftOut
<1> QED  BY <1>2, <1>3, <1>4 DEF PipeInv

LEMMA StepsOfPipeline ==
  ASSUME RunInv, PipeInv, [Next]_vars
  PROVE  PipeInv'
<1>1. CASE DraftIsCut
  BY <1>1, OutageKeeps DEF DraftIsCut
<1>2. CASE FallBack
  <2>1. PICK b \in Batch : Post(b, "answer")
    BY <1>2, InputOfDraft DEF FallBack
  <2> QED  BY <2>1, PostKeeps
<1>3. CASE CallPipeline
  BY <1>3, PostKeeps DEF CallPipeline
<1>4. CASE PipeOn \/ PipeDies \/ UNCHANGED pipeVars
  BY <1>4, PipeStep DEF PipeNext
<1> QED  BY <1>1, <1>2, <1>3, <1>4 DEF Next, PageStep, ExecuteDraft, DraftAnswered, DraftFails, PipelineAnswered,
            CallRun, UserActs, ProcessDies, vars

\* A run that ended before its session did was hit by a fault, had no plan, or
\* has a node that does not resolve.
LEMMA EndsForCause ==
  ASSUME RunInv, [RunNext]_runVars, CauseInv
  PROVE  CauseInv'
<1> USE DEF Goto, planVars, missionVars, CauseInv
<1>0. faults \in Nat /\ (pc = "plan" => level = 0) /\ at \in [DOMAIN flow -> NodePlace]
  BY DEF RunInv, ActTypes, PlanInv, PlanTypes, ReachInv
<1>1. CASE CreateSession \/ CreateSessionFails \/ FinishFails \/ MissionCallFails \/ ApiDies
  BY <1>0, <1>1 DEF CreateSession, CreateSessionFails, FinishFails, MissionCallFails, ApiDies
<1>2. CASE RunStep
  <2>1. ASSUME NEW sent \in Sent, Created(sent) \/ Started(sent) \/ Completed(sent)
        PROVE  pc' \notin {"threw", "dead"} /\ UNCHANGED <<flow, at>>
    BY <2>1 DEF Created, Started, Completed
  <2>2. CASE BeginLevel
    BY <1>0, <2>2 DEF BeginLevel
  <2> QED  BY <1>0, <1>2, <2>1, <2>2 DEF RunStep, CreateMission, StartMission, StartRefused, WriteStarted, PlanLevel,
             PlanEnds, EndLevel, NoLevelLeft, Finish, CompleteMission
<1>3. ASSUME NEW p \in DOMAIN flow, NodeStep(p) \/ Answered(p) \/ NodeIsCutOff(p) PROVE CauseInv'
  <2>1. PICK answer \in NodePlace :
          /\ Answer(p, answer) /\ at[p] \in {"running", "working", "pausing"}
          /\ \/ answer = "threw" /\ ~flow[p].resolves /\ pc' = "threw"
             \/ answer # "threw" /\ pc' = pc
          /\ faults' = faults \/ faults' = faults + 1
    BY <1>3 DEF NodeStep, Answered, NodeThrows, NodeSucceeds, NodeFails, NodeAsks, NodeIsAnswered, HumanPauses,
                HumanPaused, Publish, NodeIsCutOff, Runs, NodePlace
  <2>2. UNCHANGED <<flow, level>> /\ \A q \in DOMAIN flow : at'[q] = IF q = p THEN answer ELSE at[q]
    BY <1>0, <2>1 DEF Answer
  <2>3. pc' # "dead"
    BY <2>1 DEF Answer
  <2> QED  BY <1>0, <2>1, <2>2, <2>3
<1>4. ASSUME NEW u \in User, UserBegins(u) \/ UserStep(u)
      PROVE  UNCHANGED <<pc, level, flow, at>> /\ (faults > 0 => faults' > 0)
  BY <1>0, <1>4 DEF UserBegins, UserStep, runVarsButMission, Publish
<1>5. CASE UNCHANGED runVars
  BY <1>5 DEF runVars
<1>6. ASSUME NEW p \in Position, NodeStep(p) \/ Answered(p) PROVE p \in DOMAIN flow
  BY <1>6 DEF NodeStep, Answered
<1> QED  BY <1>1, <1>2, <1>3, <1>4, <1>5, <1>6 DEF RunNext, RunOn

\* A run that has not begun, or is over without its session, stays there.
LEMMA StaysThere ==
  ASSUME RunOn, pc \in {"idle", "threw", "dead"}
  PROVE  pc' = pc
<1>1. ~RunStep
  BY DEF RunStep, CreateMission, StartMission, StartRefused, WriteStarted, Created, Started, Completed, PlanLevel,
         PlanEnds, BeginLevel, EndLevel, NoLevelLeft, Finish, CompleteMission
<1>2. ~FinishFails /\ ~MissionCallFails
  BY DEF FinishFails, MissionCallFails
<1>3. \A p \in Position : NodeStep(p) \/ Answered(p) \/ NodeIsCutOff(p) => pc' = pc
  BY DEF NodeStep, Answered, NodeThrows, NodeSucceeds, NodeFails, NodeAsks, NodeIsAnswered, HumanPauses, HumanPaused,
         NodeIsCutOff, Answer, Runs, Goto
<1> QED  BY <1>1, <1>2, <1>3 DEF RunOn

LEMMA FlowStays == [RunNext]_runVars => flow' = flow
<1> USE DEF planVars, missionVars, runVarsButMission, runVars
<1>1. RunStep => flow' = flow
  BY DEF RunStep, CreateMission, StartMission, StartRefused, WriteStarted, Created, Started, Completed, PlanLevel,
         PlanEnds, BeginLevel, EndLevel, NoLevelLeft, Finish, CompleteMission
<1>2. \A p \in Position : NodeStep(p) \/ Answered(p) \/ NodeIsCutOff(p) => flow' = flow
  BY DEF NodeStep, Answered, NodeThrows, NodeSucceeds, NodeFails, NodeAsks, NodeIsAnswered, HumanPauses, HumanPaused,
         NodeIsCutOff, Answer
<1>3. RunOn => flow' = flow
  BY <1>1, <1>2 DEF RunOn, FinishFails, MissionCallFails
<1> QED  BY <1>3 DEF RunNext, CreateSession, CreateSessionFails, UserBegins, UserStep, ApiDies

LEMMA PageStarts == Init => RunInv /\ PipeInv /\ PageInv
<1>1. Init => PageInv
  BY DEF Init, RunInit, PipeInit, PageInv, CauseInv
<1> QED  BY <1>1, RunStarts, PipeStarts DEF Init

LEMMA PageKeeps ==
  ASSUME RunInv, PageInv, [Next]_vars
  PROVE  PageInv'
<1> USE DEF PageInv
<1>1. CauseInv' /\ flow' = flow
  BY StepsOfRun, EndsForCause, FlowStays
<1>2. CASE ExecuteDraft
  BY <1>1, <1>2 DEF ExecuteDraft, pipeVars, engineVars
<1>3. CASE PageStep
  <2>1. CASE DraftAnswered \/ DraftFails \/ PipelineAnswered
    BY <1>1, <2>1 DEF DraftAnswered, DraftFails, PipelineAnswered, runVars, pipeVars, engineVars
  <2>2. CASE FallBack
    BY <1>1, <2>2 DEF FallBack, runVars
  <2> QED  BY <1>3, <2>1, <2>2 DEF PageStep
<1>4. CASE DraftIsCut
  BY <1>1, <1>4 DEF DraftIsCut
<1>5. CASE CallRun
  BY <1>1, <1>5 DEF CallRun, pipeVars, engineVars, pageVars
<1>6. CASE CallPipeline
  BY <1>1, <1>6 DEF CallPipeline, runVars, pageVars
<1>7. CASE UserActs
  <2>1. ASSUME NEW u \in User, UserBegins(u) \/ UserStep(u) PROVE pc' = pc
    BY <2>1 DEF UserBegins, UserStep, runVarsButMission
  <2> QED  BY <1>1, <1>7, <2>1 DEF UserActs, pipeVars, engineVars, pageVars
<1>8. CASE RunOn /\ UNCHANGED <<pipeVars, pageVars>>
  BY <1>1, <1>8, StaysThere DEF pipeVars, engineVars, pageVars
<1>9. CASE PipeOn /\ UNCHANGED <<runVars, pageVars>>
  <2>1. ppc = "idle" => ppc' = "idle"
    BY <1>9 DEF PipeOn, EngineStep, CreateRun, Record, NextNode, FinishRun, Announce, Execute, Retry, Throws,
                ClientStep, Open, Hear, Finalize, Disconnect, engineVars
  <2> QED  BY <1>1, <1>9, <2>1 DEF runVars, pageVars
<1>10. CASE ProcessDies
  <2>1. pc' = pc \/ (pc' = "dead" /\ pc # "idle")
    BY <1>10 DEF ProcessDies, ApiDies, RunOver, Goto, runVars
  <2>2. ppc = "idle" => ppc' = "idle"
    BY <1>10 DEF ProcessDies, PipeDies, pipeVars, engineVars
  <2> QED  BY <1>1, <1>10, <2>1, <2>2 DEF ProcessDies, pageVars
<1>11. CASE UNCHANGED vars
  BY <1>1, <1>11 DEF vars, runVars, pipeVars, engineVars, pageVars
<1> QED  BY <1>2, <1>3, <1>4, <1>5, <1>6, <1>7, <1>8, <1>9, <1>10, <1>11 DEF Next

EnginesInv == RunInv /\ PipeInv /\ PageInv

LEMMA EnginesKeep == EnginesInv /\ [Next]_vars => EnginesInv'
BY StepsOfRun, RunKeeps, StepsOfPipeline, PageKeeps DEF EnginesInv

LEMMA Invariance == Spec => []EnginesInv
<1>1. Init => EnginesInv
  BY PageStarts DEF EnginesInv
<1> QED  BY <1>1, EnginesKeep, PTL DEF Spec

-----------------------------------------------------------------------------
\* Theorems

\* The state of PipelineEngine.execute, its stream and its client stays within
\* its types.
THEOREM PipelineTypeCorrect == PipeSpec => []PipeTypeOK
<1>1. PipeInv => PipeTypeOK
  BY DEF PipeInv
<1> QED  BY PipeStarts, PipeStep, <1>1, PTL DEF PipeSpec

\* The session of a pipeline ends as the last attempts at its nodes did, and
\* leaves out only what is behind a node that stopped it.
THEOREM OutcomeIsOfNodes == Spec => []PipelineOutcome
<1>1. EnginesInv => PipelineOutcome
  BY DEF EnginesInv, PipeInv
<1> QED  BY Invariance, <1>1, PTL

\* The client of execute, or of its stream, is told what the session says, or of
\* an error when something was lost or it came late.
THEOREM ClientIsToldTheTruth == Spec => []ToldIsTrue
<1>1. EnginesInv => ToldIsTrue
  BY DEF EnginesInv, PipeInv, ClientInv, ToldIsTrue
<1> QED  BY Invariance, <1>1, PTL

\* planExecutionLevels and the level loop: no node runs before what it needs has
\* succeeded, twice, or beside a failure that was seen, and the session ends as
\* its nodes did, whatever the graph.
THEOREM RunFollowsGraph == Spec => FollowsGraph
<1>1. Init => Graph!GraphInit
  <2> SUFFICES ASSUME Init PROVE Graph!GraphInit
    OBVIOUS
  <2>1. \A p \in ToPlan : at[p] = "idle"
    BY DEF Init, RunInit, ToPlan, Kept
  <2>2. session = "none"
    BY DEF Init, RunInit
  <2> QED  BY <2>1, <2>2 DEF Graph!GraphInit
<1>2. EnginesInv /\ [Next]_vars => [Graph!GraphNext]_(Graph!graphVars)
  BY StepsOfRun, RunFollows DEF EnginesInv
<1> QED  BY <1>1, <1>2, Invariance, PTL DEF Spec, FollowsGraph, Graph!GraphSpec

\* The mission of a run that nobody else acted on and no fault hit says what its
\* session says, or waits for the human the session is blocked on.
THEOREM MissionsAgree == Spec => []MissionAgrees
<1>1. EnginesInv => MissionAgrees
  BY DEF EnginesInv, RunInv, PlanInv, VerdictInv, MissionInv, Alone, MissionAgrees
<1> QED  BY Invariance, <1>1, PTL

\* Whoever replays the messages of a mission, or follows its stream, learns its
\* status, unless operations overlapped or a call failed.
THEOREM MessagesTellStatus == Spec => []HistoryTellsStatus
<1>1. EnginesInv => HistoryTellsStatus
  BY DEF EnginesInv, RunInv, TellInv, HistoryTellsStatus, Idle
<1> QED  BY Invariance, <1>1, PTL

\* The fallback of the page never runs the nodes of a draft again, unless a call
\* failed or the page lost the answer of a run that goes on.
THEOREM RerunsHaveCause == Spec => []RerunNeedsFault
<1>1. EnginesInv => RerunNeedsFault
  <2> SUFFICES ASSUME EnginesInv, NEW p \in DOMAIN flow, at[p] # "idle", ppc # "idle" PROVE faults > 0 \/ cut
    BY DEF RerunNeedsFault
  <2>1. level > 0
    BY Behind DEF EnginesInv, RunInv
  <2>2. pc # "idle"
    BY <2>1 DEF EnginesInv, RunInv, PlanInv, ReachInv
  <2>3. \A q \in DOMAIN flow : at[q] # "threw"
    BY <2>2 DEF EnginesInv, PageInv, CauseInv
  <2> QED  BY <2>1, <2>2, <2>3 DEF EnginesInv, PageInv, CauseInv
<1> QED  BY Invariance, <1>1, PTL
=============================================================================
