----------------------------- MODULE BuilderRun -----------------------------
(***************************************************************************)
(* The builder page runs a draft: execute-draft resolves its nodes and     *)
(* hands them to the workflow runner; when that call fails the page sends  *)
(* the same nodes to the pipeline, and when that fails too it simulates    *)
(* them.  What the page takes for a failed call may be a refusal, an       *)
(* outage, or a lost answer of a run that goes on.  Other clients run      *)
(* graphs and pipelines through the API, without a page.                   *)
(***************************************************************************)
EXTENDS WorkflowRuns, Pipeline

\* What the page sends to the runner it can send to the pipeline.
ASSUME BuilderAssumption ==
  \A w \in Workflow : [p \in DOMAIN w |-> [onFailure |-> w[p].onFailure]] \in Batch

VARIABLES
  page,    \* where runPipeline stands
  shown,   \* what the page shows in the end
  cut      \* history: the page lost the answer of a run in progress

pageVars == <<page, shown, cut>>
vars == <<runVars, pipeVars, pageVars>>

TypeOK ==
  /\ RunTypeOK /\ PipeTypeOK
  /\ page \in {"idle", "draft", "fallback", "pipeline", "shown"}
  /\ shown \in {"none", "SUCCEEDED", "FAILED", "BLOCKED", "simulated"}
  /\ cut \in BOOLEAN

Init ==
  /\ RunInit /\ PipeInit
  /\ page = "idle" /\ shown = "none" /\ cut = FALSE

-----------------------------------------------------------------------------
\* Mutated definitions: plausible slips in the code, each of which some property
\* below must notice.  The specification uses none of them.

\* A run that failed is taken for a call that failed.
DraftFailsOnStatus ==
  /\ page = "draft"
  /\ pc \in {"threw", "dead"} \/ (pc = "returned" /\ session = "FAILED")
  /\ page' = "fallback"
  /\ UNCHANGED <<runVars, pipeVars, shown, cut>>

\* Nothing catches a pipeline that fails.
PipelineAnsweredOnly ==
  /\ page = "pipeline" /\ client = "closed" /\ heard # "error"
  /\ page' = "shown" /\ shown' = heard
  /\ UNCHANGED <<runVars, pipeVars, cut>>

-----------------------------------------------------------------------------
\* The page and the API

\* buildRunInput asks for a mission when an agent or a human takes part, and
\* infers the mappings, which the page does not send.
NeedsMission == \E p \in DOMAIN flow : flow[p].type \in {"agent", "human"}

ExecuteDraft ==
  /\ page = "idle" /\ ppc = "idle" /\ wants = NeedsMission
  /\ \A p \in DOMAIN flow : flow[p].resolves
  /\ (CreateSession \/ CreateSessionFails)
  /\ page' = "draft"
  /\ UNCHANGED <<pipeVars, shown, cut>>

DraftAnswered ==
  /\ page = "draft" /\ pc = "returned"
  /\ page' = "shown" /\ shown' = session
  /\ UNCHANGED <<runVars, pipeVars, cut>>

DraftFails ==
  /\ page = "draft" /\ pc \in {"threw", "dead"}
  /\ page' = "fallback"
  /\ UNCHANGED <<runVars, pipeVars, shown, cut>>

\* The connection or the proxy in front of the API gives up.
DraftIsCut ==
  /\ page = "draft" /\ pc \notin {"threw", "dead"}
  /\ Outage
  /\ page' = "fallback" /\ cut' = TRUE
  /\ UNCHANGED <<runVars, inputVars, engineVars, stream, mail, clientVars, shown>>

FallBack ==
  /\ page = "fallback"
  /\ Post([p \in DOMAIN flow |-> [onFailure |-> flow[p].onFailure]], "answer")
  /\ page' = "pipeline"
  /\ UNCHANGED <<runVars, shown, cut>>

\* runPipelineLocal simulates the nodes.
PipelineAnswered ==
  /\ page = "pipeline" /\ client = "closed"
  /\ page' = "shown"
  /\ shown' = IF heard = "error" THEN "simulated" ELSE heard
  /\ UNCHANGED <<runVars, pipeVars, cut>>

PageStep == DraftAnswered \/ DraftFails \/ FallBack \/ PipelineAnswered

\* The API without a page.
CallRun ==
  /\ page = "idle" /\ ppc = "idle"
  /\ CreateSession
  /\ UNCHANGED <<pipeVars, pageVars>>

CallPipeline ==
  /\ page = "idle" /\ pc = "idle" /\ mission = "none"
  /\ \E b \in Batch, how \in {"answer", "events"} : Post(b, how)
  /\ UNCHANGED <<runVars, pageVars>>

\* The page does not look at missions: users act on those of other runs.
UserActs ==
  /\ page = "idle" /\ ppc = "idle"
  /\ \E u \in User : UserBegins(u) \/ UserStep(u)
  /\ UNCHANGED <<pipeVars, pageVars>>

\* One process runs both.
ProcessDies ==
  /\ \/ ApiDies /\ PipeDies
     \/ ApiDies /\ ppc \in {"idle", "ended", "dead"} /\ UNCHANGED pipeVars
     \/ PipeDies /\ RunOver /\ UNCHANGED runVars
  /\ UNCHANGED pageVars

Next ==
  \/ ExecuteDraft \/ PageStep \/ DraftIsCut
  \/ CallRun \/ CallPipeline \/ UserActs
  \/ RunOn /\ UNCHANGED <<pipeVars, pageVars>>
  \/ PipeOn /\ UNCHANGED <<runVars, pageVars>>
  \/ ProcessDies

Spec ==
  /\ Init /\ [][Next]_vars
  /\ RunFairness /\ PipeFairness /\ WF_vars(PageStep)

-----------------------------------------------------------------------------
\* Properties

\* The nodes of a draft are not run a second time by the pipeline unless a
\* call failed or the page lost the answer of its run.
RerunNeedsFault ==
  (\E p \in DOMAIN flow : at[p] # "idle") /\ ppc # "idle" => faults > 0 \/ cut

\* runPipeline comes to an end, unless the run it waits for never does, and
\* shows SUCCEEDED, FAILED or BLOCKED only if that is the last word of the
\* session it waited for.
PageSettles ==
  <>[](page = "draft" /\ Hangs)
  \/ (page = "draft" ~>
        /\ page = "shown"
        /\ shown = IF ppc = "idle" THEN session
                   ELSE IF heard = "error" THEN "simulated" ELSE psession)

\* Whoever waits is answered once those he waits for are: the caller of a run,
\* the client of a pipeline, and the user of the page.
EveryWaitEnds == RunEnds /\ ClientHears /\ PageSettles

=============================================================================
