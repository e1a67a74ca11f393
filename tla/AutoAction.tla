----------------------------- MODULE AutoAction -----------------------------
(***************************************************************************)
(* One autonomous action on a connector: AutonomousOpsService inserts it   *)
(* as EXECUTED, tells the mission and queues the job; the worker's         *)
(* runAutonomousOpsProcessor changes the connector and writes the outcome; *)
(* operators verify and revert the action meanwhile.                       *)
(***************************************************************************)
EXTENDS Naturals, FiniteSets

CONSTANTS
  Operator,      \* calls of verify and revert, each is made once
  MaxActFaults   \* bound: calls that fail

ASSUME AutoAssumption == IsFiniteSet(Operator) /\ MaxActFaults \in Nat

VARIABLES
  creator,   \* where executeAction stands
  action,    \* AutoAction.status, "none" before the insert
  mission,   \* the action names a mission
  kind,      \* REMEDIATION or QUARANTINE; the others change nothing yet
  target,    \* the connector is there
  effects,   \* how often the worker changed it
  apc,       \* where the delivery stands
  applied,   \* what it found
  ajob, athrown, astalled,
  young,     \* the revert window is open
  desk,      \* where each operator's call stands
  told,      \* HUMAN_INTERVENTION messages of the mission
  undone,    \* history: reverts that were written
  redone,    \* history: times a REVERTED was overwritten
  together,  \* history: two calls of revert had both passed the check
  byHand,    \* history: an operator verified the action
  actFaults

actionJob == <<ajob, athrown, astalled>>
deskVars == <<young, desk, told, undone, together, byHand>>
workVars == <<effects, apc, applied>>
autoVars == <<creator, action, mission, kind, target, workVars, actionJob, deskVars, redone, actFaults>>

\* Mutants: forms of the definitions below with a plausible mistake, which a run
\* below must notice.  The specification uses none of them.

\* Whatever the adapter answered counts as verified.
VerifiedAnyway == "VERIFIED"

\* revert does not ask whether the action is reverted.
RevertibleTwice == action # "none" /\ young

-----------------------------------------------------------------------------
ActionAttempts == 2

ActionJob == INSTANCE QueuedJob WITH
  job <- ajob, thrown <- athrown, stalled <- astalled, Attempts <- ActionAttempts

Kind == {"REMEDIATION", "QUARANTINE"}

AutoTypeOK ==
  /\ ActionJob!JobTypeOK
  /\ creator \in {"idle", "tell", "add", "done"}
  /\ action \in {"none", "EXECUTED", "VERIFIED", "FAILED", "REVERTED"}
  /\ mission \in BOOLEAN /\ kind \in Kind /\ target \in BOOLEAN /\ young \in BOOLEAN
  /\ effects \in 0 .. 3 /\ applied \in BOOLEAN
  /\ apc \in {"idle", "apply", "write", "report"}
  /\ desk \in [Operator -> {"idle", "revert", "tell", "done"}]
  /\ told \in 0 .. Cardinality(Operator) /\ undone \in told .. Cardinality(Operator)
  /\ redone \in 0 .. Cardinality(Operator) /\ byHand \in BOOLEAN /\ together \in BOOLEAN
  /\ actFaults \in 0 .. MaxActFaults

AutoInit ==
  /\ ActionJob!JobInit
  /\ creator = "idle" /\ action = "none" /\ mission = FALSE /\ kind = "REMEDIATION" /\ target = TRUE
  /\ effects = 0 /\ apc = "idle" /\ applied = FALSE
  /\ young = TRUE /\ desk = [k \in Operator |-> "idle"]
  /\ told = 0 /\ undone = 0 /\ redone = 0 /\ together = FALSE /\ byHand = FALSE /\ actFaults = 0

ActFault == actFaults < MaxActFaults /\ actFaults' = actFaults + 1

Write(s) ==
  /\ action' = s
  /\ redone' = IF action = "REVERTED" /\ s # "REVERTED" THEN redone + 1 ELSE redone

-----------------------------------------------------------------------------
\* executeAction

CreateAction ==
  /\ creator = "idle"
  /\ mission' \in BOOLEAN /\ kind' \in Kind
  /\ creator' = IF mission' THEN "tell" ELSE "add"
  /\ Write("EXECUTED")
  /\ UNCHANGED <<target, workVars, actionJob, deskVars, actFaults>>

\* A message that cannot be published ends the call before the queue.
TellMission ==
  /\ creator = "tell"
  /\ \/ creator' = "add" /\ UNCHANGED actFaults
     \/ creator' = "done" /\ ActFault
  /\ UNCHANGED <<action, mission, kind, target, workVars, actionJob, deskVars, redone>>

\* A failure of queue.add is logged, the caller gets the action all the same.
QueueAction ==
  /\ creator = "add" /\ creator' = "done"
  /\ \/ ActionJob!Add /\ UNCHANGED actFaults
     \/ ActFault /\ UNCHANGED actionJob
  /\ UNCHANGED <<action, mission, kind, target, workVars, deskVars, redone>>

-----------------------------------------------------------------------------
\* runAutonomousOpsProcessor

TakeAction ==
  /\ apc = "idle" /\ ActionJob!Take /\ apc' = "apply"
  /\ UNCHANGED <<creator, action, mission, kind, target, effects, applied, deskVars, redone, actFaults>>

\* The adapter changes the connector.  A remediation that does not find it says
\* so; a quarantine that fails, for that reason or another, does not.
Apply ==
  /\ apc = "apply" /\ apc' = "write"
  /\ applied' = (target \/ kind = "QUARANTINE")
  /\ \/ effects' = (IF target THEN effects + 1 ELSE effects) /\ UNCHANGED actFaults
     \/ kind = "QUARANTINE" /\ ActFault /\ UNCHANGED effects
  /\ UNCHANGED <<creator, action, mission, kind, target, actionJob, deskVars, redone>>

\* The adapter throws: FAILED is written, if that works, and the job retried.
ApplyThrows ==
  /\ apc = "apply" /\ apc' = "idle" /\ ActFault /\ ActionJob!Throw
  /\ Write("FAILED") \/ UNCHANGED <<action, redone>>
  /\ UNCHANGED <<creator, mission, kind, target, effects, applied, deskVars>>

Verified == IF applied THEN "VERIFIED" ELSE "FAILED"

\* The outcome is written by id, whatever the status is by now.
WriteOutcome ==
  /\ apc = "write" /\ apc' = "report"
  /\ Write(Verified)
  /\ UNCHANGED <<creator, mission, kind, target, effects, applied, actionJob, deskVars, actFaults>>

ReportAction ==
  /\ apc = "report" /\ apc' = "idle" /\ ActionJob!Complete
  /\ UNCHANGED <<creator, action, mission, kind, target, effects, applied, deskVars, redone, actFaults>>

\* updateProgress or the update of the outcome fails: the job is retried.
ActionBreaks ==
  /\ apc # "idle" /\ apc' = "idle" /\ ActFault /\ ActionJob!Throw
  /\ UNCHANGED <<creator, action, mission, kind, target, effects, applied, deskVars, redone>>

ActionIsCutOff ==
  /\ apc' = "idle"
  /\ IF apc = "idle" THEN UNCHANGED actionJob ELSE ActionJob!Stall
  /\ UNCHANGED <<creator, action, mission, kind, target, effects, applied, deskVars, redone, actFaults>>

-----------------------------------------------------------------------------
\* Operators

DeleteTarget ==
  /\ target /\ target' = FALSE
  /\ UNCHANGED <<creator, action, mission, kind, workVars, actionJob, deskVars, redone, actFaults>>

WindowCloses ==
  /\ young /\ young' = FALSE
  /\ UNCHANGED <<creator, action, mission, kind, target, workVars, actionJob, desk, told, undone, together, byHand, redone, actFaults>>

\* verify asks for nothing but the action.
Verify(k) ==
  /\ desk[k] = "idle" /\ action # "none"
  /\ desk' = [desk EXCEPT ![k] = "done"]
  /\ Write("VERIFIED") /\ byHand' = TRUE
  /\ UNCHANGED <<creator, mission, kind, target, workVars, actionJob, young, told, undone, together, actFaults>>

Revertible == action \notin {"none", "REVERTED"} /\ young

CheckRevert(k) ==
  /\ desk[k] = "idle" /\ Revertible
  /\ desk' = [desk EXCEPT ![k] = "revert"]
  /\ together' = (together \/ \E j \in Operator : desk[j] = "revert")
  /\ UNCHANGED <<creator, action, mission, kind, target, workVars, actionJob, young, told, undone, byHand, redone, actFaults>>

WriteRevert(k) ==
  /\ desk[k] = "revert"
  /\ desk' = [desk EXCEPT ![k] = IF mission THEN "tell" ELSE "done"]
  /\ Write("REVERTED") /\ undone' = undone + 1
  /\ UNCHANGED <<creator, mission, kind, target, workVars, actionJob, young, told, together, byHand, actFaults>>

TellRevert(k) ==
  /\ desk[k] = "tell" /\ desk' = [desk EXCEPT ![k] = "done"]
  /\ \/ told' = told + 1 /\ UNCHANGED actFaults
     \/ ActFault /\ UNCHANGED told
  /\ UNCHANGED <<creator, action, mission, kind, target, workVars, actionJob, young, undone, together, byHand, redone>>

ActionWorks == TakeAction \/ Apply \/ WriteOutcome \/ ReportAction

AutoNext ==
  \/ CreateAction \/ TellMission \/ QueueAction
  \/ ActionWorks \/ ApplyThrows \/ ActionBreaks
  \/ DeleteTarget \/ WindowCloses
  \/ \E k \in Operator : Verify(k) \/ CheckRevert(k) \/ WriteRevert(k) \/ TellRevert(k)

\* The action by itself; the modules that compose it take AutoNext.
AutoSpec == AutoInit /\ [][AutoNext \/ ActionIsCutOff]_autoVars

-----------------------------------------------------------------------------
\* Properties

\* VERIFIED, when no operator wrote it, says that the connector was changed by a
\* remediation (of a quarantine it says nothing); each delivery changes it once
\* at most, which is twice, and once more if the worker died.
VerifiedWasApplied ==
  /\ action = "VERIFIED" /\ ~byHand /\ kind = "REMEDIATION" => effects > 0
  /\ effects <= 1 + actFaults + astalled
  /\ effects <= 2 + astalled

\* However reverts, verifications and the job interleave, an action is
\* reverted once, and again only for each time the revert was written over,
\* unless two calls of revert passed the check together; and the mission hears
\* of no more reverts than were written.
RevertsAreCounted ==
  /\ undone <= 1 + redone \/ together
  /\ told <= undone

\* A queued action gets its outcome, unless calls fail or the worker dies twice.
ActionSettles ==
  ajob = "waiting" ~> (action # "EXECUTED" \/ actFaults > 0 \/ astalled > 1)

=============================================================================
