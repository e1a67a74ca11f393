--------------------------- MODULE BuilderRequest ---------------------------
(***************************************************************************)
(* A request of the builder API: BuilderPlannerService makes its plan;     *)
(* validate, evalPreview, repair and save are calls of several clients,    *)
(* each reads some of the rows of the request and later writes others.     *)
(* Scores, parameters and connector gaps are left out: no call decides by  *)
(* them.                                                                   *)
(***************************************************************************)
EXTENDS Harness

CONSTANTS
  Plans,       \* plans of the templates; no template matched gives no nodes
  Sent,        \* nodes a client may validate other than those of the plan
  Editor,      \* calls in progress at a time
  MaxHandled   \* bound: calls

ASSUME RequestAssumption == Given(Plans) /\ Given(Sent) /\ MaxHandled \in Nat

VARIABLES
  plan,       \* BuilderPlan.nodesJson
  checked,    \* BuilderValidationResult.issuesJson, at most one row
  evaluated,  \* BuilderEvalResult: canSave and requiresAcknowledgement
  phase,     \* BuilderRequest.status
  mended,    \* the issues of the BuilderRepairAction rows
  handler,    \* where each call stands, and what it is about to write
  handled,
  crossing,    \* history: two calls were in progress together
  fresh,      \* history: how far validation and evaluation are of the plan as it is
  unsound     \* history: a save let an evaluated plan with blocking errors pass

requestVars == <<plan, checked, evaluated, phase, mended, handler, handled, crossing, fresh, unsound>>

Resting == [at |-> "idle"]

RequestTypeOK ==
  /\ Len(checked) <= 1 /\ Len(evaluated) <= 1
  /\ phase \in {"PLANNING", "VALIDATING", "EVALUATED", "REPAIR_LOOP", "SAVED"}
  /\ \A k \in Editor : handler[k].at \in {"idle", "eval", "plan", "record", "status"}
  /\ handled \in 0 .. MaxHandled /\ crossing \in BOOLEAN /\ unsound \in BOOLEAN
  /\ fresh \in {"nothing", "validation", "evaluation"}

\* createPlan
RequestInit ==
  /\ plan \in Plans /\ checked = << >> /\ evaluated = << >> /\ phase = "PLANNING" /\ mended = {}
  /\ handler = [k \in Editor |-> Resting] /\ handled = 0
  /\ crossing = FALSE /\ fresh = "nothing" /\ unsound = FALSE

\* A call begins with its read.
Handle(k, l) ==
  /\ handler[k] = Resting /\ handled < MaxHandled
  /\ handled' = handled + 1
  /\ handler' = [handler EXCEPT ![k] = l]
  /\ crossing' = (crossing \/ \E j \in Editor : handler[j] # Resting)

Goto(k, l) == handler' = [handler EXCEPT ![k] = l] /\ UNCHANGED <<handled, crossing>>

Blocking(S) == {i \in S : i.lacks \in {"nodes", "predicate"}}
Recorded == IF checked = << >> THEN {} ELSE checked[1]

-----------------------------------------------------------------------------
\* validate: the client says which nodes; the row is the last call's

Validate(k, w) ==
  /\ Handle(k, [at |-> "status", phase |-> "VALIDATING"])
  /\ checked' = <<Issues(w)>>
  /\ fresh' = IF w = plan THEN "validation" ELSE "nothing"
  /\ UNCHANGED <<plan, evaluated, phase, mended, unsound>>

-----------------------------------------------------------------------------
\* evalPreview judges the validation that is there, or none

Judged(S) == [canSave |-> Blocking(S) = {}, mustAcknowledge |-> Blocking(S) = {} /\ S # {}]

EvalPreview(k) ==
  /\ Handle(k, [at |-> "eval", result |-> Judged(Recorded)])
  /\ UNCHANGED <<plan, checked, evaluated, phase, mended, fresh, unsound>>

WriteEval(k) ==
  /\ handler[k].at = "eval"
  /\ evaluated' = <<handler[k].result>>
  /\ fresh' = IF fresh = "nothing" THEN fresh ELSE "evaluation"
  /\ Goto(k, [at |-> "status", phase |-> "EVALUATED"])
  /\ UNCHANGED <<plan, checked, phase, mended, unsound>>

-----------------------------------------------------------------------------
\* repair: the issue is of the validation, the nodes are of the plan

\* Mutants: forms of the definitions below with a plausible mistake, which a run
\* must notice.  The specification uses none of them.

\* The record says the plan was updated, and the plan is not.
KeepPlan(k) ==
  /\ handler[k].at = "plan"
  /\ fresh' = "nothing"
  /\ Goto(k, [at |-> "record", issue |-> handler[k].issue])
  /\ UNCHANGED <<plan, checked, evaluated, phase, mended, unsound>>

RepairRead(k, i) ==
  /\ i \in Recorded /\ i.lacks # "action"
  /\ Handle(k, [at |-> "plan", issue |-> i, nodes |-> Repair(plan, i.lacks, {i.of})])
  /\ UNCHANGED <<plan, checked, evaluated, phase, mended, fresh, unsound>>

WritePlan(k) ==
  /\ handler[k].at = "plan"
  /\ plan' = handler[k].nodes /\ fresh' = "nothing"
  /\ Goto(k, [at |-> "record", issue |-> handler[k].issue])
  /\ UNCHANGED <<checked, evaluated, phase, mended, unsound>>

RecordRepair(k) ==
  /\ handler[k].at = "record"
  /\ mended' = mended \cup {handler[k].issue}
  /\ Goto(k, [at |-> "status", phase |-> "REPAIR_LOOP"])
  /\ UNCHANGED <<plan, checked, evaluated, phase, fresh, unsound>>

-----------------------------------------------------------------------------
\* save asks the evaluation alone; a refused one writes nothing

SaveRequest(k, acknowledged) ==
  /\ evaluated # << >> /\ evaluated[1].canSave
  /\ evaluated[1].mustAcknowledge => acknowledged
  /\ Handle(k, [at |-> "status", phase |-> "SAVED"])
  /\ unsound' = (unsound \/ (fresh = "evaluation" /\ Blocking(Issues(plan)) # {}))
  /\ UNCHANGED <<plan, checked, evaluated, phase, mended, fresh>>

\* The last write of each call.
WriteStatus(k) ==
  /\ handler[k].at = "status"
  /\ phase' = handler[k].phase
  /\ Goto(k, Resting)
  /\ UNCHANGED <<plan, checked, evaluated, mended, fresh, unsound>>

\* Any write of a call may fail, the audit log of a save before its status
\* among them: what the call had left to write stays unwritten.
HandlerThrows(k) ==
  /\ handler[k] # Resting
  /\ Goto(k, Resting)
  /\ UNCHANGED <<plan, checked, evaluated, phase, mended, fresh, unsound>>

RequestNext == \E k \in Editor :
  \/ \E w \in {plan} \cup Sent : Validate(k, w)
  \/ EvalPreview(k) \/ WriteEval(k)
  \/ \E i \in Recorded : RepairRead(k, i)
  \/ WritePlan(k) \/ RecordRepair(k)
  \/ \E a \in BOOLEAN : SaveRequest(k, a)
  \/ WriteStatus(k) \/ HandlerThrows(k)

RequestSpec == RequestInit /\ [][RequestNext]_requestVars

-----------------------------------------------------------------------------
\* Properties

\* Of calls made one after the other: the plan has what a repair on record was
\* to add or set, and a plan saved after it was validated and evaluated has no
\* blocking error.  (The lack of failure paths may outlast its repair, which
\* reaches the writing nodes only.)
Shown(i) ==
  \/ i.lacks = "failure paths"
  \/ i.of # 0 /\ \A n \in Nodes(plan) : n.id # i.of
  \/ i \notin Issues(plan)

SerialCallsAreSound == ~crossing => ~unsound /\ \A i \in mended : Shown(i)

=============================================================================
