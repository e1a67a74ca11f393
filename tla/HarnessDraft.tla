---------------------------- MODULE HarnessDraft ----------------------------
(***************************************************************************)
(* The nodes on a builder page and the repairs its harness panel offers:   *)
(* handleApplyRepair for one issue, handleAutoRepairAll for all of them.   *)
(* A repair works on template nodes, of which the page keeps the settings  *)
(* only: what it wrote beside them is gone when the nodes are checked next.*)
(***************************************************************************)
EXTENDS Harness, SequencesExt

CONSTANTS
  Drafts,     \* drafts to begin with: loaded, generated or empty
  Types,      \* node types a user adds
  MaxNodes,   \* bound: nodes of a draft before its repairs
  MaxTouches  \* bound: nodes added and deleted

ASSUME HarnessAssumption ==
  /\ Given(Drafts) /\ Types \subseteq NodeType
  /\ MaxNodes \in Nat /\ MaxTouches \in Nat

VARIABLES
  draft,
  repaired,  \* history: the issue the last step repaired
  rounds,    \* history: repairs of all issues since the user's last edit, up to 2
  touches

harnessVars == <<draft, repaired, rounds, touches>>

NoIssue == [lacks |-> "nothing", of |-> 0]

HarnessTypeOK ==
  /\ draft \in Workflow
  /\ repaired \in [lacks : Checks \cup {"nothing"}, of : Nat]
  /\ rounds \in 0 .. 2 /\ touches \in 0 .. MaxTouches

HarnessInit == draft \in Drafts /\ repaired = NoIssue /\ rounds = 0 /\ touches = 0

\* builderNodesToTemplateNodes
ActOf(t) ==
  CASE t \in {"ai-processing", "data-transform"} -> "execute"
    [] t \in {"email-send", "slack-message"} -> "external-send"
    [] t = "git-deploy" -> "deploy"
    [] t \in {"data-storage", "log-monitor", "file-operation", "notification"} -> "write"
    [] OTHER -> "read"

Edited(w) == draft' = w /\ repaired' = NoIssue /\ rounds' = 0 /\ touches' = touches + 1

\* A condition is added with both paths and no predicate: its expression goes
\* by another name than the check asks for.
HandleAddNode(t) ==
  /\ touches < MaxTouches /\ Len(draft) < MaxNodes
  /\ Edited(Append(draft, [New(draft, t, ActOf(t), FALSE) EXCEPT !.paths = TRUE]))

HandleDeleteNode(i) ==
  /\ touches < MaxTouches
  /\ Edited(RemoveAt(draft, i))

Repairable == Checks \ {"nodes", "action"}

\* The way back to page nodes keeps the settings, where recovery and retries
\* are as they were before the repair.
ToPage(w) ==
  [i \in DOMAIN w |-> [w[i] EXCEPT
    !.recovers = \E n \in Nodes(draft) : n.id = w[i].id /\ n.recovers,
    !.retry = \E n \in Nodes(draft) : n.id = w[i].id /\ n.retry]]

HandleApplyRepair(issue) ==
  /\ issue.lacks \in Repairable
  /\ draft' = ToPage(Repair(draft, issue.lacks, {issue.of}))
  /\ repaired' = issue /\ rounds' = 0
  /\ UNCHANGED touches

\* What the draft lacks is repaired in the nodes the repairs before left.  Those
\* of one check are of different nodes: they are done together.
Redo(l, w) == IF Lacking(draft, l) = {} THEN w ELSE Repair(w, l, Lacking(draft, l))

\* Mutants: forms of the definitions below with a plausible mistake, which a run
\* must notice.  The specification uses none of them.

\* The panel counts errors and warnings, but repairs the warnings.
WarningsRepaired ==
  Redo("paths", Redo("monitoring", Redo("retry", Redo("failure paths",
    Redo("exit", Redo("trigger", draft))))))

\* Errors first, then the warnings in the order of their checks.
AllRepaired ==
  Redo("paths", Redo("monitoring", Redo("retry", Redo("failure paths",
    Redo("exit", Redo("trigger", Redo("predicate", draft)))))))

HandleAutoRepairAll ==
  /\ \E i \in Issues(draft) : i.lacks \in Repairable
  /\ draft' = ToPage(AllRepaired)
  /\ repaired' = NoIssue
  /\ rounds' = IF rounds = 2 THEN 2 ELSE rounds + 1
  /\ UNCHANGED touches

HarnessNext ==
  \/ \E t \in Types : HandleAddNode(t)
  \/ \E i \in DOMAIN draft : HandleDeleteNode(i)
  \/ \E i \in Issues(draft) : HandleApplyRepair(i)
  \/ HandleAutoRepairAll

HarnessSpec == HarnessInit /\ [][HarnessNext]_harnessVars

-----------------------------------------------------------------------------
\* Properties

\* A repaired issue is gone, but for retries, which the page does not keep.
\* Repairing all leaves no blocking error and at most a monitoring node to add
\* to the nodes it added, and repairing all twice not even that; what no
\* repair reaches is a lack of retries, failure paths and actions.
Beyond == {"retry", "failure paths", "action"}

RepairsSettle ==
  /\ repaired.lacks \notin Beyond => repaired \notin Issues(draft)
  /\ \A i \in Issues(draft) :
       /\ rounds >= 1 => i.lacks \in Beyond \cup {"monitoring"}
       /\ rounds = 2 => i.lacks \in Beyond

=============================================================================
