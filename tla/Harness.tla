------------------------------ MODULE Harness ------------------------------
(***************************************************************************)
(* The structural check of a workflow under construction and its repairs,  *)
(* as validateStructure and applyRepair have them in the builder page and, *)
(* word for word, in the API.  A node keeps what the check asks of it:     *)
(* whether a failure of it is recovered from, whether it is retried, and,  *)
(* for a branch, whether it has a predicate and both paths.  A node of      *)
(* another type counts for monitoring if its connector is metis-audit.     *)
(***************************************************************************)
EXTENDS Integers, Sequences, FiniteSetsExt

CONSTANT NodeType

Triggers == {"schedule", "webhook"}
Exits == {"data-storage", "notification", "email-send", "slack-message", "log-monitor"}
Audits == {"data-storage", "log-monitor"}
Branches == {"condition", "branch", "if-else", "switch"}
Effects == {"write", "external-send"}
Works == {"execute", "write", "deploy", "delete"}

NodeActionType == {"read", "write", "execute", "external-send", "deploy", "delete"}

ASSUME NodeTypeAssumption == Triggers \cup Exits \cup Audits \cup Branches \subseteq NodeType

\* Ids up to this one are those of nodes loaded, generated or sent.
LastId == 9

Node ==
  [id : Nat \ {0}, type : NodeType, act : NodeActionType,
   recovers : BOOLEAN, retry : BOOLEAN, predicate : BOOLEAN, paths : BOOLEAN, audit : BOOLEAN]

Nodes(w) == {w[i] : i \in DOMAIN w}
Ids(w) == {n.id : n \in Nodes(w)}

Workflow == {w \in Seq(Node) : \A i, j \in DOMAIN w : w[i].id = w[j].id => i = j}

\* What assumptions say of the nodes a workflow begins with.
Given(W) == \A w \in W : w \in Workflow /\ \A n \in Nodes(w) : n.id <= LastId

-----------------------------------------------------------------------------
\* What a workflow lacks, "of" a node or, 0, of the whole

Whole(b) == IF b THEN {0} ELSE {}

Of(w, Test(_)) == {n.id : n \in {m \in Nodes(w) : Test(m)}}

Unguarded(n) == n.act \in Effects /\ ~n.retry

Audited(n) == n.type \in Audits \/ n.audit

Checks == {"nodes", "predicate", "trigger", "exit", "failure paths", "retry", "monitoring", "paths", "action"}

\* Of an empty workflow the one thing said is that it has no nodes.
Lacking(w, l) ==
  CASE l = "nodes" -> Whole(w = << >>)
    [] l = "predicate" -> Of(w, LAMBDA n : n.type \in Branches /\ ~n.predicate)
    [] l = "trigger" -> Whole(w # << >> /\ w[1].type \notin Triggers)
    [] l = "exit" -> Whole(w # << >> /\ w[Len(w)].type \notin Exits)
    [] l = "failure paths" -> Whole(2 * Cardinality({i \in DOMAIN w : ~w[i].recovers}) > Len(w))
    [] l = "retry" -> Of(w, Unguarded)
    [] l = "monitoring" -> Whole(Len(w) >= 3 /\ \A n \in Nodes(w) : ~Audited(n))
    [] l = "paths" -> Of(w, LAMBDA n : n.type \in Branches /\ ~n.paths)
    [] l = "action" -> Whole(Len(w) > 1 /\ \A n \in Nodes(w) : n.act \notin Works)

Issues(w) == UNION {{[lacks |-> l, of |-> x] : x \in Lacking(w, l)} : l \in Checks}

-----------------------------------------------------------------------------
\* Repairs of what one check found, of one node or of several

New(w, t, a, r) ==
  [id |-> 1 + Max(Ids(w) \cup {LastId}), type |-> t, act |-> a,
   recovers |-> r, retry |-> FALSE, predicate |-> FALSE, paths |-> FALSE, audit |-> FALSE]

Retried(n) == [n EXCEPT !.recovers = TRUE, !.retry = TRUE]

Change(w, Test(_), F(_)) == [i \in DOMAIN w |-> IF Test(w[i]) THEN F(w[i]) ELSE w[i]]

Repair(w, l, S) ==
  CASE l \in {"trigger", "nodes"} -> <<New(w, "schedule", "read", FALSE)>> \o w
    [] l = "exit" -> Append(w, New(w, "notification", "write", TRUE))
    [] l = "monitoring" -> Append(w, New(w, "log-monitor", "write", TRUE))
    [] l = "failure paths" -> Change(w, Unguarded, Retried)
    [] l = "retry" -> Change(w, LAMBDA n : n.id \in S, Retried)
    [] l = "predicate" -> Change(w, LAMBDA n : n.id \in S, LAMBDA n : [n EXCEPT !.predicate = TRUE])
    [] l = "paths" -> Change(w, LAMBDA n : n.id \in S, LAMBDA n : [n EXCEPT !.paths = TRUE])
    [] OTHER -> w

=============================================================================
