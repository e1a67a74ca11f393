---------------------------- MODULE MCBuilderRun ----------------------------
EXTENDS BuilderRun

node(i, t, deps, f) ==
  [id |-> i, type |-> t, dependsOn |-> deps, resolves |-> TRUE, onFailure |-> f]

odd(n) == [n EXCEPT !.resolves = FALSE]

\* One after the other; two branches, one of them a human's; two humans
\* asked together, and a node behind both; a node given twice; a cycle behind a
\* node that can run; a node whose mapping does not resolve beside a human's.
Workflows ==
  { <<node("a", "plain", {}, "stop"), node("b", "human", {}, "continue")>>,
    <<node("a", "agent", {}, "retry"), node("b", "human", {"a"}, "stop"),
      node("c", "call", {"a"}, "continue")>>,
    <<node("a", "human", {}, "stop"), node("b", "human", {}, "stop"), node("c", "plain", {"a", "b"}, "stop")>>,
    <<node("a", "plain", {}, "continue"), node("b", "plain", {"a"}, "stop"), node("a", "call", {}, "stop")>>,
    <<node("a", "call", {}, "stop"), node("b", "plain", {"a", "c"}, "retry"), node("c", "plain", {"b"}, "stop")>>,
    <<odd(node("a", "plain", {}, "stop")), node("b", "human", {}, "stop"), node("c", "call", {"a", "b"}, "stop")>> }

Batches == [1 .. 2 -> [onFailure : {"continue", "retry"}]]
             \cup {[p \in DOMAIN w |-> [onFailure |-> w[p].onFailure]] : w \in Workflows}
=============================================================================
