---------------------------- MODULE HarnessProofs ----------------------------
(***************************************************************************)
(* What the builder's repairs do to a workflow of any length: the draft of *)
(* a page and the plan of a request, whose repairs are the same.           *)
(*                                                                         *)
(* A repair keeps what the repairs before it brought (Kept): a node is the *)
(* better for it, and what it adds is no branch and goes by a fresh id.    *)
(* That there is one takes the bound of the ids of a sequence, and with it *)
(* an induction: of the lengths at which there is none, the least.         *)
(*                                                                         *)
(* For the draft the two properties are inductive together.  Of a request  *)
(* it takes what the calls in progress are about to write (StageInv), and  *)
(* that the validation and the evaluation are those of the plan as long as *)
(* "fresh" says so.                                                        *)
(***************************************************************************)
EXTENDS HarnessDraft, BuilderRequest, FiniteSetTheorems, TLAPS

-----------------------------------------------------------------------------
\* Numbers: what takes the place of induction

LEMMA LeastNumber ==
  ASSUME NEW T, T \subseteq Nat, T # {}
  PROVE  \E x \in T : \A y \in T : x <= y
<1>0. \E R : IsWellFoundedOn(R, Nat) /\ \A x \in Nat, y \in Nat : <<y, x>> \in R <=> y < x
  <2> DEFINE Q == OpToRel(<, Nat)
  <2>1. IsWellFoundedOn(Q, Nat)
    BY NatLessThanWellFounded
  <2>2. \A x \in Nat, y \in Nat : <<y, x>> \in Q <=> y < x
    BY DEF OpToRel
  <2> HIDE DEF Q
  <2> QED  BY <2>1, <2>2
<1>1. PICK R : IsWellFoundedOn(R, Nat) /\ \A x \in Nat, y \in Nat : <<y, x>> \in R <=> y < x
  BY <1>0
<1>2. PICK x \in T : \A y \in T : ~ (<<y, x>> \in R)
  BY <1>1, WFMin
<1>3. \A y \in T : ~ (y < x)
  BY <1>1, <1>2
<1> QED  BY <1>3

LEMMA MaxOfBounded ==
  ASSUME NEW S, S \subseteq Nat, S # {}, NEW b \in Nat, \A x \in S : x <= b
  PROVE  Max(S) \in S /\ \A x \in S : x <= Max(S)
<1> DEFINE B == {m \in Nat : \A x \in S : x <= m}
<1>1. PICK m \in B : \A y \in B : m <= y
  BY LeastNumber
<1>2. m \in S
  <2> SUFFICES ASSUME m \notin S PROVE FALSE
    OBVIOUS
  <2>0. m \in Nat /\ \A x \in S : x \in Nat /\ x <= m
    OBVIOUS
  <2>1. \A x \in S : x \in Nat /\ x <= m - 1
    BY <2>0
  <2>2. m # 0
    <3>1. PICK x \in S : TRUE
      OBVIOUS
    <3> QED  BY <2>0, <2>1, <3>1
  <2>3. m - 1 \in B
    BY <2>0, <2>1, <2>2
  <2> QED  BY <1>1, <2>0, <2>3
<1>3. \E x \in S : \A y \in S : x >= y
  BY <1>1, <1>2
<1> QED  BY <1>3 DEF Max

-----------------------------------------------------------------------------
\* Workflows

LEMMA WorkflowFacts ==
  ASSUME NEW w \in Workflow
  PROVE  /\ w \in Seq(Node) /\ Len(w) \in Nat /\ DOMAIN w = 1 .. Len(w)
         /\ \A i \in DOMAIN w : w[i] \in Node
         /\ \A i \in DOMAIN w, j \in DOMAIN w : w[i].id = w[j].id => i = j
         /\ Nodes(w) \subseteq Node /\ Ids(w) \subseteq Nat
         /\ w = << >> <=> Len(w) = 0
<1>1. w \in Seq(Node) /\ \A i \in DOMAIN w, j \in DOMAIN w : w[i].id = w[j].id => i = j
  BY DEF Workflow
<1>2. /\ Len(w) \in Nat /\ DOMAIN w = 1 .. Len(w) /\ \A i \in DOMAIN w : w[i] \in Node
      /\ w = << >> <=> Len(w) = 0
  BY <1>1
<1>3. Nodes(w) \subseteq Node
  BY <1>2 DEF Nodes
<1>4. Ids(w) \subseteq Nat
  BY <1>3 DEF Ids, Node
<1> QED  BY <1>1, <1>2, <1>3, <1>4

LEMMA AboveBoth ==
  ASSUME NEW a \in Nat, NEW b \in Nat
  PROVE  \E n \in Nat : n >= a /\ n >= b
<1>1. CASE a >= b
  BY <1>1
<1>2. CASE ~ (a >= b)
  BY <1>2
<1> QED  BY <1>1, <1>2

LEMMA AtMost ==
  ASSUME NEW a \in Nat, NEW b \in Nat, NEW c \in Nat, a <= b, c >= b
  PROVE  a <= c
OBVIOUS

\* The ids of a workflow are bounded, so there is one beyond them.
LEMMA FreshId ==
  ASSUME NEW w \in Workflow
  PROVE  1 + Max(Ids(w) \cup {LastId}) \in Nat /\ 1 + Max(Ids(w) \cup {LastId}) > LastId
         /\ \A i \in DOMAIN w : w[i].id < 1 + Max(Ids(w) \cup {LastId})
<1>1. /\ Len(w) \in Nat /\ DOMAIN w = 1 .. Len(w) /\ Ids(w) \subseteq Nat
      /\ \A i \in DOMAIN w : w[i].id \in Ids(w)
  BY WorkflowFacts DEF Ids, Nodes
<1> DEFINE Unbounded == {k \in Nat : k <= Len(w) /\ ~ \E m \in Nat : \A i \in 1 .. k : w[i].id <= m}
<1>2. Unbounded = {}
  <2> SUFFICES ASSUME Unbounded # {} PROVE FALSE
    OBVIOUS
  <2>1. PICK k \in Unbounded : \A y \in Unbounded : k <= y
    BY LeastNumber
  <2>2. k \in Nat /\ k <= Len(w) /\ ~ \E m \in Nat : \A i \in 1 .. k : w[i].id <= m
    OBVIOUS
  <2>21. k # 0
    <3>1. k = 0 => \A i \in 1 .. k : w[i].id <= 0
      OBVIOUS
    <3> QED  BY <2>2, <3>1
  <2>22. k - 1 \in Nat /\ k - 1 < k
    BY <2>2, <2>21
  <2>3. k - 1 \notin Unbounded
    <3>1. k - 1 \in Unbounded => k <= k - 1
      BY <2>1
    <3> QED  BY <2>2, <2>22, <3>1
  <2>4. PICK m \in Nat : \A i \in 1 .. k - 1 : w[i].id <= m
    BY <1>1, <2>2, <2>22, <2>3
  <2>50. \A i \in 1 .. k : w[i].id \in Nat
    <3>1. \A i \in 1 .. k : i \in DOMAIN w
      BY <1>1, <2>2
    <3> QED  BY <1>1, <3>1
  <2>5. w[k].id \in Nat
    BY <2>2, <2>21, <2>50
  <2>6. PICK n \in Nat : n >= m /\ n >= w[k].id
    BY <2>4, <2>5, AboveBoth
  <2>7. \A i \in 1 .. k : w[i].id <= n
    <3> SUFFICES ASSUME NEW i \in 1 .. k PROVE w[i].id <= n
      OBVIOUS
    <3>1. w[i].id \in Nat
      BY <2>50
    <3>2. i = k \/ i \in 1 .. k - 1
      <4>1. i \in Int /\ 1 <= i /\ i <= k
        BY <2>2
      <4> QED  BY <2>2, <4>1
    <3>3. CASE i = k
      BY <2>6, <3>3
    <3>4. CASE i \in 1 .. k - 1
      <4>1. w[i].id <= m
        BY <2>4, <3>4
      <4>2. n >= m
        BY <2>6
      <4> HIDE DEF Unbounded
      <4> QED  BY <3>1, <4>1, <4>2, AtMost
    <3> QED  BY <3>2, <3>3, <3>4
  <2> QED  BY <2>2, <2>7
<1> HIDE DEF Unbounded
<1>3. PICK m \in Nat : \A i \in 1 .. Len(w) : w[i].id <= m
  <2>1. \A k \in Nat : k <= Len(w) => \E m \in Nat : \A i \in 1 .. k : w[i].id <= m
    BY <1>2 DEF Unbounded
  <2>2. Len(w) \in Nat /\ Len(w) <= Len(w)
    BY <1>1
  <2> QED  BY <2>1, <2>2
<1>4. PICK b \in Nat : b >= m /\ b >= LastId
  BY DEF LastId
<1>5. \A x \in Ids(w) \cup {LastId} : x <= b
  <2>1. \A x \in Ids(w) : \E i \in DOMAIN w : x = w[i].id
    BY DEF Ids, Nodes
  <2> QED  BY <1>1, <1>3, <1>4, <2>1 DEF LastId
<1>6. /\ Max(Ids(w) \cup {LastId}) \in Ids(w) \cup {LastId}
      /\ \A x \in Ids(w) \cup {LastId} : x <= Max(Ids(w) \cup {LastId})
  <2>1. Ids(w) \cup {LastId} \subseteq Nat /\ Ids(w) \cup {LastId} # {}
    BY <1>1 DEF LastId
  <2> DEFINE S == Ids(w) \cup {LastId}
  <2>2. S \subseteq Nat /\ S # {} /\ b \in Nat /\ \A x \in S : x <= b
    BY <1>4, <1>5, <2>1
  <2> HIDE DEF S
  <2>3. Max(S) \in S /\ \A x \in S : x <= Max(S)
    BY <2>2, MaxOfBounded
  <2> QED  BY <2>3 DEF S
<1> DEFINE top == Max(Ids(w) \cup {LastId})
<1>6a. top \in Ids(w) \cup {LastId} /\ \A x \in Ids(w) \cup {LastId} : x <= top
  BY <1>6
<1> HIDE DEF top
<1>6b. \A i \in DOMAIN w : w[i].id \in Nat /\ w[i].id \in Ids(w) \cup {LastId}
  BY <1>1
<1>7. /\ top \in Nat /\ LastId <= top
      /\ \A i \in DOMAIN w : w[i].id \in Nat /\ w[i].id <= top
  <2>1. top \in Nat /\ LastId <= top
    BY <1>1, <1>6a DEF LastId
  <2> QED  BY <1>6a, <1>6b, <2>1
<1>8. 1 + top \in Nat /\ 1 + top > LastId /\ \A i \in DOMAIN w : w[i].id < 1 + top
  BY <1>7 DEF LastId
<1> QED  BY <1>8 DEF top

-----------------------------------------------------------------------------
\* What a workflow lacks, node by node

LEMMA LackingIs ==
  ASSUME NEW w
  PROVE  /\ Lacking(w, "nodes") = Whole(w = << >>)
         /\ Lacking(w, "predicate") = {n.id : n \in {m \in Nodes(w) : m.type \in Branches /\ ~m.predicate}}
         /\ Lacking(w, "trigger") = Whole(w # << >> /\ w[1].type \notin Triggers)
         /\ Lacking(w, "exit") = Whole(w # << >> /\ w[Len(w)].type \notin Exits)
         /\ Lacking(w, "retry") = {n.id : n \in {m \in Nodes(w) : m.act \in Effects /\ ~m.retry}}
         /\ Lacking(w, "monitoring") = Whole(Len(w) >= 3 /\ \A n \in Nodes(w) : ~Audited(n))
         /\ Lacking(w, "paths") = {n.id : n \in {m \in Nodes(w) : m.type \in Branches /\ ~m.paths}}
BY DEF Lacking, Of, Unguarded

LEMMA WholeIs ==
  ASSUME NEW b \in BOOLEAN
  PROVE  /\ \A x : x \in Whole(b) <=> (b /\ x = 0)
         /\ Whole(b) = {} <=> ~b
BY DEF Whole

LEMMA WholeLacks ==
  ASSUME NEW w \in Workflow
  PROVE  /\ Lacking(w, "nodes") = {} <=> w # << >>
         /\ Lacking(w, "trigger") = {} <=> (w = << >> \/ w[1].type \in Triggers)
         /\ Lacking(w, "exit") = {} <=> (w = << >> \/ w[Len(w)].type \in Exits)
         /\ Lacking(w, "monitoring") = {} <=> (~ (Len(w) >= 3) \/ \E i \in DOMAIN w : Audited(w[i]))
         /\ \A l \in {"nodes", "trigger", "exit", "monitoring"} : Lacking(w, l) \subseteq {0}
<1>1. Lacking(w, "nodes") = {} <=> w # << >>
  BY LackingIs, WholeIs
<1>2. Lacking(w, "trigger") = {} <=> (w = << >> \/ w[1].type \in Triggers)
  BY LackingIs, WholeIs
<1>3. Lacking(w, "exit") = {} <=> (w = << >> \/ w[Len(w)].type \in Exits)
  BY LackingIs, WholeIs
<1>4. Lacking(w, "monitoring") = {} <=> (~ (Len(w) >= 3) \/ \E i \in DOMAIN w : Audited(w[i]))
  <2>1. (\A n \in Nodes(w) : ~Audited(n)) <=> ~ \E i \in DOMAIN w : Audited(w[i])
    BY DEF Nodes
  <2> QED  BY <2>1, LackingIs, WholeIs
<1>5. \A b : Whole(b) \subseteq {0}
  BY DEF Whole
<1>6. \A l \in {"nodes", "trigger", "exit", "monitoring"} : Lacking(w, l) \subseteq {0}
  <2>1. Lacking(w, "nodes") \subseteq {0} /\ Lacking(w, "trigger") \subseteq {0}
    BY <1>5, LackingIs
  <2>2. Lacking(w, "exit") \subseteq {0} /\ Lacking(w, "monitoring") \subseteq {0}
    BY <1>5, LackingIs
  <2> QED  BY <2>1, <2>2
<1> QED  BY <1>1, <1>2, <1>3, <1>4, <1>6

LEMMA NodesLack ==
  ASSUME NEW w, NEW x
  PROVE  /\ x \in Lacking(w, "predicate") <=>
              \E i \in DOMAIN w : w[i].id = x /\ w[i].type \in Branches /\ ~w[i].predicate
         /\ x \in Lacking(w, "paths") <=>
              \E i \in DOMAIN w : w[i].id = x /\ w[i].type \in Branches /\ ~w[i].paths
         /\ x \in Lacking(w, "retry") <=>
              \E i \in DOMAIN w : w[i].id = x /\ w[i].act \in Effects /\ ~w[i].retry
BY SMTT(30), LackingIs DEF Nodes

LEMMA IssueIs ==
  ASSUME NEW w, NEW i
  PROVE  i \in Issues(w) <=> \E l \in Checks : \E x \in Lacking(w, l) : i = [lacks |-> l, of |-> x]
BY DEF Issues

LEMMA IssueFacts ==
  ASSUME NEW w \in Workflow, NEW i \in Issues(w)
  PROVE  /\ i.lacks \in Checks /\ i.of \in Nat /\ i.of \in Lacking(w, i.lacks)
         /\ i = [lacks |-> i.lacks, of |-> i.of]
         /\ i.of = 0 \/ i.of \in Ids(w)
<1>1. PICK l \in Checks : \E x \in Lacking(w, l) : i = [lacks |-> l, of |-> x]
  BY IssueIs
<1>2. PICK x \in Lacking(w, l) : i = [lacks |-> l, of |-> x]
  BY <1>1
<1>3. i.lacks = l /\ i.of = x
  BY <1>2
<1>4. x = 0 \/ x \in Ids(w)
  <2>1. CASE l \in {"predicate", "retry", "paths"}
    <3>1. \E j \in DOMAIN w : w[j].id = x
      BY <1>2, <2>1, NodesLack
    <3> QED  BY <3>1 DEF Ids, Nodes
  <2>2. CASE l \in {"nodes", "trigger", "exit", "monitoring"}
    BY <1>2, <2>2, WholeLacks
  <2>3. CASE l \in {"failure paths", "action"}
    <3>1. \E b : Lacking(w, l) = Whole(b)
      BY <2>3 DEF Lacking
    <3>2. \A b : Whole(b) \subseteq {0}
      BY DEF Whole
    <3> QED  BY <1>2, <3>1, <3>2
  <2> QED  BY <1>1, <2>1, <2>2, <2>3 DEF Checks
<1>5. x \in Nat
  BY <1>4, WorkflowFacts
<1> QED  BY <1>1, <1>2, <1>3, <1>4, <1>5

-----------------------------------------------------------------------------
\* What repairs keep: a node is the better for them, and what they add is no
\* branch and goes by an id of its own

Better(n, m) ==
  /\ n.id = m.id /\ n.type = m.type /\ n.act = m.act
  /\ n.audit = m.audit /\ (m.predicate => n.predicate) /\ (m.paths => n.paths) /\ (m.retry => n.retry)

Kept(v, w) ==
  /\ v \in Workflow /\ Len(v) >= Len(w) /\ Ids(w) \subseteq Ids(v)
  /\ \A i \in DOMAIN v :
       \/ v[i].id \notin Ids(w) /\ v[i].id > LastId /\ v[i].type \notin Branches
       \/ \E j \in DOMAIN w : Better(v[i], w[j])
  /\ w # << >> => /\ w[1].type \in Triggers => v[1].type \in Triggers
                  /\ w[Len(w)].type \in Exits => v[Len(v)].type \in Exits
  /\ (\E i \in DOMAIN w : Audited(w[i])) => \E i \in DOMAIN v : Audited(v[i])

SameNodes(v, w) ==
  /\ v \in [DOMAIN w -> Node]
  /\ \A i \in DOMAIN w : v[i].id = w[i].id /\ v[i].type = w[i].type /\ v[i].act = w[i].act
                            /\ v[i].audit = w[i].audit

LEMMA NewNode ==
  ASSUME NEW w \in Workflow, NEW t \in NodeType, NEW a \in NodeActionType, NEW r \in BOOLEAN
  PROVE  /\ New(w, t, a, r) \in Node /\ New(w, t, a, r).type = t
         /\ New(w, t, a, r).id \notin Ids(w) /\ New(w, t, a, r).id > LastId
<1> DEFINE x == 1 + Max(Ids(w) \cup {LastId})
<1>1. x \in Nat /\ x > LastId /\ \A i \in DOMAIN w : w[i].id < x
  BY FreshId
<1> HIDE DEF x
<1>2. x \in Nat \ {0} /\ x \notin Ids(w)
  <2>1. \A i \in DOMAIN w : w[i].id \in Nat
    BY WorkflowFacts DEF Node
  <2>2. \A i \in DOMAIN w : w[i].id # x
    BY <1>1, <2>1
  <2> QED  BY <1>1, <2>2 DEF Ids, Nodes, LastId
<1>3. New(w, t, a, r) = [id |-> x, type |-> t, act |-> a, recovers |-> r,
                         retry |-> FALSE, predicate |-> FALSE, paths |-> FALSE, audit |-> FALSE]
  BY DEF New, x
<1> QED  BY <1>1, <1>2, <1>3 DEF Node

LEMMA SameNodesFacts ==
  ASSUME NEW w \in Workflow, NEW v, SameNodes(v, w)
  PROVE  /\ v \in Workflow /\ Len(v) = Len(w) /\ DOMAIN v = DOMAIN w /\ Ids(v) = Ids(w)
         /\ v = << >> <=> w = << >>
         /\ \A l \in {"nodes", "trigger", "exit", "monitoring"} : Lacking(v, l) = {} <=> Lacking(w, l) = {}
<1>1. /\ w \in Seq(Node) /\ Len(w) \in Nat /\ DOMAIN w = 1 .. Len(w)
      /\ w = << >> <=> Len(w) = 0
  BY WorkflowFacts
<1>2. /\ DOMAIN v = 1 .. Len(w) /\ v \in [1 .. Len(w) -> Node]
      /\ \A i \in DOMAIN w : v[i].id = w[i].id /\ v[i].type = w[i].type /\ v[i].audit = w[i].audit
  BY <1>1 DEF SameNodes
<1>3. v \in Seq(Node) /\ Len(v) = Len(w)
  BY <1>1, <1>2
<1>4. v \in Workflow
  <2>1. \A i \in DOMAIN v, j \in DOMAIN v : v[i].id = v[j].id => i = j
    BY <1>1, <1>2, WorkflowFacts
  <2> QED  BY <1>3, <2>1 DEF Workflow
<1>5. Ids(v) = Ids(w)
  BY <1>1, <1>2 DEF Ids, Nodes
<1>6. v = << >> <=> w = << >>
  BY <1>1, <1>3, <1>4, WorkflowFacts
<1>7. \A l \in {"nodes", "trigger", "exit", "monitoring"} : Lacking(v, l) = {} <=> Lacking(w, l) = {}
  <2>1. Lacking(v, "nodes") = {} <=> Lacking(w, "nodes") = {}
    BY <1>4, <1>6, WholeLacks
  <2>2. w # << >> => 1 \in DOMAIN w /\ Len(w) \in DOMAIN w
    BY <1>1
  <2>3. Lacking(v, "trigger") = {} <=> Lacking(w, "trigger") = {}
    BY <1>2, <1>4, <1>6, <2>2, WholeLacks
  <2>4. Lacking(v, "exit") = {} <=> Lacking(w, "exit") = {}
    BY <1>2, <1>3, <1>4, <1>6, <2>2, WholeLacks
  <2>5. (\E i \in DOMAIN v : Audited(v[i])) <=> \E i \in DOMAIN w : Audited(w[i])
    BY <1>1, <1>2 DEF Audited
  <2>6. Lacking(v, "monitoring") = {} <=> Lacking(w, "monitoring") = {}
    BY <1>3, <1>4, <2>5, WholeLacks
  <2> QED  BY <2>1, <2>3, <2>4, <2>6
<1> QED  BY <1>1, <1>2, <1>3, <1>4, <1>5, <1>6, <1>7

LEMMA Prepended ==
  ASSUME NEW w \in Workflow, NEW n \in Node, n.id \notin Ids(w)
  PROVE  /\ <<n>> \o w \in Workflow /\ Len(<<n>> \o w) = Len(w) + 1
         /\ (<<n>> \o w)[1] = n /\ \A i \in DOMAIN w : (<<n>> \o w)[i + 1] = w[i]
<1>1. w \in Seq(Node) /\ Len(w) \in Nat /\ DOMAIN w = 1 .. Len(w)
  BY WorkflowFacts
<1> DEFINE v == <<n>> \o w
<1>2. /\ v \in Seq(Node) /\ Len(v) = Len(w) + 1 /\ v[1] = n
      /\ \A i \in DOMAIN w : v[i + 1] = w[i]
  BY <1>1
<1>3. \A i \in DOMAIN v : i # 1 => i - 1 \in DOMAIN w /\ v[i] = w[i - 1]
  BY <1>1, <1>2
<1> HIDE DEF v
<1>4. \A i \in DOMAIN v, j \in DOMAIN v : v[i].id = v[j].id => i = j
  <2> SUFFICES ASSUME NEW i \in DOMAIN v, NEW j \in DOMAIN v, v[i].id = v[j].id PROVE i = j
    OBVIOUS
  <2>1. \A k \in DOMAIN w : w[k].id # n.id
    BY DEF Ids, Nodes
  <2>2. i \in Int /\ j \in Int
    BY <1>1, <1>2
  <2>3. CASE i = 1 \/ j = 1
    BY <1>2, <1>3, <2>1, <2>3
  <2>4. CASE i # 1 /\ j # 1
    <3>1. i - 1 = j - 1
      BY <1>3, <2>4, WorkflowFacts
    <3> QED  BY <2>2, <3>1
  <2> QED  BY <2>3, <2>4
<1>5. v \in Workflow
  BY <1>2, <1>4 DEF Workflow
<1> QED  BY <1>2, <1>5 DEF v

LEMMA Appended ==
  ASSUME NEW w \in Workflow, NEW n \in Node, n.id \notin Ids(w)
  PROVE  /\ Append(w, n) \in Workflow /\ Len(Append(w, n)) = Len(w) + 1
         /\ Append(w, n)[Len(w) + 1] = n /\ \A i \in DOMAIN w : Append(w, n)[i] = w[i]
<1>1. w \in Seq(Node) /\ Len(w) \in Nat /\ DOMAIN w = 1 .. Len(w)
  BY WorkflowFacts
<1> DEFINE v == Append(w, n)
<1>2. /\ v \in Seq(Node) /\ Len(v) = Len(w) + 1 /\ v[Len(w) + 1] = n
      /\ \A i \in DOMAIN w : v[i] = w[i]
  BY <1>1
<1>3. \A i \in DOMAIN v : i # Len(w) + 1 => i \in DOMAIN w /\ v[i] = w[i]
  BY <1>1, <1>2
<1> HIDE DEF v
<1>4. \A i \in DOMAIN v, j \in DOMAIN v : v[i].id = v[j].id => i = j
  <2> SUFFICES ASSUME NEW i \in DOMAIN v, NEW j \in DOMAIN v, v[i].id = v[j].id PROVE i = j
    OBVIOUS
  <2>1. \A k \in DOMAIN w : w[k].id # n.id
    BY DEF Ids, Nodes
  <2>2. CASE i = Len(w) + 1 \/ j = Len(w) + 1
    BY <1>2, <1>3, <2>1, <2>2
  <2>3. CASE i # Len(w) + 1 /\ j # Len(w) + 1
    BY <1>3, <2>3, WorkflowFacts
  <2> QED  BY <2>2, <2>3
<1>5. v \in Workflow
  BY <1>2, <1>4 DEF Workflow
<1> QED  BY <1>2, <1>5 DEF v

LEMMA ChangesKeep ==
  ASSUME NEW w \in Workflow, NEW v, SameNodes(v, w), \A i \in DOMAIN w : Better(v[i], w[i])
  PROVE  Kept(v, w)
<1>1. /\ v \in Workflow /\ Len(v) = Len(w) /\ DOMAIN v = DOMAIN w /\ Ids(v) = Ids(w)
      /\ v = << >> <=> w = << >>
  BY SameNodesFacts
<1>2. Len(w) \in Nat /\ DOMAIN w = 1 .. Len(w) /\ (w = << >> <=> Len(w) = 0)
  BY WorkflowFacts
<1>3. \A i \in DOMAIN v : \E j \in DOMAIN w : Better(v[i], w[j])
  BY <1>1
<1>4. w # << >> => /\ w[1].type \in Triggers => v[1].type \in Triggers
                   /\ w[Len(w)].type \in Exits => v[Len(v)].type \in Exits
  <2>1. w # << >> => 1 \in DOMAIN w /\ Len(w) \in DOMAIN w
    BY <1>2
  <2> QED  BY <1>1, <2>1 DEF SameNodes
<1>5. (\E i \in DOMAIN w : Audited(w[i])) => \E i \in DOMAIN v : Audited(v[i])
  BY <1>1 DEF SameNodes, Audited
<1> QED  BY <1>1, <1>2, <1>3, <1>4, <1>5 DEF Kept

LEMMA BetterItself ==
  ASSUME NEW n
  PROVE  Better(n, n)
BY DEF Better

LEMMA PrependedKeeps ==
  ASSUME NEW w \in Workflow, NEW n \in Node, n.id \notin Ids(w), n.id > LastId, n.type \in Triggers
  PROVE  Kept(<<n>> \o w, w)
<1> DEFINE v == <<n>> \o w
<1>1. Len(w) \in Nat /\ DOMAIN w = 1 .. Len(w) /\ (w = << >> <=> Len(w) = 0)
  BY WorkflowFacts
<1>2. v \in Workflow /\ Len(v) = Len(w) + 1 /\ v[1] = n /\ \A i \in DOMAIN w : v[i + 1] = w[i]
  BY Prepended
<1>3. DOMAIN v = 1 .. Len(w) + 1
  BY <1>2, WorkflowFacts
<1> HIDE DEF v
<1>4. \A i \in DOMAIN w : i + 1 \in DOMAIN v
  BY <1>1, <1>3
<1>5. Ids(w) \subseteq Ids(v)
  BY <1>2, <1>4 DEF Ids, Nodes
<1>6. \A i \in DOMAIN v :
        \/ v[i].id \notin Ids(w) /\ v[i].id > LastId /\ v[i].type \notin Branches
        \/ \E j \in DOMAIN w : Better(v[i], w[j])
  <2> SUFFICES ASSUME NEW i \in DOMAIN v, i # 1 PROVE \E j \in DOMAIN w : Better(v[i], w[j])
    BY <1>2 DEF Triggers, Branches
  <2>1. i - 1 \in DOMAIN w /\ (i - 1) + 1 = i
    BY <1>1, <1>3
  <2>2. v[i] = w[i - 1]
    BY <1>2, <2>1
  <2> QED  BY <2>1, <2>2, BetterItself
<1>7. w # << >> => /\ w[1].type \in Triggers => v[1].type \in Triggers
                   /\ w[Len(w)].type \in Exits => v[Len(v)].type \in Exits
  <2>1. w # << >> => Len(w) \in DOMAIN w
    BY <1>1
  <2> QED  BY <1>2, <2>1
<1>8. (\E i \in DOMAIN w : Audited(w[i])) => \E i \in DOMAIN v : Audited(v[i])
  BY <1>2, <1>4
<1>9. Len(v) >= Len(w)
  BY <1>1, <1>2
<1>10. Kept(v, w)
  BY <1>2, <1>5, <1>6, <1>7, <1>8, <1>9 DEF Kept
<1> QED  BY <1>10 DEF v

LEMMA AppendedKeeps ==
  ASSUME NEW w \in Workflow, NEW n \in Node, n.id \notin Ids(w), n.id > LastId, n.type \in Exits
  PROVE  Kept(Append(w, n), w)
<1> DEFINE v == Append(w, n)
<1>1. Len(w) \in Nat /\ DOMAIN w = 1 .. Len(w) /\ (w = << >> <=> Len(w) = 0)
  BY WorkflowFacts
<1>2. v \in Workflow /\ Len(v) = Len(w) + 1 /\ v[Len(w) + 1] = n /\ \A i \in DOMAIN w : v[i] = w[i]
  BY Appended
<1>3. DOMAIN v = 1 .. Len(w) + 1
  BY <1>2, WorkflowFacts
<1> HIDE DEF v
<1>4. \A i \in DOMAIN w : i \in DOMAIN v
  BY <1>1, <1>3
<1>5. Ids(w) \subseteq Ids(v)
  BY <1>2, <1>4 DEF Ids, Nodes
<1>6. \A i \in DOMAIN v :
        \/ v[i].id \notin Ids(w) /\ v[i].id > LastId /\ v[i].type \notin Branches
        \/ \E j \in DOMAIN w : Better(v[i], w[j])
  <2> SUFFICES ASSUME NEW i \in DOMAIN v, i # Len(w) + 1 PROVE \E j \in DOMAIN w : Better(v[i], w[j])
    BY <1>2 DEF Exits, Branches
  <2>1. i \in DOMAIN w
    BY <1>1, <1>3
  <2> QED  BY <1>2, <2>1, BetterItself
<1>7. w # << >> => /\ w[1].type \in Triggers => v[1].type \in Triggers
                   /\ w[Len(w)].type \in Exits => v[Len(v)].type \in Exits
  <2>1. w # << >> => 1 \in DOMAIN w
    BY <1>1
  <2> QED  BY <1>2, <2>1
<1>8. (\E i \in DOMAIN w : Audited(w[i])) => \E i \in DOMAIN v : Audited(v[i])
  BY <1>2, <1>4
<1>9. Len(v) >= Len(w)
  BY <1>1, <1>2
<1>10. Kept(v, w)
  BY <1>2, <1>5, <1>6, <1>7, <1>8, <1>9 DEF Kept
<1> QED  BY <1>10 DEF v

LEMMA Unchanged ==
  ASSUME NEW w \in Workflow
  PROVE  SameNodes(w, w) /\ Kept(w, w)
<1>1. SameNodes(w, w)
  <2>1. w \in [DOMAIN w -> Node]
    BY WorkflowFacts
  <2> QED  BY <2>1 DEF SameNodes
<1> QED  BY <1>1, BetterItself, ChangesKeep

LEMMA RetriedIs ==
  ASSUME NEW n \in Node
  PROVE  Retried(n) \in Node /\ Better(Retried(n), n) /\ Retried(n).retry
BY DEF Retried, Better, Node

\* The repairs that change nodes and add none.
LEMMA ChangedNodes ==
  ASSUME NEW w \in Workflow, NEW S, NEW l \in {"failure paths", "retry", "predicate", "paths"}
  PROVE  /\ SameNodes(Repair(w, l, S), w)
         /\ \A i \in DOMAIN w : Better(Repair(w, l, S)[i], w[i])
         /\ \A i \in DOMAIN w : w[i].id \in S =>
              /\ l = "retry" => Repair(w, l, S)[i].retry
              /\ l = "predicate" => Repair(w, l, S)[i].predicate
              /\ l = "paths" => Repair(w, l, S)[i].paths
<1>1. \A i \in DOMAIN w : w[i] \in Node
  BY WorkflowFacts
<1>2. CASE l = "failure paths"
  <2>1. Repair(w, l, S) = [i \in DOMAIN w |-> IF Unguarded(w[i]) THEN Retried(w[i]) ELSE w[i]]
    BY <1>2 DEF Repair, Change
  <2>2. \A i \in DOMAIN w : /\ Repair(w, l, S)[i] \in Node
                            /\ Better(Repair(w, l, S)[i], w[i])
    BY <1>1, <2>1, RetriedIs, BetterItself
  <2>3. SameNodes(Repair(w, l, S), w)
    BY <2>1, <2>2 DEF SameNodes, Better
  <2> QED  BY <1>2, <2>2, <2>3
<1>3. CASE l = "retry"
  <2>1. Repair(w, l, S) = [i \in DOMAIN w |-> IF w[i].id \in S THEN Retried(w[i]) ELSE w[i]]
    BY <1>3 DEF Repair, Change
  <2>2. \A i \in DOMAIN w : /\ Repair(w, l, S)[i] \in Node
                            /\ Better(Repair(w, l, S)[i], w[i])
                            /\ w[i].id \in S => Repair(w, l, S)[i].retry
    BY <1>1, <2>1, RetriedIs, BetterItself
  <2>3. SameNodes(Repair(w, l, S), w)
    BY <2>1, <2>2 DEF SameNodes, Better
  <2> QED  BY <1>3, <2>2, <2>3
<1>4. CASE l = "predicate"
  <2>1. Repair(w, l, S) =
          [i \in DOMAIN w |-> IF w[i].id \in S THEN [w[i] EXCEPT !.predicate = TRUE] ELSE w[i]]
    BY <1>4 DEF Repair, Change
  <2>2. \A n \in Node : /\ [n EXCEPT !.predicate = TRUE] \in Node
                        /\ Better([n EXCEPT !.predicate = TRUE], n)
                        /\ [n EXCEPT !.predicate = TRUE].predicate
    BY DEF Better, Node
  <2>3. \A i \in DOMAIN w : /\ Repair(w, l, S)[i] \in Node
                            /\ Better(Repair(w, l, S)[i], w[i])
                            /\ w[i].id \in S => Repair(w, l, S)[i].predicate
    BY <1>1, <2>1, <2>2, BetterItself
  <2>4. SameNodes(Repair(w, l, S), w)
    BY <2>1, <2>3 DEF SameNodes, Better
  <2> QED  BY <1>4, <2>3, <2>4
<1>5. CASE l = "paths"
  <2>1. Repair(w, l, S) =
          [i \in DOMAIN w |-> IF w[i].id \in S THEN [w[i] EXCEPT !.paths = TRUE] ELSE w[i]]
    BY <1>5 DEF Repair, Change
  <2>2. \A n \in Node : /\ [n EXCEPT !.paths = TRUE] \in Node
                        /\ Better([n EXCEPT !.paths = TRUE], n)
                        /\ [n EXCEPT !.paths = TRUE].paths
    BY DEF Better, Node
  <2>3. \A i \in DOMAIN w : /\ Repair(w, l, S)[i] \in Node
                            /\ Better(Repair(w, l, S)[i], w[i])
                            /\ w[i].id \in S => Repair(w, l, S)[i].paths
    BY <1>1, <2>1, <2>2, BetterItself
  <2>4. SameNodes(Repair(w, l, S), w)
    BY <2>1, <2>3 DEF SameNodes, Better
  <2> QED  BY <1>5, <2>3, <2>4
<1> QED  BY <1>2, <1>3, <1>4, <1>5

LEMMA RepairKeeps ==
  ASSUME NEW w \in Workflow, NEW l \in Checks, NEW S
  PROVE  Kept(Repair(w, l, S), w)
<1>1. CASE l \in {"trigger", "nodes"}
  <2> DEFINE n == New(w, "schedule", "read", FALSE)
  <2>1. n \in Node /\ n.type = "schedule" /\ n.id \notin Ids(w) /\ n.id > LastId
    <3>1. "schedule" \in NodeType /\ "read" \in NodeActionType /\ FALSE \in BOOLEAN
      BY NodeTypeAssumption DEF Triggers, Exits, NodeActionType
    <3> QED  BY <3>1, NewNode
  <2>2. Repair(w, l, S) = <<n>> \o w
    BY <1>1 DEF Repair
  <2> HIDE DEF n
  <2>3. n.type \in Triggers
    BY <2>1 DEF Triggers
  <2> QED  BY <2>1, <2>2, <2>3, PrependedKeeps
<1>2. CASE l = "exit"
  <2> DEFINE n == New(w, "notification", "write", TRUE)
  <2>1. n \in Node /\ n.type = "notification" /\ n.id \notin Ids(w) /\ n.id > LastId
    <3>1. "notification" \in NodeType /\ "write" \in NodeActionType /\ TRUE \in BOOLEAN
      BY NodeTypeAssumption DEF Triggers, Exits, NodeActionType
    <3> QED  BY <3>1, NewNode
  <2>2. Repair(w, l, S) = Append(w, n)
    BY <1>2 DEF Repair
  <2> HIDE DEF n
  <2>3. n.type \in Exits
    BY <2>1 DEF Exits
  <2> QED  BY <2>1, <2>2, <2>3, AppendedKeeps
<1>3. CASE l = "monitoring"
  <2> DEFINE n == New(w, "log-monitor", "write", TRUE)
  <2>1. n \in Node /\ n.type = "log-monitor" /\ n.id \notin Ids(w) /\ n.id > LastId
    <3>1. "log-monitor" \in NodeType /\ "write" \in NodeActionType /\ TRUE \in BOOLEAN
      BY NodeTypeAssumption DEF Triggers, Exits, NodeActionType
    <3> QED  BY <3>1, NewNode
  <2>2. Repair(w, l, S) = Append(w, n)
    BY <1>3 DEF Repair
  <2> HIDE DEF n
  <2>3. n.type \in Exits
    BY <2>1 DEF Exits
  <2> QED  BY <2>1, <2>2, <2>3, AppendedKeeps
<1>4. CASE l \in {"failure paths", "retry", "predicate", "paths"}
  BY <1>4, ChangedNodes, ChangesKeep
<1>5. CASE l = "action"
  <2>1. Repair(w, l, S) = w
    BY <1>5 DEF Repair
  <2> QED  BY <2>1, Unchanged
<1> QED  BY <1>1, <1>2, <1>3, <1>4, <1>5 DEF Checks

LEMMA KeptFacts ==
  ASSUME NEW w \in Workflow, NEW v, Kept(v, w)
  PROVE  /\ v \in Workflow /\ (w # << >> => v # << >>)
         /\ \A l \in {"predicate", "paths"} : Lacking(v, l) \subseteq Lacking(w, l)
         /\ \A x \in Lacking(v, "retry") : x \in Lacking(w, "retry") \/ (x \notin Ids(w) /\ x > LastId)
         /\ w # << >> => \A l \in {"trigger", "exit"} : Lacking(w, l) = {} => Lacking(v, l) = {}
<1>1. v \in Workflow /\ Len(v) >= Len(w)
  BY DEF Kept
<1>2. w # << >> => v # << >>
  BY <1>1, WorkflowFacts
<1>3. ASSUME NEW l \in {"predicate", "paths"}, NEW x \in Lacking(v, l)
      PROVE  x \in Lacking(w, l)
  <2>1. PICK i \in DOMAIN v : /\ v[i].id = x /\ v[i].type \in Branches
                              /\ (l = "predicate" => ~v[i].predicate) /\ (l = "paths" => ~v[i].paths)
    BY <1>3, NodesLack
  <2>2. PICK j \in DOMAIN w : Better(v[i], w[j])
    BY <2>1 DEF Kept
  <2>3. /\ w[j].id = x /\ w[j].type \in Branches
        /\ (l = "predicate" => ~w[j].predicate) /\ (l = "paths" => ~w[j].paths)
    BY <2>1, <2>2 DEF Better
  <2> QED  BY <1>3, <2>3, NodesLack
<1>4. ASSUME NEW x \in Lacking(v, "retry")
      PROVE  x \in Lacking(w, "retry") \/ (x \notin Ids(w) /\ x > LastId)
  <2>1. PICK i \in DOMAIN v : v[i].id = x /\ v[i].act \in Effects /\ ~v[i].retry
    BY <1>4, NodesLack
  <2>2. CASE v[i].id \notin Ids(w) /\ v[i].id > LastId
    BY <2>1, <2>2
  <2>3. CASE \E j \in DOMAIN w : Better(v[i], w[j])
    <3>1. PICK j \in DOMAIN w : Better(v[i], w[j])
      BY <2>3
    <3>2. w[j].id = x /\ w[j].act \in Effects /\ ~w[j].retry
      BY <2>1, <3>1 DEF Better
    <3> QED  BY <3>2, NodesLack
  <2> QED  BY <2>2, <2>3 DEF Kept
<1>5. w # << >> => \A l \in {"trigger", "exit"} : Lacking(w, l) = {} => Lacking(v, l) = {}
  <2> SUFFICES ASSUME w # << >>
               PROVE  /\ Lacking(w, "trigger") = {} => Lacking(v, "trigger") = {}
                      /\ Lacking(w, "exit") = {} => Lacking(v, "exit") = {}
    OBVIOUS
  <2>1. Lacking(w, "trigger") = {} => Lacking(v, "trigger") = {}
    BY <1>1, WholeLacks DEF Kept
  <2>2. Lacking(w, "exit") = {} => Lacking(v, "exit") = {}
    BY <1>1, WholeLacks DEF Kept
  <2> QED  BY <2>1, <2>2
<1> QED  BY <1>1, <1>2, <1>3, <1>4, <1>5

\* What a repair of one issue leaves for good.
Settled(w, l, x) ==
  /\ l \in {"predicate", "retry", "paths"} => x \notin Lacking(w, l)
  /\ l \in {"nodes", "trigger", "exit", "monitoring"} => w # << >>
  /\ l \in {"nodes", "trigger"} => w[1].type \in Triggers
  /\ l = "exit" => w[Len(w)].type \in Exits
  /\ l = "monitoring" => \E i \in DOMAIN w : Audited(w[i])

LEMMA SettledMeans ==
  ASSUME NEW w \in Workflow, NEW l \in Checks \ {"failure paths", "action"}, NEW x, Settled(w, l, x)
  PROVE  x \notin Lacking(w, l)
<1>1. CASE l \in {"predicate", "retry", "paths"}
  BY <1>1 DEF Settled
<1>2. CASE l \in {"nodes", "trigger", "exit", "monitoring"}
  <2>1. Lacking(w, l) = {}
    BY <1>2, WholeLacks DEF Settled
  <2> QED  BY <2>1
<1> QED  BY <1>1, <1>2 DEF Checks

LEMMA SettledStays ==
  ASSUME NEW w \in Workflow, NEW v, Kept(v, w), NEW l \in Checks, NEW x \in Nat,
         x <= LastId \/ x \in Ids(w), Settled(w, l, x)
  PROVE  Settled(v, l, x)
<1>1. l \in {"predicate", "paths"} => x \notin Lacking(v, l)
  BY KeptFacts DEF Settled
<1>2. l = "retry" => x \notin Lacking(v, l)
  <2>1. ~ (x \notin Ids(w) /\ x > LastId)
    BY DEF LastId
  <2> QED  BY <2>1, KeptFacts DEF Settled
<1>3. l \in {"nodes", "trigger", "exit", "monitoring"} => v # << >>
  BY KeptFacts DEF Settled
<1>4. /\ l \in {"nodes", "trigger"} => v[1].type \in Triggers
      /\ l = "exit" => v[Len(v)].type \in Exits
      /\ l = "monitoring" => \E i \in DOMAIN v : Audited(v[i])
  BY DEF Settled, Kept
<1> QED  BY <1>1, <1>2, <1>3, <1>4 DEF Settled

LEMMA RepairSettlesIt ==
  ASSUME NEW w \in Workflow, NEW l \in Checks \ {"action"}, NEW S, NEW x \in S
  PROVE  Settled(Repair(w, l, S), l, x)
<1> DEFINE v == Repair(w, l, S)
<1>0. v \in Workflow
  BY RepairKeeps DEF Kept
<1>1. CASE l \in {"trigger", "nodes"}
  <2> DEFINE n == New(w, "schedule", "read", FALSE)
  <2>1. n \in Node /\ n.type = "schedule" /\ n.id \notin Ids(w)
    <3>1. "schedule" \in NodeType /\ "read" \in NodeActionType /\ FALSE \in BOOLEAN
      BY NodeTypeAssumption DEF Triggers, Exits, NodeActionType
    <3> QED  BY <3>1, NewNode
  <2>2. v = <<n>> \o w
    BY <1>1 DEF Repair
  <2> HIDE DEF n, v
  <2>3. v[1] = n /\ Len(v) = Len(w) + 1
    BY <2>1, <2>2, Prepended
  <2>4. v # << >>
    BY <1>0, <2>3, WorkflowFacts
  <2> QED  BY <1>1, <2>1, <2>3, <2>4 DEF Settled, Triggers, v
<1>2. CASE l = "exit"
  <2> DEFINE n == New(w, "notification", "write", TRUE)
  <2>1. n \in Node /\ n.type = "notification" /\ n.id \notin Ids(w)
    <3>1. "notification" \in NodeType /\ "write" \in NodeActionType /\ TRUE \in BOOLEAN
      BY NodeTypeAssumption DEF Triggers, Exits, NodeActionType
    <3> QED  BY <3>1, NewNode
  <2>2. v = Append(w, n)
    BY <1>2 DEF Repair
  <2> HIDE DEF n, v
  <2>3. v[Len(v)] = n /\ Len(v) = Len(w) + 1
    BY <2>1, <2>2, Appended
  <2>4. v # << >>
    BY <1>0, <2>3, WorkflowFacts
  <2> QED  BY <1>2, <2>1, <2>3, <2>4 DEF Settled, Exits, v
<1>3. CASE l = "monitoring"
  <2> DEFINE n == New(w, "log-monitor", "write", TRUE)
  <2>1. n \in Node /\ n.type = "log-monitor" /\ n.id \notin Ids(w)
    <3>1. "log-monitor" \in NodeType /\ "write" \in NodeActionType /\ TRUE \in BOOLEAN
      BY NodeTypeAssumption DEF Triggers, Exits, NodeActionType
    <3> QED  BY <3>1, NewNode
  <2>2. v = Append(w, n)
    BY <1>3 DEF Repair
  <2> HIDE DEF n, v
  <2>3. v[Len(v)] = n /\ Len(v) = Len(w) + 1
    BY <2>1, <2>2, Appended
  <2>4. v # << >> /\ Len(v) \in DOMAIN v
    BY <1>0, <2>3, WorkflowFacts
  <2> QED  BY <1>3, <2>1, <2>3, <2>4 DEF Settled, Audited, Audits, v
<1>4. CASE l \in {"failure paths", "retry", "predicate", "paths"}
  <2> HIDE DEF v
  <2>1. /\ SameNodes(v, w)
        /\ \A i \in DOMAIN w : w[i].id \in S =>
              /\ l = "retry" => v[i].retry
              /\ l = "predicate" => v[i].predicate
              /\ l = "paths" => v[i].paths
    BY <1>4, ChangedNodes DEF v
  <2>2. DOMAIN v = DOMAIN w /\ \A i \in DOMAIN w : v[i].id = w[i].id
    BY <2>1 DEF SameNodes
  <2>3. l \in {"predicate", "retry", "paths"} => x \notin Lacking(v, l)
    BY <2>1, <2>2, NodesLack
  <2> QED  BY <1>4, <2>3 DEF Settled, v
<1> QED  BY <1>1, <1>2, <1>3, <1>4 DEF Checks

-----------------------------------------------------------------------------
\* The draft of a builder page

LEMMA KeptTransitive ==
  ASSUME NEW u \in Workflow, NEW v, NEW w, Kept(v, u), Kept(w, v)
  PROVE  Kept(w, u)
<1>1. v \in Workflow /\ w \in Workflow
  BY DEF Kept
<1>2. Len(w) >= Len(u)
  <2>1. Len(u) \in Nat /\ Len(v) \in Nat /\ Len(w) \in Nat /\ Len(w) >= Len(v) /\ Len(v) >= Len(u)
    BY <1>1, WorkflowFacts DEF Kept
  <2> QED  BY <2>1
<1>3. Ids(u) \subseteq Ids(w)
  BY DEF Kept
<1>4. ASSUME NEW i \in DOMAIN w
      PROVE  \/ w[i].id \notin Ids(u) /\ w[i].id > LastId /\ w[i].type \notin Branches
             \/ \E k \in DOMAIN u : Better(w[i], u[k])
  <2>1. CASE w[i].id \notin Ids(v) /\ w[i].id > LastId /\ w[i].type \notin Branches
    BY <2>1 DEF Kept
  <2>2. CASE \E j \in DOMAIN v : Better(w[i], v[j])
    <3>1. PICK j \in DOMAIN v : Better(w[i], v[j])
      BY <2>2
    <3>2. CASE v[j].id \notin Ids(u) /\ v[j].id > LastId /\ v[j].type \notin Branches
      BY <3>1, <3>2 DEF Better
    <3>3. CASE \E k \in DOMAIN u : Better(v[j], u[k])
      <4>1. PICK k \in DOMAIN u : Better(v[j], u[k])
        BY <3>3
      <4>2. Better(w[i], u[k])
        BY <3>1, <4>1 DEF Better
      <4> QED  BY <4>2
    <3> QED  BY <3>2, <3>3 DEF Kept
  <2> QED  BY <2>1, <2>2 DEF Kept
<1>5. v # << >> \/ u = << >>
  BY KeptFacts
<1>6. u # << >> => /\ u[1].type \in Triggers => w[1].type \in Triggers
                   /\ u[Len(u)].type \in Exits => w[Len(w)].type \in Exits
  BY <1>5 DEF Kept
<1>7. (\E i \in DOMAIN u : Audited(u[i])) => \E i \in DOMAIN w : Audited(w[i])
  BY DEF Kept
<1> QED  BY <1>1, <1>2, <1>3, <1>4, <1>6, <1>7 DEF Kept

LEMMA Joined ==
  ASSUME NEW T, NEW x \in Seq(T), NEW y \in Seq(T)
  PROVE  x \o y \in Seq(T) /\ Len(x \o y) = Len(x) + Len(y)
OBVIOUS

LEMMA Removed ==
  ASSUME NEW w \in Workflow, NEW i \in DOMAIN w
  PROVE  RemoveAt(w, i) \in Workflow
<1>1. w \in Seq(Node) /\ Len(w) \in Nat /\ DOMAIN w = 1 .. Len(w)
  BY WorkflowFacts
<1>2. i \in Nat /\ 1 <= i /\ i <= Len(w)
  BY <1>1
<1> DEFINE a == SubSeq(w, 1, i - 1)
           b == SubSeq(w, i + 1, Len(w))
           v == a \o b
<1>3. a \in Seq(Node) /\ Len(a) = i - 1 /\ \A j \in 1 .. i - 1 : a[j] = w[j]
  BY <1>1, <1>2
<1>4. b \in Seq(Node) /\ Len(b) = Len(w) - i /\ \A j \in 1 .. Len(w) - i : b[j] = w[i + j]
  BY <1>1, <1>2
<1> HIDE DEF a, b
<1>5. /\ v \in Seq(Node) /\ DOMAIN v = 1 .. Len(w) - 1
      /\ \A j \in 1 .. i - 1 : v[j] = w[j]
      /\ \A j \in i .. Len(w) - 1 : v[j] = w[j + 1]
  <2>1. v \in Seq(Node) /\ Len(v) = Len(w) - 1
    <3>1. a \o b \in Seq(Node) /\ Len(a \o b) = Len(a) + Len(b)
      BY <1>3, <1>4, Joined
    <3> QED  BY <1>1, <1>2, <1>3, <1>4, <3>1
  <2>2. DOMAIN v = 1 .. Len(w) - 1
    <3>1. DOMAIN v = 1 .. Len(v)
      BY <2>1
    <3> QED  BY <2>1, <3>1
  <2>3. \A j \in 1 .. i - 1 : v[j] = w[j]
    BY <1>2, <1>3, <1>4
  <2>4. ASSUME NEW j \in i .. Len(w) - 1
        PROVE  v[j] = w[j + 1]
    <3>1. j - (i - 1) \in 1 .. Len(w) - i /\ i + (j - (i - 1)) = j + 1
      BY <1>1, <1>2
    <3>2. v[j] = b[j - (i - 1)]
      BY SMTT(30), <1>1, <1>2, <1>3, <1>4, <3>1
    <3> QED  BY <1>4, <3>1, <3>2
  <2> QED  BY <2>1, <2>2, <2>3, <2>4
<1> HIDE DEF v
<1>6. ASSUME NEW j \in DOMAIN v, NEW k \in DOMAIN v, v[j].id = v[k].id
      PROVE  j = k
  <2> DEFINE At(n) == IF n < i THEN n ELSE n + 1
  <2>1. \A n \in DOMAIN v : n \in Int /\ At(n) \in DOMAIN w /\ v[n] = w[At(n)]
    BY <1>1, <1>2, <1>5
  <2>2. At(j) = At(k)
    BY <1>6, <2>1, WorkflowFacts
  <2> QED  BY <1>2, <2>1, <2>2
<1>7. v \in Workflow
  BY <1>5, <1>6 DEF Workflow
<1> QED  BY <1>7 DEF RemoveAt, v, a, b

\* The way back to page nodes loses what guards against failures, and no more.
LEMMA PageNodes ==
  ASSUME NEW w \in Workflow
  PROVE  /\ SameNodes(ToPage(w), w)
         /\ \A l \in {"predicate", "paths"} : Lacking(ToPage(w), l) = Lacking(w, l)
<1>1. DOMAIN ToPage(w) = DOMAIN w
  BY DEF ToPage
<1>3. ASSUME NEW i \in DOMAIN w
      PROVE  /\ ToPage(w)[i] \in Node /\ ToPage(w)[i].id = w[i].id
             /\ ToPage(w)[i].type = w[i].type /\ ToPage(w)[i].act = w[i].act
             /\ ToPage(w)[i].predicate = w[i].predicate /\ ToPage(w)[i].paths = w[i].paths
             /\ ToPage(w)[i].audit = w[i].audit
  <2>1. w[i] \in Node
    BY WorkflowFacts
  <2> DEFINE r == \E n \in Nodes(draft) : n.id = w[i].id /\ n.recovers
             q == \E n \in Nodes(draft) : n.id = w[i].id /\ n.retry
  <2>2. ToPage(w)[i] = [w[i] EXCEPT !.recovers = r, !.retry = q]
    BY DEF ToPage
  <2>3. r \in BOOLEAN /\ q \in BOOLEAN
    OBVIOUS
  <2> HIDE DEF r, q
  <2>4. LET m == [w[i] EXCEPT !.recovers = r, !.retry = q]
        IN  /\ m \in Node /\ m.id = w[i].id /\ m.type = w[i].type /\ m.act = w[i].act
            /\ m.predicate = w[i].predicate /\ m.paths = w[i].paths /\ m.audit = w[i].audit
    BY <2>1, <2>3 DEF Node
  <2> QED  BY <2>2, <2>4
<1>4. SameNodes(ToPage(w), w)
  <2>1. ToPage(w) \in [DOMAIN w -> Node]
    BY <1>3 DEF ToPage
  <2> QED  BY <1>3, <2>1 DEF SameNodes
<1>5. \A l \in {"predicate", "paths"} : Lacking(ToPage(w), l) = Lacking(w, l)
  <2>1. Lacking(ToPage(w), "predicate") = Lacking(w, "predicate")
    <3>1. \A x : x \in Lacking(ToPage(w), "predicate") <=> x \in Lacking(w, "predicate")
      BY <1>1, <1>3, NodesLack
    <3> QED  BY <3>1, LackingIs
  <2>2. Lacking(ToPage(w), "paths") = Lacking(w, "paths")
    <3>1. \A x : x \in Lacking(ToPage(w), "paths") <=> x \in Lacking(w, "paths")
      BY <1>1, <1>3, NodesLack
    <3> QED  BY <3>1, LackingIs
  <2> QED  BY <2>1, <2>2
<1> QED  BY <1>4, <1>5

LEMMA RedoKeeps ==
  ASSUME draft \in Workflow, NEW l \in Checks, NEW w \in Workflow
  PROVE  Kept(Redo(l, w), w) /\ Redo(l, w) \in Workflow
<1>1. Kept(Redo(l, w), w)
  BY RepairKeeps, Unchanged DEF Redo
<1> QED  BY <1>1 DEF Kept

\* What is done again of an issue of the draft settles it in what the draft has
\* become.
LEMMA RedoSettles ==
  ASSUME draft \in Workflow, draft # << >>, NEW w \in Workflow, Kept(w, draft),
         NEW l \in {"predicate", "paths", "trigger", "exit"}
  PROVE  Lacking(Redo(l, w), l) = {}
<1> DEFINE S == Lacking(draft, l)
<1>0. l \in Checks \ {"action"} /\ l \in Checks \ {"failure paths", "action"}
  BY DEF Checks
<1>1. CASE S = {}
  <2>1. Redo(l, w) = w
    BY <1>1 DEF Redo
  <2>2. Lacking(w, l) = {}
    BY <1>1, KeptFacts
  <2> QED  BY <2>1, <2>2
<1>2. CASE S # {}
  <2> DEFINE v == Repair(w, l, S)
  <2>1. Redo(l, w) = v
    BY <1>2 DEF Redo
  <2>2. Kept(v, w) /\ v \in Workflow
    BY <1>0, RepairKeeps, KeptFacts
  <2>3. \A x \in S : Settled(v, l, x)
    BY <1>0, RepairSettlesIt
  <2> HIDE DEF v, S
  <2>4. \A x \in S : x \notin Lacking(v, l)
    BY <1>0, <2>2, <2>3, SettledMeans
  <2>5. CASE l \in {"predicate", "paths"}
    <3>1. Lacking(v, l) \subseteq Lacking(w, l) /\ Lacking(w, l) \subseteq S
      BY <2>2, <2>5, KeptFacts DEF S
    <3> QED  BY <2>1, <2>4, <3>1
  <2>6. CASE l \in {"trigger", "exit"}
    <3>1. PICK x \in S : TRUE
      BY <1>2 DEF S
    <3>2. S \subseteq {0} /\ Lacking(v, l) \subseteq {0}
      BY <2>2, <2>6, WholeLacks DEF S
    <3>3. 0 \notin Lacking(v, l)
      BY <2>4, <3>1, <3>2
    <3> QED  BY <2>1, <3>2, <3>3
  <2> QED  BY <2>5, <2>6
<1> QED  BY <1>1, <1>2

LEMMA RedoStays ==
  ASSUME draft \in Workflow, NEW w \in Workflow, w # << >>,
         NEW m \in {"predicate", "paths", "trigger", "exit"}, Lacking(w, m) = {}, NEW l \in Checks
  PROVE  Lacking(Redo(l, w), m) = {}
<1>1. Kept(Redo(l, w), w)
  BY RedoKeeps
<1> QED  BY <1>1, KeptFacts

\* Without a node to add, the nodes stay the same.
LEMMA RedoChanges ==
  ASSUME draft \in Workflow, NEW w \in Workflow, Lacking(w, "monitoring") = {},
         NEW l \in Checks, Lacking(draft, l) = {} \/ l \in {"failure paths", "retry", "predicate", "paths"}
  PROVE  Lacking(Redo(l, w), "monitoring") = {}
<1>1. SameNodes(Redo(l, w), w)
  BY ChangedNodes, Unchanged DEF Redo
<1> QED  BY <1>1, SameNodesFacts

LEMMA AllRepairedSettles ==
  ASSUME draft \in Workflow, draft # << >>
  PROVE  /\ AllRepaired \in Workflow /\ AllRepaired # << >>
         /\ \A l \in {"predicate", "paths", "trigger", "exit"} : Lacking(AllRepaired, l) = {}
         /\ Lacking(draft, "trigger") = {} /\ Lacking(draft, "exit") = {}
              => Lacking(AllRepaired, "monitoring") = {}
<1>0. {"predicate", "trigger", "exit", "failure paths", "retry", "monitoring", "paths"} \subseteq Checks
  BY DEF Checks
<1>10. PICK w1 : w1 = Redo("predicate", draft)
  OBVIOUS
<1>1. /\ w1 \in Workflow /\ w1 # << >> /\ Kept(w1, draft)
      /\ Lacking(w1, "predicate") = {}
  <2>1. w1 \in Workflow /\ Kept(w1, draft)
    BY <1>0, <1>10, RedoKeeps
  <2>2. Kept(w1, draft) /\ w1 # << >>
    BY <2>1, KeptFacts, KeptTransitive
  <2>3. Lacking(w1, "predicate") = {}
    BY Unchanged, <1>10, RedoSettles
  <2> QED  BY <2>1, <2>2, <2>3
<1>20. PICK w2 : w2 = Redo("trigger", w1)
  OBVIOUS
<1>2. /\ w2 \in Workflow /\ w2 # << >> /\ Kept(w2, draft)
      /\ Lacking(w2, "predicate") = {} /\ Lacking(w2, "trigger") = {}
  <2>1. w2 \in Workflow /\ Kept(w2, w1)
    BY <1>0, <1>1, <1>20, RedoKeeps
  <2>2. Kept(w2, draft) /\ w2 # << >>
    BY <1>1, <2>1, KeptFacts, KeptTransitive
  <2>3. Lacking(w2, "trigger") = {}
    BY <1>1, <1>20, RedoSettles
  <2>4. Lacking(w2, "predicate") = {}
    BY <1>1, <2>1, KeptFacts
  <2> QED  BY <2>1, <2>2, <2>3, <2>4
<1>30. PICK w3 : w3 = Redo("exit", w2)
  OBVIOUS
<1>3. /\ w3 \in Workflow /\ w3 # << >> /\ Kept(w3, draft)
      /\ Lacking(w3, "predicate") = {} /\ Lacking(w3, "trigger") = {} /\ Lacking(w3, "exit") = {}
  <2>1. w3 \in Workflow /\ Kept(w3, w2)
    BY <1>0, <1>2, <1>30, RedoKeeps
  <2>2. Kept(w3, draft) /\ w3 # << >>
    BY <1>2, <2>1, KeptFacts, KeptTransitive
  <2>3. Lacking(w3, "exit") = {}
    BY <1>2, <1>30, RedoSettles
  <2>4. Lacking(w3, "predicate") = {} /\ Lacking(w3, "trigger") = {}
    BY <1>2, <2>1, KeptFacts
  <2> QED  BY <2>1, <2>2, <2>3, <2>4
<1>40. PICK w4 : w4 = Redo("failure paths", w3)
  OBVIOUS
<1>4. /\ w4 \in Workflow /\ w4 # << >> /\ Kept(w4, draft)
      /\ Lacking(w4, "predicate") = {} /\ Lacking(w4, "trigger") = {} /\ Lacking(w4, "exit") = {}
  <2>1. w4 \in Workflow /\ Kept(w4, w3)
    BY <1>0, <1>3, <1>40, RedoKeeps
  <2>2. Kept(w4, draft) /\ w4 # << >>
    BY <1>3, <2>1, KeptFacts, KeptTransitive
  <2>3. Lacking(w4, "predicate") = {} /\ Lacking(w4, "trigger") = {} /\ Lacking(w4, "exit") = {}
    BY <1>3, <2>1, KeptFacts
  <2> QED  BY <2>1, <2>2, <2>3
<1>50. PICK w5 : w5 = Redo("retry", w4)
  OBVIOUS
<1>5. /\ w5 \in Workflow /\ w5 # << >> /\ Kept(w5, draft)
      /\ Lacking(w5, "predicate") = {} /\ Lacking(w5, "trigger") = {} /\ Lacking(w5, "exit") = {}
  <2>1. w5 \in Workflow /\ Kept(w5, w4)
    BY <1>0, <1>4, <1>50, RedoKeeps
  <2>2. Kept(w5, draft) /\ w5 # << >>
    BY <1>4, <2>1, KeptFacts, KeptTransitive
  <2>3. Lacking(w5, "predicate") = {} /\ Lacking(w5, "trigger") = {} /\ Lacking(w5, "exit") = {}
    BY <1>4, <2>1, KeptFacts
  <2> QED  BY <2>1, <2>2, <2>3
<1>60. PICK w6 : w6 = Redo("monitoring", w5)
  OBVIOUS
<1>6. /\ w6 \in Workflow /\ w6 # << >> /\ Kept(w6, draft)
      /\ Lacking(w6, "predicate") = {} /\ Lacking(w6, "trigger") = {} /\ Lacking(w6, "exit") = {}
  <2>1. w6 \in Workflow /\ Kept(w6, w5)
    BY <1>0, <1>5, <1>60, RedoKeeps
  <2>2. Kept(w6, draft) /\ w6 # << >>
    BY <1>5, <2>1, KeptFacts, KeptTransitive
  <2>3. Lacking(w6, "predicate") = {} /\ Lacking(w6, "trigger") = {} /\ Lacking(w6, "exit") = {}
    BY <1>5, <2>1, KeptFacts
  <2> QED  BY <2>1, <2>2, <2>3
<1>70. PICK w7 : w7 = Redo("paths", w6)
  OBVIOUS
<1>7. /\ w7 \in Workflow /\ w7 # << >> /\ Kept(w7, draft) /\ Kept(w7, w6)
      /\ Lacking(w7, "predicate") = {} /\ Lacking(w7, "trigger") = {} /\ Lacking(w7, "exit") = {} /\ Lacking(w7, "paths") = {}
  <2>1. w7 \in Workflow /\ Kept(w7, w6)
    BY <1>0, <1>6, <1>70, RedoKeeps
  <2>2. Kept(w7, draft) /\ w7 # << >>
    BY <1>6, <2>1, KeptFacts, KeptTransitive
  <2>3. Lacking(w7, "paths") = {}
    BY <1>6, <1>70, RedoSettles
  <2>4. Lacking(w7, "predicate") = {} /\ Lacking(w7, "trigger") = {} /\ Lacking(w7, "exit") = {}
    BY <1>6, <2>1, KeptFacts
  <2> QED  BY <2>1, <2>2, <2>3, <2>4
<1>8. AllRepaired = w7
  BY <1>10, <1>20, <1>30, <1>40, <1>50, <1>60, <1>70 DEF AllRepaired
<1>9. ASSUME Lacking(draft, "trigger") = {}, Lacking(draft, "exit") = {}
      PROVE  Lacking(w7, "monitoring") = {}
  <2>1. CASE Lacking(draft, "monitoring") = {}
    <3>1. Lacking(w1, "monitoring") = {}
      BY <1>0, <1>10, <2>1, RedoChanges
    <3>2. Lacking(w2, "monitoring") = {}
      BY <1>0, <1>1, <1>20, <1>9, <3>1, RedoChanges
    <3>3. Lacking(w3, "monitoring") = {}
      BY <1>0, <1>2, <1>30, <1>9, <3>2, RedoChanges
    <3>4. Lacking(w4, "monitoring") = {}
      BY <1>0, <1>3, <1>40, <3>3, RedoChanges
    <3>5. Lacking(w5, "monitoring") = {}
      BY <1>0, <1>4, <1>50, <3>4, RedoChanges
    <3>6. Lacking(w6, "monitoring") = {}
      BY <1>0, <1>5, <1>60, <2>1, <3>5, RedoChanges
    <3> QED  BY <1>0, <1>6, <1>70, <3>6, RedoChanges
  <2>2. CASE Lacking(draft, "monitoring") # {}
    <3>1. PICK x \in Lacking(draft, "monitoring") : TRUE
      BY <2>2
    <3>2. w6 = Repair(w5, "monitoring", Lacking(draft, "monitoring"))
      BY <1>60, <2>2 DEF Redo
    <3>3. "monitoring" \in Checks \ {"action"}
      BY <1>0
    <3>4. Settled(w6, "monitoring", x)
      BY <1>5, <3>1, <3>2, <3>3, RepairSettlesIt
    <3>5. \E i \in DOMAIN w7 : Audited(w7[i])
      BY <1>7, <3>4 DEF Settled, Kept
    <3> QED  BY <1>7, <3>5, WholeLacks
  <2> QED  BY <2>1, <2>2
<1> QED  BY <1>7, <1>8, <1>9

HarnessInv == HarnessTypeOK /\ RepairsSettle

\* What RepairsSettle asks, check by check.
LEMMA SettledDraft ==
  ASSUME NEW w \in Workflow, NEW n \in 0 .. 2,
         n >= 1 => \A l \in {"nodes", "predicate", "trigger", "exit", "paths"} : Lacking(w, l) = {},
         n = 2 => Lacking(w, "monitoring") = {}
  PROVE  \A i \in Issues(w) : /\ n >= 1 => i.lacks \in Beyond \cup {"monitoring"}
                              /\ n = 2 => i.lacks \in Beyond
<1> SUFFICES ASSUME NEW i \in Issues(w)
             PROVE  /\ n >= 1 => i.lacks \in Beyond \cup {"monitoring"}
                    /\ n = 2 => i.lacks \in Beyond
  OBVIOUS
<1>1. i.lacks \in Checks /\ Lacking(w, i.lacks) # {}
  BY IssueFacts
<1>2. n >= 1 => i.lacks \in Beyond \cup {"monitoring"}
  BY <1>1 DEF Checks, Beyond
<1>3. n = 2 => i.lacks \in Beyond
  <2>1. n = 2 => n >= 1 /\ i.lacks # "monitoring"
    BY <1>1
  <2> QED  BY <1>2, <2>1
<1> QED  BY <1>2, <1>3

LEMMA NoSuchIssue ==
  ASSUME NEW w \in Workflow
  PROVE  NoIssue \notin Issues(w)
<1>1. NoIssue.lacks \notin Checks
  BY DEF NoIssue, Checks
<1> QED  BY <1>1, IssueFacts

LEMMA HarnessInitInv ==
  ASSUME HarnessInit
  PROVE  HarnessInv
<1>1. draft \in Workflow
  BY HarnessAssumption DEF HarnessInit, Given
<1>2. HarnessTypeOK
  BY <1>1, HarnessAssumption DEF HarnessInit, HarnessTypeOK, NoIssue
<1>3. RepairsSettle
  BY <1>1, NoSuchIssue DEF HarnessInit, RepairsSettle
<1> QED  BY <1>2, <1>3 DEF HarnessInv

LEMMA EditedInv ==
  ASSUME HarnessTypeOK, NEW w \in Workflow, touches < MaxTouches, Edited(w)
  PROVE  HarnessInv'
<1>1. draft' = w /\ repaired' = NoIssue /\ rounds' = 0 /\ touches' = touches + 1
  BY DEF Edited
<1>2. HarnessTypeOK'
  BY <1>1, HarnessAssumption DEF HarnessTypeOK, NoIssue
<1>3. RepairsSettle'
  BY <1>1, NoSuchIssue DEF RepairsSettle
<1> QED  BY <1>2, <1>3 DEF HarnessInv

LEMMA HarnessStepInv ==
  ASSUME HarnessInv, [HarnessNext]_harnessVars
  PROVE  HarnessInv'
<1>0. HarnessTypeOK /\ RepairsSettle /\ draft \in Workflow /\ rounds \in 0 .. 2
  BY DEF HarnessInv, HarnessTypeOK
<1>1. ASSUME NEW t \in Types, HandleAddNode(t)
      PROVE  HarnessInv'
  <2> DEFINE n == New(draft, t, ActOf(t), FALSE)
             m == [n EXCEPT !.paths = TRUE]
  <2>1. t \in NodeType /\ ActOf(t) \in NodeActionType /\ FALSE \in BOOLEAN
    BY HarnessAssumption DEF ActOf, NodeActionType
  <2>2. n \in Node /\ n.id \notin Ids(draft)
    BY <1>0, <2>1, NewNode
  <2>3. touches < MaxTouches /\ Edited(Append(draft, m))
    BY <1>1 DEF HandleAddNode
  <2> HIDE DEF n
  <2>4. m \in Node /\ m.id \notin Ids(draft)
    BY <2>2 DEF Node
  <2> HIDE DEF m
  <2>5. Append(draft, m) \in Workflow
    BY <1>0, <2>4, Appended
  <2> QED  BY <1>0, <2>3, <2>5, EditedInv
<1>2. ASSUME NEW i \in DOMAIN draft, HandleDeleteNode(i)
      PROVE  HarnessInv'
  <2>1. RemoveAt(draft, i) \in Workflow
    BY <1>0, Removed
  <2> QED  BY <1>0, <1>2, <2>1, EditedInv DEF HandleDeleteNode
<1>3. ASSUME NEW issue \in Issues(draft), HandleApplyRepair(issue)
      PROVE  HarnessInv'
  <2> DEFINE v == Repair(draft, issue.lacks, {issue.of})
  <2>1. /\ issue.lacks \in Checks \ {"nodes", "action"} /\ issue.of \in Nat
        /\ issue = [lacks |-> issue.lacks, of |-> issue.of]
    BY <1>0, <1>3, IssueFacts DEF HandleApplyRepair, Repairable
  <2>2. v \in Workflow /\ Settled(v, issue.lacks, issue.of)
    BY <1>0, <2>1, RepairKeeps, KeptFacts, RepairSettlesIt
  <2>3. draft' = ToPage(v) /\ repaired' = issue /\ rounds' = 0 /\ touches' = touches
    BY <1>3 DEF HandleApplyRepair
  <2> HIDE DEF v
  <2>4. draft' \in Workflow
    BY <2>2, <2>3, PageNodes, SameNodesFacts
  <2>5. issue.lacks \notin Beyond => issue.of \notin Lacking(draft', issue.lacks)
    <3>1. CASE issue.lacks \in {"predicate", "paths"}
      BY <2>2, <2>3, <3>1, PageNodes DEF Settled
    <3>2. CASE issue.lacks \in {"trigger", "exit", "monitoring"}
      <4>1. Lacking(v, issue.lacks) = {}
        BY <2>2, <3>2, WholeLacks DEF Settled
      <4> QED  BY <2>2, <2>3, <3>2, <4>1, PageNodes, SameNodesFacts
    <3> QED  BY <2>1, <3>1, <3>2 DEF Checks, Beyond
  <2>6. issue.lacks \notin Beyond => issue \notin Issues(draft')
    BY <2>4, <2>5, IssueFacts
  <2>7. HarnessTypeOK'
    <3>1. repaired' \in [lacks : Checks \cup {"nothing"}, of : Nat]
      BY <2>1, <2>3
    <3> QED  BY <1>0, <2>3, <2>4, <3>1 DEF HarnessTypeOK
  <2>8. RepairsSettle'
    BY <2>3, <2>6 DEF RepairsSettle
  <2> QED  BY <2>7, <2>8 DEF HarnessInv
<1>4. ASSUME HandleAutoRepairAll
      PROVE  HarnessInv'
  <2>1. /\ \E i \in Issues(draft) : i.lacks \in Repairable
        /\ draft' = ToPage(AllRepaired) /\ repaired' = NoIssue /\ touches' = touches
        /\ rounds' = IF rounds = 2 THEN 2 ELSE rounds + 1
    BY <1>4 DEF HandleAutoRepairAll
  <2>2. draft # << >>
    <3> SUFFICES ASSUME draft = << >> PROVE FALSE
      OBVIOUS
    <3>1. PICK i \in Issues(draft) : i.lacks \in Repairable
      BY <2>1
    <3>2. i.of \in Lacking(draft, i.lacks) /\ i.lacks \in Checks \ {"nodes", "action"}
      BY <1>0, <3>1, IssueFacts DEF Repairable
    <3>3. i.lacks \notin {"predicate", "paths", "retry"}
      BY <1>0, <3>2, NodesLack, WorkflowFacts
    <3>4. i.lacks \notin {"trigger", "exit"}
      BY <1>0, <3>2, WholeLacks
    <3>5. i.lacks # "monitoring"
      BY <1>0, <3>2, WholeLacks, WorkflowFacts
    <3>6. Lacking(draft, "failure paths") = {}
      <4> DEFINE bare == {j \in DOMAIN draft : ~draft[j].recovers}
      <4>1. bare = {} /\ Len(draft) = 0
        BY <1>0, WorkflowFacts
      <4>2. Lacking(draft, "failure paths") = Whole(2 * Cardinality(bare) > Len(draft))
        BY DEF Lacking
      <4> HIDE DEF bare
      <4>3. Cardinality(bare) = 0
        BY <4>1, FS_EmptySet
      <4>4. ~ (2 * Cardinality(bare) > Len(draft))
        BY <4>1, <4>3
      <4> QED  BY <4>2, <4>4 DEF Whole
    <3> QED  BY <3>2, <3>3, <3>4, <3>5, <3>6 DEF Checks
  <2>3. /\ AllRepaired \in Workflow /\ AllRepaired # << >>
        /\ \A l \in {"predicate", "paths", "trigger", "exit"} : Lacking(AllRepaired, l) = {}
        /\ Lacking(draft, "trigger") = {} /\ Lacking(draft, "exit") = {}
             => Lacking(AllRepaired, "monitoring") = {}
    BY <1>0, <2>2, AllRepairedSettles
  <2>4. PICK v : v = AllRepaired
    OBVIOUS
  <2>5. /\ draft' \in Workflow /\ draft' # << >>
        /\ \A l \in {"predicate", "paths"} : Lacking(draft', l) = Lacking(v, l)
        /\ \A l \in {"trigger", "exit", "monitoring"} : Lacking(draft', l) = {} <=> Lacking(v, l) = {}
    BY <2>1, <2>3, <2>4, PageNodes, SameNodesFacts
  <2>6. \A l \in {"nodes", "predicate", "paths", "trigger", "exit"} : Lacking(draft', l) = {}
    <3>1. Lacking(draft', "nodes") = {}
      BY <2>5, WholeLacks
    <3> QED  BY <2>3, <2>4, <2>5, <3>1
  <2>7. rounds' \in 0 .. 2 /\ (rounds' = 2 => rounds >= 1)
    BY <1>0, <2>1
  <2>8. rounds' = 2 => Lacking(draft', "monitoring") = {}
    <3> SUFFICES ASSUME rounds >= 1 PROVE Lacking(draft', "monitoring") = {}
      BY <2>7
    <3>1. ASSUME NEW l \in {"trigger", "exit"}
          PROVE  Lacking(draft, l) = {}
      <4> SUFFICES ASSUME NEW x \in Lacking(draft, l) PROVE FALSE
        OBVIOUS
      <4>1. [lacks |-> l, of |-> x] \in Issues(draft)
        BY IssueIs DEF Checks
      <4>2. l \in Beyond \cup {"monitoring"}
        BY <1>0, <4>1 DEF RepairsSettle
      <4> QED  BY <4>2 DEF Beyond
    <3> QED  BY <2>3, <2>4, <2>5, <3>1
  <2>9. HarnessTypeOK'
    BY <1>0, <2>1, <2>5, <2>7 DEF HarnessTypeOK, NoIssue
  <2>10. RepairsSettle'
    <3>1. \A i \in Issues(draft') : /\ rounds' >= 1 => i.lacks \in Beyond \cup {"monitoring"}
                                    /\ rounds' = 2 => i.lacks \in Beyond
      BY <2>5, <2>6, <2>7, <2>8, SettledDraft
    <3>2. repaired' \notin Issues(draft')
      BY <2>1, <2>5, NoSuchIssue
    <3> QED  BY <3>1, <3>2 DEF RepairsSettle
  <2> QED  BY <2>9, <2>10 DEF HarnessInv
<1>5. CASE UNCHANGED harnessVars
  BY <1>0, <1>5 DEF harnessVars, HarnessInv, HarnessTypeOK, RepairsSettle
<1> QED  BY <1>1, <1>2, <1>3, <1>4, <1>5 DEF HarnessNext

LEMMA HarnessStarts == HarnessInit => HarnessInv
  BY HarnessInitInv

LEMMA HarnessStep == HarnessInv /\ [HarnessNext]_harnessVars => HarnessInv'
  BY HarnessStepInv

\* The nodes of a draft go by ids of their own, whatever is added, deleted and
\* repaired.
THEOREM HarnessTypeCorrect == HarnessSpec => []HarnessTypeOK
<1>1. HarnessInv => HarnessTypeOK
  BY DEF HarnessInv
<1> QED  BY <1>1, HarnessStarts, HarnessStep, PTL DEF HarnessSpec

\* A repair settles its issue and the repairs of all of them settle theirs, in a
\* draft of any length.
THEOREM RepairsSettleDrafts == HarnessSpec => []RepairsSettle
<1>1. HarnessInv => RepairsSettle
  BY DEF HarnessInv
<1> QED  BY <1>1, HarnessStarts, HarnessStep, PTL DEF HarnessSpec

-----------------------------------------------------------------------------
\* The calls of a builder request

Issue == [lacks : Checks, of : Nat]
Result == [canSave : BOOLEAN, mustAcknowledge : BOOLEAN]
Phase == {"PLANNING", "VALIDATING", "EVALUATED", "REPAIR_LOOP", "SAVED"}
Stage ==
  {Resting} \cup [at : {"eval"}, result : Result]
    \cup [at : {"plan"}, issue : Issue, nodes : Workflow]
    \cup [at : {"record"}, issue : Issue] \cup [at : {"status"}, phase : Phase]

RequestTypes ==
  /\ plan \in Workflow /\ handler \in [Editor -> Stage] /\ mended \subseteq Issue
  /\ checked = << >> \/ (checked = <<checked[1]>> /\ checked[1] \subseteq Issue)
  /\ evaluated = << >> \/ (evaluated = <<evaluated[1]>> /\ evaluated[1] \in Result)
  /\ phase \in Phase /\ fresh \in {"nothing", "validation", "evaluation"}
  /\ handled \in 0 .. MaxHandled /\ crossing \in BOOLEAN /\ unsound \in BOOLEAN

\* A node an issue is of has an id of the plan, or one no repair gives.
Known(i) == i.of <= LastId \/ i.of \in Ids(plan)

MendedIs(i) == Known(i) /\ i.lacks # "action" /\ Settled(plan, i.lacks, i.of)

\* What a call in progress is about to write is of the rows as they are.
StageInv(h) ==
  /\ h.at = "eval" => h.result = Judged(Recorded)
  /\ h.at = "plan" => /\ Known(h.issue) /\ h.issue.lacks # "action"
                      /\ h.nodes = Repair(plan, h.issue.lacks, {h.issue.of})
  /\ h.at = "record" => MendedIs(h.issue)

SerialInv ==
  /\ \A j, k \in Editor : handler[j] # Resting /\ handler[k] # Resting => j = k
  /\ \A k \in Editor : StageInv(handler[k])
  /\ \A i \in Recorded : Known(i)
  /\ \A i \in mended : MendedIs(i)
  /\ fresh # "nothing" => checked # << >> /\ checked[1] = Issues(plan)
  /\ fresh = "evaluation" => evaluated # << >> /\ evaluated[1] = Judged(Recorded)
  /\ ~unsound

RequestInv == RequestTypes /\ (~crossing => SerialInv)

LEMMA GivenFacts ==
  ASSUME NEW W, Given(W), NEW w \in W
  PROVE  w \in Workflow /\ \A x \in Ids(w) : x <= LastId
BY DEF Given, Ids

LEMMA JudgedIs ==
  ASSUME NEW T
  PROVE  Judged(T) \in Result /\ (Judged(T).canSave <=> Blocking(T) = {})
BY DEF Judged, Result

LEMMA IssuesOfWorkflow ==
  ASSUME NEW w \in Workflow
  PROVE  Issues(w) \subseteq Issue
BY IssueFacts DEF Issue

LEMMA ShownIs ==
  ASSUME plan \in Workflow, NEW i \in Issue, MendedIs(i)
  PROVE  Shown(i)
<1>1. i.lacks \in Checks \ {"action"} /\ Settled(plan, i.lacks, i.of)
  BY DEF Issue, MendedIs
<1>2. CASE i.lacks = "failure paths"
  BY <1>2 DEF Shown
<1>3. CASE i.lacks # "failure paths"
  <2>1. i.of \notin Lacking(plan, i.lacks)
    BY <1>1, <1>3, SettledMeans
  <2>2. i \notin Issues(plan)
    BY <2>1, IssueFacts
  <2> QED  BY <2>2 DEF Shown
<1> QED  BY <1>2, <1>3

LEMMA StageFacts ==
  ASSUME NEW h \in Stage
  PROVE  /\ h.at = "idle" <=> h = Resting
         /\ h.at = "eval" => h.result \in Result
         /\ h.at = "plan" => h.issue \in Issue /\ h.nodes \in Workflow
         /\ h.at = "record" => h.issue \in Issue
         /\ h.at = "status" => h.phase \in Phase
         /\ h.at \in {"idle", "eval", "plan", "record", "status"}
BY DEF Stage, Resting

LEMMA StagesAre ==
         /\ Resting \in Stage
         /\ \A r \in Result : [at |-> "eval", result |-> r] \in Stage
         /\ \A i \in Issue, w \in Workflow : [at |-> "plan", issue |-> i, nodes |-> w] \in Stage
         /\ \A i \in Issue : [at |-> "record", issue |-> i] \in Stage
         /\ \A p \in Phase : [at |-> "status", phase |-> p] \in Stage
BY DEF Stage

LEMMA RequestTyped ==
  ASSUME RequestTypes
  PROVE  RequestTypeOK
<1>1. Len(checked) <= 1
  <2>1. checked = << >> => Len(checked) = 0
    OBVIOUS
  <2>2. checked = <<checked[1]>> => Len(checked) = 1
    OBVIOUS
  <2>3. checked = << >> \/ checked = <<checked[1]>>
    BY DEF RequestTypes
  <2> QED  BY <2>1, <2>2, <2>3
<1>2. Len(evaluated) <= 1
  <2>1. evaluated = << >> => Len(evaluated) = 0
    OBVIOUS
  <2>2. evaluated = <<evaluated[1]>> => Len(evaluated) = 1
    OBVIOUS
  <2>3. evaluated = << >> \/ evaluated = <<evaluated[1]>>
    BY DEF RequestTypes
  <2> QED  BY <2>1, <2>2, <2>3
<1>3. \A k \in Editor : handler[k].at \in {"idle", "eval", "plan", "record", "status"}
  BY StageFacts DEF RequestTypes
<1> QED  BY <1>1, <1>2, <1>3 DEF RequestTypes, RequestTypeOK, Phase

LEMMA RequestInitInv ==
  ASSUME RequestInit
  PROVE  RequestInv
<1>1. plan \in Workflow
  BY RequestAssumption, GivenFacts DEF RequestInit
<1>2. RequestTypes
  <2>1. handler \in [Editor -> Stage]
    BY StagesAre DEF RequestInit
  <2>2. handled \in 0 .. MaxHandled
    BY RequestAssumption DEF RequestInit
  <2> QED  BY <1>1, <2>1, <2>2 DEF RequestInit, RequestTypes, Phase
<1>3. Recorded = {}
  BY DEF RequestInit, Recorded
<1>4. \A k \in Editor : handler[k] = Resting
  BY DEF RequestInit
<1>5. StageInv(Resting)
  BY DEF StageInv, Resting
<1>6. SerialInv
  BY <1>3, <1>4, <1>5 DEF RequestInit, SerialInv
<1> QED  BY <1>2, <1>6 DEF RequestInv

LEMMA RecordedTyped ==
  ASSUME RequestTypes
  PROVE  Recorded \subseteq Issue
BY DEF RequestTypes, Recorded

\* A call that begins crosses those in progress; a step of one goes on alone.
LEMMA HandleFacts ==
  ASSUME RequestTypes, NEW k \in Editor, NEW h \in Stage, Handle(k, h)
  PROVE  /\ handler' \in [Editor -> Stage] /\ handler'[k] = h
         /\ \A j \in Editor : j # k => handler'[j] = handler[j]
         /\ handled' \in 0 .. MaxHandled /\ crossing' \in BOOLEAN
         /\ ~crossing' => ~crossing /\ \A j \in Editor : handler[j] = Resting
<1>1. handler \in [Editor -> Stage] /\ handler' = [handler EXCEPT ![k] = h]
  BY DEF Handle, RequestTypes
<1>2. handled' \in 0 .. MaxHandled
  BY RequestAssumption DEF Handle, RequestTypes
<1>3. crossing' = (crossing \/ \E j \in Editor : handler[j] # Resting)
  BY DEF Handle
<1>4. crossing' \in BOOLEAN
  BY <1>3
<1>5. ~crossing' => ~crossing /\ \A j \in Editor : handler[j] = Resting
  BY <1>3
<1> QED  BY <1>1, <1>2, <1>4, <1>5

LEMMA GotoFacts ==
  ASSUME RequestTypes, NEW k \in Editor, NEW h \in Stage, Goto(k, h)
  PROVE  /\ handler' \in [Editor -> Stage] /\ handler'[k] = h
         /\ \A j \in Editor : j # k => handler'[j] = handler[j]
         /\ handled' = handled /\ crossing' = crossing
BY DEF Goto, RequestTypes

\* What holds of an idle call, and of one that has only its status to write.
LEMMA QuietStage ==
  ASSUME NEW h, h.at \in {"idle", "status"}
  PROVE  StageInv(h)
BY DEF StageInv

\* Alone in progress, a call is the one to look at.
LEMMA OneInProgress ==
  ASSUME NEW k \in Editor, \A j \in Editor : j # k => handler'[j] = Resting,
         StageInv(handler[k])'
  PROVE  /\ \A i, j \in Editor : handler'[i] # Resting /\ handler'[j] # Resting => i = j
         /\ \A j \in Editor : StageInv(handler[j])'
<1>1. \A i, j \in Editor : handler'[i] # Resting /\ handler'[j] # Resting => i = j
  OBVIOUS
<1>2. ASSUME NEW j \in Editor
      PROVE  StageInv(handler[j])'
  <2>1. CASE j = k
    BY <2>1
  <2>2. CASE j # k
    <3>1. handler'[j].at = "idle"
      BY <2>2 DEF Resting
    <3> QED  BY <3>1 DEF StageInv
  <2> QED  BY <2>1, <2>2
<1> QED  BY <1>1, <1>2

LEMMA ValidateInv ==
  ASSUME RequestInv, NEW k \in Editor, NEW w \in {plan} \cup Sent, Validate(k, w)
  PROVE  RequestInv'
<1>0. RequestTypes /\ (~crossing => SerialInv)
  BY DEF RequestInv
<1> DEFINE h == [at |-> "status", phase |-> "VALIDATING"]
<1>1. h \in Stage
  BY StagesAre DEF Phase
<1>2. /\ checked' = <<Issues(w)>> /\ fresh' = IF w = plan THEN "validation" ELSE "nothing"
      /\ plan' = plan /\ evaluated' = evaluated /\ phase' = phase /\ mended' = mended /\ unsound' = unsound
  BY DEF Validate
<1>3. /\ handler' \in [Editor -> Stage] /\ handler'[k] = h
      /\ \A j \in Editor : j # k => handler'[j] = handler[j]
      /\ handled' \in 0 .. MaxHandled /\ crossing' \in BOOLEAN
      /\ ~crossing' => ~crossing /\ \A j \in Editor : handler[j] = Resting
  BY <1>0, <1>1, HandleFacts DEF Validate
<1>4. w \in Workflow /\ \A x \in Ids(w) : x <= LastId \/ w = plan
  BY <1>0, GivenFacts, RequestAssumption DEF RequestTypes
<1>5. RequestTypes'
  <2>1. Issues(w) \subseteq Issue
    BY <1>4, IssuesOfWorkflow
  <2>2. checked' = <<checked'[1]>> /\ checked'[1] \subseteq Issue
    BY <1>2, <2>1
  <2> QED  BY <1>0, <1>2, <1>3, <2>2 DEF RequestTypes
<1>6. ASSUME ~crossing'
      PROVE  SerialInv'
  <2>1. SerialInv /\ \A j \in Editor : j # k => handler'[j] = Resting
    BY <1>0, <1>3, <1>6
  <2>2. StageInv(handler[k])'
    BY <1>3 DEF StageInv
  <2>3. Recorded' = Issues(w)
    BY <1>2 DEF Recorded
  <2>4. \A i \in Issues(w) : i.of <= LastId \/ i.of \in Ids(plan)
    BY <1>4, IssueFacts DEF LastId
  <2>5. (\A i \in Recorded : Known(i))'
    BY <1>2, <2>3, <2>4 DEF Known
  <2>6. (\A i \in mended : MendedIs(i))'
    BY <1>2, <2>1 DEF SerialInv, MendedIs, Known
  <2>7. fresh' # "nothing" => checked' # << >> /\ checked'[1] = Issues(plan')
    BY <1>2
  <2>8. fresh' # "evaluation" /\ ~unsound'
    BY <1>2, <2>1 DEF SerialInv
  <2> QED  BY <2>1, <2>2, <2>5, <2>6, <2>7, <2>8, OneInProgress DEF SerialInv
<1> QED  BY <1>5, <1>6 DEF RequestInv

LEMMA EvalPreviewInv ==
  ASSUME RequestInv, NEW k \in Editor, EvalPreview(k)
  PROVE  RequestInv'
<1>0. RequestTypes /\ (~crossing => SerialInv)
  BY DEF RequestInv
<1> DEFINE h == [at |-> "eval", result |-> Judged(Recorded)]
<1>1. h \in Stage
  BY StagesAre, JudgedIs
<1>2. UNCHANGED <<plan, checked, evaluated, phase, mended, fresh, unsound>>
  BY DEF EvalPreview
<1>3. /\ handler' \in [Editor -> Stage] /\ handler'[k] = h
      /\ \A j \in Editor : j # k => handler'[j] = handler[j]
      /\ handled' \in 0 .. MaxHandled /\ crossing' \in BOOLEAN
      /\ ~crossing' => ~crossing /\ \A j \in Editor : handler[j] = Resting
  BY <1>0, <1>1, HandleFacts DEF EvalPreview
<1>4. RequestTypes'
  BY <1>0, <1>2, <1>3 DEF RequestTypes
<1>5. ASSUME ~crossing'
      PROVE  SerialInv'
  <2>1. SerialInv /\ \A j \in Editor : j # k => handler'[j] = Resting
    BY <1>0, <1>3, <1>5
  <2>2. Recorded' = Recorded
    BY <1>2 DEF Recorded
  <2>3. StageInv(handler[k])'
    BY <1>3, <2>2 DEF StageInv
  <2>4. (\A i \in Recorded : Known(i))' /\ (\A i \in mended : MendedIs(i))'
    BY <1>2, <2>1, <2>2 DEF SerialInv, MendedIs, Known
  <2>5. /\ fresh' # "nothing" => checked' # << >> /\ checked'[1] = Issues(plan')
        /\ fresh' = "evaluation" => evaluated' # << >> /\ evaluated'[1] = Judged(Recorded')
        /\ ~unsound'
    BY <1>2, <2>1, <2>2 DEF SerialInv
  <2> QED  BY <2>1, <2>3, <2>4, <2>5, OneInProgress DEF SerialInv
<1> QED  BY <1>4, <1>5 DEF RequestInv

LEMMA WriteEvalInv ==
  ASSUME RequestInv, NEW k \in Editor, WriteEval(k)
  PROVE  RequestInv'
<1>0. RequestTypes /\ (~crossing => SerialInv) /\ handler[k] \in Stage
  BY DEF RequestInv, RequestTypes
<1> DEFINE h == [at |-> "status", phase |-> "EVALUATED"]
<1>1. h \in Stage
  BY StagesAre DEF Phase
<1>2. /\ handler[k].at = "eval" /\ evaluated' = <<handler[k].result>>
      /\ fresh' = IF fresh = "nothing" THEN fresh ELSE "evaluation"
      /\ UNCHANGED <<plan, checked, phase, mended, unsound>>
  BY DEF WriteEval
<1>3. /\ handler' \in [Editor -> Stage] /\ handler'[k] = h
      /\ \A j \in Editor : j # k => handler'[j] = handler[j]
      /\ handled' = handled /\ crossing' = crossing
  BY <1>0, <1>1, GotoFacts DEF WriteEval
<1>4. RequestTypes'
  <2>1. handler[k].result \in Result
    BY <1>0, <1>2, StageFacts
  <2>2. evaluated' = <<evaluated'[1]>> /\ evaluated'[1] \in Result
    BY <1>2, <2>1
  <2> QED  BY <1>0, <1>2, <1>3, <2>2 DEF RequestTypes
<1>5. ASSUME ~crossing'
      PROVE  SerialInv'
  <2>1. SerialInv /\ handler[k] # Resting
    BY <1>0, <1>2, <1>3, <1>5 DEF Resting
  <2>2. \A j \in Editor : j # k => handler'[j] = Resting
    BY <1>3, <2>1 DEF SerialInv
  <2>3. Recorded' = Recorded
    BY <1>2 DEF Recorded
  <2>4. StageInv(handler[k])'
    BY <1>3 DEF StageInv
  <2>5. (\A i \in Recorded : Known(i))' /\ (\A i \in mended : MendedIs(i))'
    BY <1>2, <2>1, <2>3 DEF SerialInv, MendedIs, Known
  <2>6. evaluated' # << >> /\ evaluated'[1] = Judged(Recorded')
    BY <1>2, <2>1, <2>3 DEF SerialInv, StageInv
  <2>7. fresh' # "nothing" => checked' # << >> /\ checked'[1] = Issues(plan')
    BY <1>2, <2>1 DEF SerialInv
  <2> QED  BY <1>2, <2>1, <2>2, <2>4, <2>5, <2>6, <2>7, OneInProgress DEF SerialInv
<1> QED  BY <1>4, <1>5 DEF RequestInv

LEMMA RepairReadInv ==
  ASSUME RequestInv, NEW k \in Editor, NEW i \in Recorded, RepairRead(k, i)
  PROVE  RequestInv'
<1>0. RequestTypes /\ (~crossing => SerialInv) /\ i \in Issue /\ plan \in Workflow
  BY RecordedTyped DEF RequestInv, RequestTypes
<1> DEFINE v == Repair(plan, i.lacks, {i.of})
           h == [at |-> "plan", issue |-> i, nodes |-> v]
<1>1. h \in Stage
  <2>1. i.lacks \in Checks
    BY <1>0 DEF Issue
  <2>2. v \in Workflow
    BY <1>0, <2>1, RepairKeeps, KeptFacts
  <2> QED  BY <1>0, <2>2, StagesAre
<1>2. i.lacks # "action" /\ UNCHANGED <<plan, checked, evaluated, phase, mended, fresh, unsound>>
  BY DEF RepairRead
<1>3. /\ handler' \in [Editor -> Stage] /\ handler'[k] = h
      /\ \A j \in Editor : j # k => handler'[j] = handler[j]
      /\ handled' \in 0 .. MaxHandled /\ crossing' \in BOOLEAN
      /\ ~crossing' => ~crossing /\ \A j \in Editor : handler[j] = Resting
  BY <1>0, <1>1, HandleFacts DEF RepairRead
<1>4. RequestTypes'
  BY <1>0, <1>2, <1>3 DEF RequestTypes
<1>5. ASSUME ~crossing'
      PROVE  SerialInv'
  <2>1. SerialInv /\ \A j \in Editor : j # k => handler'[j] = Resting
    BY <1>0, <1>3, <1>5
  <2>2. Recorded' = Recorded
    BY <1>2 DEF Recorded
  <2>3. StageInv(handler[k])'
    <3>1. Known(i)
      BY <2>1 DEF SerialInv
    <3>2. /\ handler'[k].at = "plan" /\ handler'[k].issue = i
          /\ handler'[k].nodes = Repair(plan', i.lacks, {i.of})
      BY <1>2, <1>3
    <3> QED  BY <1>2, <3>1, <3>2 DEF StageInv, Known
  <2>4. (\A j \in Recorded : Known(j))' /\ (\A j \in mended : MendedIs(j))'
    BY <1>2, <2>1, <2>2 DEF SerialInv, MendedIs, Known
  <2>5. /\ fresh' # "nothing" => checked' # << >> /\ checked'[1] = Issues(plan')
        /\ fresh' = "evaluation" => evaluated' # << >> /\ evaluated'[1] = Judged(Recorded')
        /\ ~unsound'
    BY <1>2, <2>1, <2>2 DEF SerialInv
  <2> QED  BY <2>1, <2>3, <2>4, <2>5, OneInProgress DEF SerialInv
<1> QED  BY <1>4, <1>5 DEF RequestInv

LEMMA WritePlanInv ==
  ASSUME RequestInv, NEW k \in Editor, WritePlan(k)
  PROVE  RequestInv'
<1>0. RequestTypes /\ (~crossing => SerialInv) /\ handler[k] \in Stage /\ plan \in Workflow
  BY DEF RequestInv, RequestTypes
<1>1. PICK i, v : i = handler[k].issue /\ v = handler[k].nodes
  OBVIOUS
<1> DEFINE h == [at |-> "record", issue |-> i]
<1>2. /\ handler[k].at = "plan" /\ plan' = v /\ fresh' = "nothing"
      /\ UNCHANGED <<checked, evaluated, phase, mended, unsound>>
  BY <1>1 DEF WritePlan
<1>3. i \in Issue /\ v \in Workflow /\ h \in Stage
  BY <1>0, <1>1, <1>2, StageFacts, StagesAre
<1>4. /\ handler' \in [Editor -> Stage] /\ handler'[k] = h
      /\ \A j \in Editor : j # k => handler'[j] = handler[j]
      /\ handled' = handled /\ crossing' = crossing
  BY <1>0, <1>1, <1>3, GotoFacts DEF WritePlan
<1>5. RequestTypes'
  BY <1>0, <1>2, <1>3, <1>4 DEF RequestTypes
<1>6. ASSUME ~crossing'
      PROVE  SerialInv'
  <2>1. SerialInv /\ handler[k] # Resting
    BY <1>0, <1>2, <1>4, <1>6 DEF Resting
  <2>2. \A j \in Editor : j # k => handler'[j] = Resting
    BY <1>4, <2>1 DEF SerialInv
  <2>3. Recorded' = Recorded
    BY <1>2 DEF Recorded
  <2>4. Known(i) /\ i.lacks # "action" /\ v = Repair(plan, i.lacks, {i.of})
    BY <1>1, <1>2, <2>1 DEF SerialInv, StageInv
  <2>5. i.lacks \in Checks \ {"action"} /\ i.of \in Nat
    BY <1>3, <2>4 DEF Issue
  <2>6. Kept(v, plan) /\ Settled(v, i.lacks, i.of)
    BY <1>0, <2>4, <2>5, RepairKeeps, RepairSettlesIt
  <2>7. ASSUME NEW j \in Issue, Known(j)
        PROVE  Known(j)'
    <3>1. j.of \in Ids(plan) => j.of \in Ids(v)
      BY <2>6 DEF Kept
    <3> QED  BY <1>2, <2>7, <3>1 DEF Known
  <2>8. ASSUME NEW j \in Issue, MendedIs(j)
        PROVE  MendedIs(j)'
    <3>1. j.lacks \in Checks /\ j.of \in Nat /\ (j.of <= LastId \/ j.of \in Ids(plan))
      BY <2>8 DEF Issue, MendedIs, Known
    <3>2. Settled(v, j.lacks, j.of)
      BY <1>0, <2>6, <2>8, <3>1, SettledStays DEF MendedIs
    <3>3. Known(j)'
      BY <2>7, <2>8 DEF MendedIs
    <3> QED  BY <1>2, <2>8, <3>2, <3>3 DEF MendedIs
  <2>9. MendedIs(i)'
    <3>1. Known(i)'
      BY <1>3, <2>4, <2>7
    <3> QED  BY <1>2, <2>4, <2>6, <3>1 DEF MendedIs
  <2>10. StageInv(handler[k])'
    <3>1. handler'[k].at = "record" /\ handler'[k].issue = i
      BY <1>4
    <3> QED  BY <2>9, <3>1 DEF StageInv, MendedIs, Known
  <2>11. (\A j \in Recorded : Known(j))'
    BY <1>0, <2>1, <2>3, <2>7, RecordedTyped DEF SerialInv
  <2>12. (\A j \in mended : MendedIs(j))'
    BY <1>0, <1>2, <2>1, <2>8 DEF SerialInv, RequestTypes
  <2>13. fresh' = "nothing" /\ ~unsound'
    BY <1>2, <2>1 DEF SerialInv
  <2> QED  BY <2>2, <2>10, <2>11, <2>12, <2>13, OneInProgress DEF SerialInv
<1> QED  BY <1>5, <1>6 DEF RequestInv

LEMMA RecordRepairInv ==
  ASSUME RequestInv, NEW k \in Editor, RecordRepair(k)
  PROVE  RequestInv'
<1>0. RequestTypes /\ (~crossing => SerialInv) /\ handler[k] \in Stage
  BY DEF RequestInv, RequestTypes
<1> DEFINE h == [at |-> "status", phase |-> "REPAIR_LOOP"]
<1>1. h \in Stage
  BY StagesAre DEF Phase
<1>2. /\ handler[k].at = "record" /\ mended' = mended \cup {handler[k].issue}
      /\ UNCHANGED <<plan, checked, evaluated, phase, fresh, unsound>>
  BY DEF RecordRepair
<1>3. /\ handler' \in [Editor -> Stage] /\ handler'[k] = h
      /\ \A j \in Editor : j # k => handler'[j] = handler[j]
      /\ handled' = handled /\ crossing' = crossing
  BY <1>0, <1>1, GotoFacts DEF RecordRepair
<1>4. RequestTypes'
  <2>1. handler[k].issue \in Issue
    BY <1>0, <1>2, StageFacts
  <2> QED  BY <1>0, <1>2, <1>3, <2>1 DEF RequestTypes
<1>5. ASSUME ~crossing'
      PROVE  SerialInv'
  <2>1. SerialInv /\ handler[k] # Resting
    BY <1>0, <1>2, <1>3, <1>5 DEF Resting
  <2>2. \A j \in Editor : j # k => handler'[j] = Resting
    BY <1>3, <2>1 DEF SerialInv
  <2>3. Recorded' = Recorded
    BY <1>2 DEF Recorded
  <2>4. StageInv(handler[k])'
    BY <1>3 DEF StageInv
  <2>5. MendedIs(handler[k].issue) /\ \A i \in mended : MendedIs(i)
    BY <1>2, <2>1 DEF SerialInv, StageInv
  <2>6. (\A i \in mended : MendedIs(i))'
    BY <1>2, <2>5 DEF MendedIs, Known
  <2>7. (\A i \in Recorded : Known(i))'
    BY <1>2, <2>1, <2>3 DEF SerialInv, Known
  <2>8. /\ fresh' # "nothing" => checked' # << >> /\ checked'[1] = Issues(plan')
        /\ fresh' = "evaluation" => evaluated' # << >> /\ evaluated'[1] = Judged(Recorded')
        /\ ~unsound'
    BY <1>2, <2>1, <2>3 DEF SerialInv
  <2> QED  BY <2>2, <2>4, <2>6, <2>7, <2>8, OneInProgress DEF SerialInv
<1> QED  BY <1>4, <1>5 DEF RequestInv

LEMMA SaveRequestInv ==
  ASSUME RequestInv, NEW k \in Editor, NEW a \in BOOLEAN, SaveRequest(k, a)
  PROVE  RequestInv'
<1>0. RequestTypes /\ (~crossing => SerialInv)
  BY DEF RequestInv
<1> DEFINE h == [at |-> "status", phase |-> "SAVED"]
<1>1. h \in Stage
  BY StagesAre DEF Phase
<1>2. /\ evaluated # << >> /\ evaluated[1].canSave
      /\ unsound' = (unsound \/ (fresh = "evaluation" /\ Blocking(Issues(plan)) # {}))
      /\ UNCHANGED <<plan, checked, evaluated, phase, mended, fresh>>
  BY DEF SaveRequest
<1>3. /\ handler' \in [Editor -> Stage] /\ handler'[k] = h
      /\ \A j \in Editor : j # k => handler'[j] = handler[j]
      /\ handled' \in 0 .. MaxHandled /\ crossing' \in BOOLEAN
      /\ ~crossing' => ~crossing /\ \A j \in Editor : handler[j] = Resting
  BY <1>0, <1>1, HandleFacts DEF SaveRequest
<1>4. unsound' \in BOOLEAN
  BY <1>0, <1>2 DEF RequestTypes
<1>5. RequestTypes'
  BY <1>0, <1>2, <1>3, <1>4 DEF RequestTypes
<1>6. ASSUME ~crossing'
      PROVE  SerialInv'
  <2>1. SerialInv /\ \A j \in Editor : j # k => handler'[j] = Resting
    BY <1>0, <1>3, <1>6
  <2>2. Recorded' = Recorded
    BY <1>2 DEF Recorded
  <2>3. StageInv(handler[k])'
    BY <1>3 DEF StageInv
  <2>4. (\A i \in Recorded : Known(i))' /\ (\A i \in mended : MendedIs(i))'
    BY <1>2, <2>1, <2>2 DEF SerialInv, MendedIs, Known
  <2>5. /\ fresh' # "nothing" => checked' # << >> /\ checked'[1] = Issues(plan')
        /\ fresh' = "evaluation" => evaluated' # << >> /\ evaluated'[1] = Judged(Recorded')
    BY <1>2, <2>1, <2>2 DEF SerialInv
  <2>6. fresh = "evaluation" => Blocking(Issues(plan)) = {}
    <3> SUFFICES ASSUME fresh = "evaluation" PROVE Blocking(Issues(plan)) = {}
      OBVIOUS
    <3>1. Recorded = Issues(plan)
      BY <2>1 DEF SerialInv, Recorded
    <3>2. Judged(Issues(plan)).canSave
      BY <1>2, <2>1, <3>1 DEF SerialInv
    <3> QED  BY <3>2, JudgedIs
  <2>7. ~unsound'
    BY <1>2, <2>1, <2>6 DEF SerialInv
  <2> QED  BY <2>1, <2>3, <2>4, <2>5, <2>7, OneInProgress DEF SerialInv
<1> QED  BY <1>5, <1>6 DEF RequestInv

LEMMA WriteStatusInv ==
  ASSUME RequestInv, NEW k \in Editor, WriteStatus(k)
  PROVE  RequestInv'
<1>0. RequestTypes /\ (~crossing => SerialInv) /\ handler[k] \in Stage
  BY DEF RequestInv, RequestTypes
<1>1. Resting \in Stage
  BY StagesAre
<1>2. /\ handler[k].at = "status" /\ phase' = handler[k].phase
      /\ UNCHANGED <<plan, checked, evaluated, mended, fresh, unsound>>
  BY DEF WriteStatus
<1>3. /\ handler' \in [Editor -> Stage] /\ handler'[k] = Resting
      /\ \A j \in Editor : j # k => handler'[j] = handler[j]
      /\ handled' = handled /\ crossing' = crossing
  BY <1>0, <1>1, GotoFacts DEF WriteStatus
<1>4. RequestTypes'
  <2>1. handler[k].phase \in Phase
    BY <1>0, <1>2, StageFacts
  <2> QED  BY <1>0, <1>2, <1>3, <2>1 DEF RequestTypes
<1>5. ASSUME ~crossing'
      PROVE  SerialInv'
  <2>1. SerialInv /\ handler[k] # Resting
    BY <1>0, <1>2, <1>3, <1>5 DEF Resting
  <2>2. \A j \in Editor : j # k => handler'[j] = Resting
    BY <1>3, <2>1 DEF SerialInv
  <2>3. Recorded' = Recorded
    BY <1>2 DEF Recorded
  <2>4. StageInv(handler[k])'
    BY <1>3 DEF StageInv, Resting
  <2>5. (\A i \in Recorded : Known(i))' /\ (\A i \in mended : MendedIs(i))'
    BY <1>2, <2>1, <2>3 DEF SerialInv, MendedIs, Known
  <2>6. /\ fresh' # "nothing" => checked' # << >> /\ checked'[1] = Issues(plan')
        /\ fresh' = "evaluation" => evaluated' # << >> /\ evaluated'[1] = Judged(Recorded')
        /\ ~unsound'
    BY <1>2, <2>1, <2>3 DEF SerialInv
  <2> QED  BY <2>2, <2>4, <2>5, <2>6, OneInProgress DEF SerialInv
<1> QED  BY <1>4, <1>5 DEF RequestInv

LEMMA HandlerThrowsInv ==
  ASSUME RequestInv, NEW k \in Editor, HandlerThrows(k)
  PROVE  RequestInv'
<1>0. RequestTypes /\ (~crossing => SerialInv) /\ handler[k] \in Stage
  BY DEF RequestInv, RequestTypes
<1>1. Resting \in Stage
  BY StagesAre
<1>2. handler[k] # Resting /\ UNCHANGED <<plan, checked, evaluated, phase, mended, fresh, unsound>>
  BY DEF HandlerThrows
<1>3. /\ handler' \in [Editor -> Stage] /\ handler'[k] = Resting
      /\ \A j \in Editor : j # k => handler'[j] = handler[j]
      /\ handled' = handled /\ crossing' = crossing
  BY <1>0, <1>1, GotoFacts DEF HandlerThrows
<1>4. RequestTypes'
  BY <1>0, <1>2, <1>3 DEF RequestTypes
<1>5. ASSUME ~crossing'
      PROVE  SerialInv'
  <2>1. SerialInv /\ handler[k] # Resting
    BY <1>0, <1>2, <1>3, <1>5
  <2>2. \A j \in Editor : j # k => handler'[j] = Resting
    BY <1>3, <2>1 DEF SerialInv
  <2>3. Recorded' = Recorded
    BY <1>2 DEF Recorded
  <2>4. StageInv(handler[k])'
    BY <1>3 DEF StageInv, Resting
  <2>5. (\A i \in Recorded : Known(i))' /\ (\A i \in mended : MendedIs(i))'
    BY <1>2, <2>1, <2>3 DEF SerialInv, MendedIs, Known
  <2>6. /\ fresh' # "nothing" => checked' # << >> /\ checked'[1] = Issues(plan')
        /\ fresh' = "evaluation" => evaluated' # << >> /\ evaluated'[1] = Judged(Recorded')
        /\ ~unsound'
    BY <1>2, <2>1, <2>3 DEF SerialInv
  <2> QED  BY <2>2, <2>4, <2>5, <2>6, OneInProgress DEF SerialInv
<1> QED  BY <1>4, <1>5 DEF RequestInv

LEMMA RequestRestsInv ==
  ASSUME RequestInv, UNCHANGED requestVars
  PROVE  RequestInv'
<1>1. Recorded' = Recorded
  BY DEF Recorded, requestVars
<1> QED  BY <1>1 DEF requestVars, RequestInv, RequestTypes, SerialInv, StageInv, MendedIs, Known

LEMMA RequestStarts == RequestInit => RequestInv
  BY RequestInitInv

LEMMA RequestStep == RequestInv /\ [RequestNext]_requestVars => RequestInv'
<1> SUFFICES ASSUME RequestInv, RequestNext PROVE RequestInv'
  BY RequestRestsInv
<1> PICK k \in Editor :
      \/ \E w \in {plan} \cup Sent : Validate(k, w)
      \/ EvalPreview(k) \/ WriteEval(k)
      \/ \E i \in Recorded : RepairRead(k, i)
      \/ WritePlan(k) \/ RecordRepair(k)
      \/ \E a \in BOOLEAN : SaveRequest(k, a)
      \/ WriteStatus(k) \/ HandlerThrows(k)
  BY DEF RequestNext
<1> QED  BY ValidateInv, EvalPreviewInv, WriteEvalInv, RepairReadInv, WritePlanInv,
            RecordRepairInv, SaveRequestInv, WriteStatusInv, HandlerThrowsInv

LEMMA RequestTells == RequestInv => RequestTypeOK /\ SerialCallsAreSound
<1>1. RequestInv => RequestTypeOK
  BY RequestTyped DEF RequestInv
<1>2. ASSUME RequestInv, ~crossing
      PROVE  ~unsound /\ \A i \in mended : Shown(i)
  <2>1. plan \in Workflow /\ mended \subseteq Issue /\ SerialInv
    BY <1>2 DEF RequestInv, RequestTypes
  <2> QED  BY <2>1, ShownIs DEF SerialInv
<1> QED  BY <1>1, <1>2 DEF SerialCallsAreSound

\* The rows of a builder request hold what its calls write to them.
THEOREM RequestTypeCorrect == RequestSpec => []RequestTypeOK
<1> QED  BY RequestStarts, RequestStep, RequestTells, PTL DEF RequestSpec

\* One call after the other, on any plan and with any nodes sent to be validated,
\* a repair on record shows in the plan, and no plan with a blocking error is
\* saved that was validated and evaluated as it is.
THEOREM SerialCallsRepairAndSave == RequestSpec => []SerialCallsAreSound
<1> QED  BY RequestStarts, RequestStep, RequestTells, PTL DEF RequestSpec

=============================================================================
