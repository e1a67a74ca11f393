--------------------------- MODULE GraphExecution ---------------------------
(***************************************************************************)
(* What a run of a workflow graph promises, whatever its schedule is: a    *)
(* node starts when everything it needs has succeeded and nothing failed,  *)
(* at most once, and the run ends as its nodes did.                        *)
(***************************************************************************)
EXTENDS Naturals

VARIABLES
  needs,     \* what each node needs, for the nodes of the run
  asks,      \* the nodes that put a question to a human
  started, done, failed,
  outcome

graphVars == <<needs, asks, started, done, failed, outcome>>

GraphInit ==
  /\ started = {} /\ done = {} /\ failed = {}
  /\ outcome = "running"

Start(S) ==
  /\ outcome = "running" /\ failed = {}
  /\ S # {} /\ S \subseteq DOMAIN needs \ started
  /\ \A n \in S : needs[n] \subseteq done
  /\ started' = started \cup S
  /\ UNCHANGED <<needs, asks, done, failed, outcome>>

Succeed(n) ==
  /\ n \in started \ (done \cup failed)
  /\ done' = done \cup {n}
  /\ UNCHANGED <<needs, asks, started, failed, outcome>>

Fail(n) ==
  /\ n \in started \ (done \cup failed)
  /\ failed' = failed \cup {n}
  /\ UNCHANGED <<needs, asks, started, done, outcome>>

\* The run ends with every node it started answered: BLOCKED behind a human,
\* FAILED on a failure, SUCCEEDED with every node done and nobody asked.
End(o) ==
  /\ outcome = "running"
  /\ started = done \cup failed
  /\ \/ o = "FAILED" /\ failed # {}
     \/ o = "BLOCKED" /\ failed = {} /\ done \cap asks # {}
     \/ o = "SUCCEEDED" /\ done = DOMAIN needs /\ done \cap asks = {}
  /\ outcome' = o
  /\ UNCHANGED <<needs, asks, started, done, failed>>

GraphNext ==
  \/ \E S \in SUBSET DOMAIN needs : Start(S)
  \/ \E n \in DOMAIN needs : Succeed(n) \/ Fail(n)
  \/ \E o \in {"SUCCEEDED", "FAILED", "BLOCKED"} : End(o)

GraphSpec == GraphInit /\ [][GraphNext]_graphVars
=============================================================================
