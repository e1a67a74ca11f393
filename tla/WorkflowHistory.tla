--------------------------- MODULE WorkflowHistory ---------------------------
(***************************************************************************)
(* What clients may rely on about the life of one saved workflow, however  *)
(* their calls overlap: its version counts the changes made to it, its     *)
(* published versions are numbered 1, 2, 3 ... and never change, and the   *)
(* active version is the last one published.                               *)
(***************************************************************************)
EXTENDS Naturals

VARIABLES
  version,    \* the version clients send back as expectedVersion, 0 before creation
  published,  \* the snapshots, by version number
  active      \* the number of the active version, 0 before the first

Init == version = 0 /\ published = << >> /\ active = 0

Create == version = 0 /\ version' = 1 /\ UNCHANGED <<published, active>>

Change == version > 0 /\ version' = version + 1 /\ UNCHANGED <<published, active>>

Publish ==
  /\ version > 0 /\ version' = version + 1
  /\ active' = active + 1
  /\ DOMAIN published' = 1 .. active + 1
  /\ \A n \in 1 .. active : published'[n] = published[n]

Next == Create \/ Change \/ Publish

Spec == Init /\ [][Next]_<<version, published, active>>

=============================================================================
