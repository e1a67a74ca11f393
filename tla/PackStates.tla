----------------------------- MODULE PackStates -----------------------------
(***************************************************************************)
(* What the life of one pack version is meant to be: imported as a draft,  *)
(* it moves along the table of transitions and nowhere else; revoking its  *)
(* last certification takes it back to VALIDATED.                          *)
(***************************************************************************)
EXTENDS PackDomain

VARIABLE status

Init == status \in {"absent", "DRAFT"}

Create == status = "absent" /\ status' = "DRAFT"

Transition ==
  /\ status \in PackStatus
  /\ \E to \in PackStatus, role \in Role :
       canTransition(status, to, role) /\ status' = to

Revoke == status = "CERTIFIED" /\ status' = "VALIDATED"

Next == Create \/ Transition \/ Revoke

Spec == Init /\ [][Next]_status

=============================================================================
