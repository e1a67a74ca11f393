----------------------------- MODULE PackDomain -----------------------------
(***************************************************************************)
(* The pack version state machine shared by the API and the worker         *)
(* (packages/types, pack-domain.ts): the table of transitions, and the     *)
(* roles that may take them.                                               *)
(***************************************************************************)
PackStatus == {"DRAFT", "IMPORTED", "VALIDATED", "CERTIFIED", "PUBLISHED",
               "DEPRECATED", "BLOCKED"}
Role == {"PLATFORM_ADMIN", "TENANT_ADMIN", "OPERATOR"}

\* BLOCKED has no successor.
TRANSITIONS ==
  [DRAFT      |-> {"IMPORTED", "BLOCKED"},
   IMPORTED   |-> {"VALIDATED", "BLOCKED"},
   VALIDATED  |-> {"CERTIFIED", "BLOCKED"},
   CERTIFIED  |-> {"PUBLISHED", "BLOCKED"},
   PUBLISHED  |-> {"DEPRECATED", "BLOCKED"},
   DEPRECATED |-> {"BLOCKED"},
   BLOCKED    |-> {}]

\* Only the platform admin blocks; an operator goes no further than VALIDATED.
TRANSITION_ROLES(to) ==
  CASE to = "BLOCKED" -> {"PLATFORM_ADMIN"}
    [] to \in {"IMPORTED", "VALIDATED"} -> Role
    [] OTHER -> {"PLATFORM_ADMIN", "TENANT_ADMIN"}

canTransition(from, to, role) ==
  to \in TRANSITIONS[from] /\ role \in TRANSITION_ROLES(to)

=============================================================================
