---------------------------- MODULE ServicesProofs ----------------------------
(***************************************************************************)
(* What the services beside the engines keep, for any number of operators, *)
(* cases, calls, clerks, clients, pages, deliveries that are cut off and   *)
(* other failures, and all of them together.                               *)
(*                                                                         *)
(* An autonomous action: its histories are counters, of what a delivery    *)
(* may still do, of the operators who may still revert, and of those who   *)
(* have reverted and not yet said so.  A replay run: the rows a delivery   *)
(* may have written by the case it is at, and what its tally counts.       *)
(*                                                                         *)
(* A connector: which client each call awaits, and which calls may bring   *)
(* one back.  A draft: what its page has seen of the row, by the version   *)
(* it knows, the answers on their way to it and the save it has begun.  An *)
(* invoice: a call writes fields that go with the status it writes, so     *)
(* what has to be known of it is which statuses its check let through.     *)
(* The repairs of the builder are in HarnessProofs.                        *)
(***************************************************************************)
EXTENDS Services, HarnessProofs

-----------------------------------------------------------------------------
\* An autonomous action

\* The job, its delivery and its place in executeAction.
JobInv ==
  /\ creator = "idle" <=> action = "none"
  /\ creator # "done" => ajob = "none"
  /\ apc # "idle" <=> ajob = "active"
  /\ ajob \in {"none", "waiting", "active", "completed"} => athrown <= 1 /\ astalled <= 1
  /\ ajob = "failed" => (athrown = 2 /\ astalled <= 1) \/ (athrown <= 1 /\ astalled = 2)
  /\ athrown <= actFaults

\* A delivery that has come past the adapter has changed the connector, once.
EffectInv ==
  /\ effects <= athrown + astalled
                  + (IF apc \in {"write", "report"} \/ ajob = "completed" THEN 1 ELSE 0)
  /\ apc \in {"write", "report"} /\ applied /\ kind = "REMEDIATION" => effects > 0
  /\ action = "VERIFIED" /\ ~byHand /\ kind = "REMEDIATION" => effects > 0

\* Operators who may still revert, and who have yet to say that they did.
Ready == {k \in Operator : desk[k] \in {"idle", "revert"}}
Telling == {k \in Operator : desk[k] = "tell"}

Reverted == IF action = "REVERTED" THEN 1 ELSE 0

RevertInv ==
  /\ undone + Cardinality(Ready) <= Cardinality(Operator)
  /\ told + Cardinality(Telling) <= undone
  /\ redone + Reverted <= undone

\* Operators whose calls do not meet revert an action that is not reverted.
AloneInv ==
  /\ action = "none" => \A k \in Operator : desk[k] = "idle"
  /\ ~together =>
       /\ \A j, k \in Operator : desk[j] = "revert" /\ desk[k] = "revert" => j = k
       /\ (\E k \in Operator : desk[k] = "revert") => action # "REVERTED"
       /\ undone <= redone + Reverted

AutoInv == AutoTypeOK /\ JobInv /\ EffectInv /\ RevertInv /\ AloneInv

-----------------------------------------------------------------------------

LEMMA Counters ==
  ASSUME AutoTypeOK
  PROVE  /\ IsFiniteSet(Ready) /\ IsFiniteSet(Telling)
         /\ Cardinality(Ready) \in Nat /\ Cardinality(Telling) \in Nat /\ Cardinality(Operator) \in Nat
         /\ undone \in Nat /\ told \in Nat /\ redone \in Nat
         /\ Reverted \in {0, 1}
         /\ athrown \in Nat /\ astalled \in Nat /\ effects \in Nat /\ actFaults \in Nat
<1>1. Ready \in SUBSET Operator /\ Telling \in SUBSET Operator
  BY DEF Ready, Telling
<1>2. IsFiniteSet(Operator) /\ IsFiniteSet(Ready) /\ IsFiniteSet(Telling)
  BY <1>1, FS_Subset, AutoAssumption
<1>3. Cardinality(Ready) \in Nat /\ Cardinality(Telling) \in Nat /\ Cardinality(Operator) \in Nat
  BY <1>2, FS_CardinalityType
<1> QED
  BY <1>2, <1>3, AutoAssumption DEF AutoTypeOK, ActionJob!JobTypeOK, ActionAttempts, Reverted

LEMMA AutoStarts == AutoInit => AutoInv
<1> SUFFICES ASSUME AutoInit PROVE AutoInv
  OBVIOUS
<1> USE DEF AutoInit, ActionJob!JobInit
<1>1. Cardinality(Operator) \in Nat
  BY FS_CardinalityType, AutoAssumption
<1>2. AutoTypeOK
  <2>1. ActionJob!JobTypeOK
    BY DEF ActionJob!JobTypeOK, ActionAttempts
  <2>2. /\ told \in 0 .. Cardinality(Operator) /\ undone \in told .. Cardinality(Operator)
        /\ redone \in 0 .. Cardinality(Operator)
    BY <1>1
  <2>3. actFaults \in 0 .. MaxActFaults /\ effects \in 0 .. 3
    BY AutoAssumption
  <2>4. desk \in [Operator -> {"idle", "revert", "tell", "done"}]
    OBVIOUS
  <2> QED  BY <2>1, <2>2, <2>3, <2>4 DEF AutoTypeOK, Kind
<1>3. JobInv /\ EffectInv /\ AloneInv
  BY DEF JobInv, EffectInv, AloneInv, Reverted
<1>4. RevertInv
  <2>1. Ready = Operator /\ Telling = {} /\ Reverted = 0
    BY DEF Ready, Telling, Reverted
  <2> QED  BY <1>1, <2>1, FS_EmptySet DEF RevertInv
<1> QED  BY <1>2, <1>3, <1>4 DEF AutoInv

\* What is written over a revert is counted.
LEMMA WriteCounts ==
  ASSUME AutoInv, NEW s \in {"EXECUTED", "VERIFIED", "FAILED"}, Write(s)
  PROVE  /\ redone' \in Nat /\ redone' <= undone /\ redone' = redone + Reverted
         /\ Reverted' = 0
BY Counters DEF AutoInv, RevertInv, Write, Reverted

\* A step that leaves the operators' calls alone, and writes no revert.
LEMMA DeskRests ==
  ASSUME AutoInv, UNCHANGED <<desk, told, undone, together>>,
         UNCHANGED <<action, redone>> \/ \E s \in {"EXECUTED", "VERIFIED", "FAILED"} : Write(s)
  PROVE  RevertInv' /\ AloneInv' /\ redone' \in 0 .. Cardinality(Operator)
<1>1. Ready' = Ready /\ Telling' = Telling
  BY DEF Ready, Telling
<1>2. CASE UNCHANGED <<action, redone>>
  BY <1>1, <1>2 DEF AutoInv, RevertInv, AloneInv, Reverted, AutoTypeOK
<1>3. CASE \E s \in {"EXECUTED", "VERIFIED", "FAILED"} : Write(s)
  <2>1. /\ redone' \in Nat /\ redone' <= undone /\ redone' = redone + Reverted /\ Reverted' = 0
        /\ action' \notin {"none", "REVERTED"}
    BY <1>3, WriteCounts DEF Write
  <2>2. RevertInv'
    BY <1>1, <2>1, Counters DEF AutoInv, RevertInv
  <2>3. AloneInv'
    BY <2>1, Counters DEF AutoInv, AloneInv
  <2>4. redone' <= Cardinality(Operator)
    BY <2>1, Counters DEF AutoInv, RevertInv
  <2> QED  BY <2>1, <2>2, <2>3, <2>4, Counters DEF AutoInv
<1> QED  BY <1>2, <1>3

\* A step of the operators alone.
LEMMA WorkRests ==
  ASSUME AutoInv, UNCHANGED <<creator, mission, kind, target, workVars, actionJob>>,
         action # "none" /\ action' # "none" /\ (action' = "VERIFIED" => action = "VERIFIED" \/ byHand'),
         byHand' \in {byHand, TRUE}, byHand => byHand', actFaults' \in Nat, actFaults' >= actFaults
  PROVE  JobInv' /\ EffectInv'
<1>1. JobInv'
  BY Counters DEF AutoInv, JobInv, workVars, actionJob
<1>2. EffectInv'
  BY DEF AutoInv, EffectInv, workVars, actionJob
<1> QED  BY <1>1, <1>2

-----------------------------------------------------------------------------
\* The actions

LEMMA CreateActionKeeps == ASSUME AutoInv, CreateAction PROVE AutoInv'
<1> USE DEF CreateAction, workVars, actionJob, deskVars
<1>1. RevertInv' /\ AloneInv' /\ redone' \in 0 .. Cardinality(Operator)
  BY DeskRests
<1>2. AutoTypeOK'
  BY <1>1 DEF AutoInv, AutoTypeOK, ActionJob!JobTypeOK, Kind, Write
<1>3. JobInv' /\ EffectInv'
  BY DEF AutoInv, JobInv, EffectInv, Write
<1> QED  BY <1>1, <1>2, <1>3 DEF AutoInv

LEMMA TellKeeps == ASSUME AutoInv, TellMission PROVE AutoInv'
<1> USE DEF TellMission, workVars, actionJob, deskVars
<1>1. RevertInv' /\ AloneInv' /\ redone' \in 0 .. Cardinality(Operator)
  BY DeskRests
<1>2. AutoTypeOK'
  BY <1>1, AutoAssumption DEF AutoInv, AutoTypeOK, ActionJob!JobTypeOK, ActFault
<1>3. JobInv' /\ EffectInv'
  BY Counters DEF AutoInv, JobInv, EffectInv, ActFault
<1> QED  BY <1>1, <1>2, <1>3 DEF AutoInv

LEMMA QueueKeeps == ASSUME AutoInv, QueueAction PROVE AutoInv'
<1> USE DEF QueueAction, ActionJob!Add, workVars, actionJob, deskVars
<1>1. RevertInv' /\ AloneInv' /\ redone' \in 0 .. Cardinality(Operator)
  BY DeskRests
<1>2. AutoTypeOK'
  BY <1>1, AutoAssumption DEF AutoInv, AutoTypeOK, ActionJob!JobTypeOK, ActFault
<1>3. JobInv' /\ EffectInv'
  BY Counters DEF AutoInv, JobInv, EffectInv, ActFault
<1> QED  BY <1>1, <1>2, <1>3 DEF AutoInv

LEMMA TakeKeeps == ASSUME AutoInv, TakeAction PROVE AutoInv'
<1> USE DEF TakeAction, ActionJob!Take, deskVars
<1>1. RevertInv' /\ AloneInv' /\ redone' \in 0 .. Cardinality(Operator)
  BY DeskRests
<1>2. AutoTypeOK'
  BY <1>1 DEF AutoInv, AutoTypeOK, ActionJob!JobTypeOK
<1>3. JobInv' /\ EffectInv'
  BY Counters DEF AutoInv, JobInv, EffectInv
<1> QED  BY <1>1, <1>2, <1>3 DEF AutoInv

LEMMA ApplyKeeps == ASSUME AutoInv, Apply PROVE AutoInv'
<1> USE DEF Apply, actionJob, deskVars
<1>1. RevertInv' /\ AloneInv' /\ redone' \in 0 .. Cardinality(Operator)
  BY DeskRests
<1>2. JobInv'
  BY Counters DEF AutoInv, JobInv, ActFault
<1>3. effects' \in Nat /\ effects' >= effects /\ effects' <= athrown + astalled + 1
  BY Counters DEF AutoInv, EffectInv, JobInv
<1>4. EffectInv'
  <2>1. target /\ kind = "REMEDIATION" => effects' > 0
    BY Counters DEF AutoInv
  <2> QED  BY <1>3, <2>1, Counters DEF AutoInv, AutoTypeOK, Kind, EffectInv
<1>5. effects' \in 0 .. 3
  BY <1>3, Counters DEF AutoInv, JobInv
<1>6. AutoTypeOK'
  BY <1>1, <1>5, AutoAssumption DEF AutoInv, AutoTypeOK, ActionJob!JobTypeOK, ActFault
<1> QED  BY <1>1, <1>2, <1>4, <1>6 DEF AutoInv

\* A delivery that ends with an exception, or with its worker.
LEMMA DeliveryEnds ==
  ASSUME AutoInv, apc # "idle", apc' = "idle",
         \/ ActionJob!Throw /\ actFaults' = actFaults + 1
         \/ ActionJob!Stall /\ actFaults' = actFaults,
         UNCHANGED <<creator, kind, effects, byHand>>,
         action' # "none",
         action' = action \/ action' = "FAILED"
  PROVE  JobInv' /\ EffectInv' /\ ActionJob!JobTypeOK'
<1> USE DEF ActionJob!Throw, ActionJob!Stall, ActionAttempts
<1>1. /\ ajob = "active" /\ athrown <= 1 /\ astalled <= 1 /\ creator = "done" /\ action # "none"
  BY DEF AutoInv, AutoTypeOK, JobInv
<1>2. JobInv'
  BY <1>1, Counters DEF AutoInv, JobInv
<1>3. EffectInv'
  BY <1>1, Counters DEF AutoInv, EffectInv
<1>4. ActionJob!JobTypeOK'
  BY <1>1, Counters DEF AutoInv, ActionJob!JobTypeOK
<1> QED  BY <1>2, <1>3, <1>4

LEMMA ApplyThrowsKeeps == ASSUME AutoInv, ApplyThrows PROVE AutoInv'
<1> USE DEF ApplyThrows, deskVars
<1>1. RevertInv' /\ AloneInv' /\ redone' \in 0 .. Cardinality(Operator)
  BY DeskRests
<1>2. action # "none" /\ action' # "none" /\ (action' = action \/ action' = "FAILED")
  BY DEF AutoInv, JobInv, Write
<1>3. JobInv' /\ EffectInv' /\ ActionJob!JobTypeOK'
  BY <1>2, DeliveryEnds DEF ActFault
<1>4. AutoTypeOK'
  BY <1>1, <1>2, <1>3, AutoAssumption DEF AutoInv, AutoTypeOK, ActFault
<1> QED  BY <1>1, <1>3, <1>4 DEF AutoInv

LEMMA BreaksKeeps == ASSUME AutoInv, ActionBreaks PROVE AutoInv'
<1> USE DEF ActionBreaks, deskVars
<1>1. RevertInv' /\ AloneInv' /\ redone' \in 0 .. Cardinality(Operator)
  BY DeskRests
<1>2. action # "none"
  BY DEF AutoInv, JobInv
<1>3. JobInv' /\ EffectInv' /\ ActionJob!JobTypeOK'
  BY <1>2, DeliveryEnds DEF ActFault
<1>4. AutoTypeOK'
  BY <1>1, <1>2, <1>3, AutoAssumption DEF AutoInv, AutoTypeOK, ActFault
<1> QED  BY <1>1, <1>3, <1>4 DEF AutoInv

LEMMA StutterKeeps == ASSUME AutoInv, UNCHANGED autoVars PROVE AutoInv'
BY DEF AutoInv, AutoTypeOK, ActionJob!JobTypeOK, JobInv, EffectInv, RevertInv, AloneInv, Ready, Telling,
       Reverted, autoVars, workVars, actionJob, deskVars

LEMMA CutOffKeeps == ASSUME AutoInv, ActionIsCutOff PROVE AutoInv'
<1> USE DEF ActionIsCutOff, deskVars, actionJob
<1>1. CASE apc = "idle"
  BY <1>1, StutterKeeps DEF autoVars, workVars
<1>2. CASE apc # "idle"
  <2>1. RevertInv' /\ AloneInv' /\ redone' \in 0 .. Cardinality(Operator)
    BY DeskRests
  <2>2. action # "none"
    BY <1>2 DEF AutoInv, JobInv
  <2>3. JobInv' /\ EffectInv' /\ ActionJob!JobTypeOK'
    BY <1>2, <2>2, DeliveryEnds
  <2>4. AutoTypeOK'
    BY <2>1, <2>2, <2>3 DEF AutoInv, AutoTypeOK
  <2> QED  BY <2>1, <2>3, <2>4 DEF AutoInv
<1> QED  BY <1>1, <1>2

LEMMA WriteOutcomeKeeps == ASSUME AutoInv, WriteOutcome PROVE AutoInv'
<1> USE DEF WriteOutcome, actionJob, deskVars
<1>1. Verified \in {"VERIFIED", "FAILED"} /\ (Verified = "VERIFIED" => applied)
  BY DEF Verified
<1>2. RevertInv' /\ AloneInv' /\ redone' \in 0 .. Cardinality(Operator)
  BY <1>1, DeskRests
<1>3. AutoTypeOK'
  BY <1>1, <1>2 DEF AutoInv, AutoTypeOK, ActionJob!JobTypeOK, Write
<1>4. JobInv' /\ EffectInv'
  BY <1>1 DEF AutoInv, JobInv, EffectInv, Write
<1> QED  BY <1>2, <1>3, <1>4 DEF AutoInv

LEMMA ReportKeeps == ASSUME AutoInv, ReportAction PROVE AutoInv'
<1> USE DEF ReportAction, ActionJob!Complete, deskVars
<1>1. RevertInv' /\ AloneInv' /\ redone' \in 0 .. Cardinality(Operator)
  BY DeskRests
<1>2. AutoTypeOK'
  BY <1>1 DEF AutoInv, AutoTypeOK, ActionJob!JobTypeOK
<1>3. JobInv' /\ EffectInv'
  BY Counters DEF AutoInv, JobInv, EffectInv
<1> QED  BY <1>1, <1>2, <1>3 DEF AutoInv

LEMMA DeleteKeeps == ASSUME AutoInv, DeleteTarget PROVE AutoInv'
<1> USE DEF DeleteTarget, workVars, actionJob, deskVars
<1>1. RevertInv' /\ AloneInv' /\ redone' \in 0 .. Cardinality(Operator)
  BY DeskRests
<1>2. AutoTypeOK'
  <2>1. target' \in BOOLEAN
    BY Zenon
  <2> QED  BY <1>1, <2>1 DEF AutoInv, AutoTypeOK, ActionJob!JobTypeOK
<1>3. JobInv' /\ EffectInv'
  BY DEF AutoInv, JobInv, EffectInv
<1> QED  BY <1>1, <1>2, <1>3 DEF AutoInv

LEMMA WindowKeeps == ASSUME AutoInv, WindowCloses PROVE AutoInv'
<1> USE DEF WindowCloses, workVars, actionJob
<1>1. RevertInv' /\ AloneInv' /\ redone' \in 0 .. Cardinality(Operator)
  BY DeskRests
<1>2. AutoTypeOK'
  <2>1. young' \in BOOLEAN
    BY Zenon
  <2> QED  BY <1>1, <2>1 DEF AutoInv, AutoTypeOK, ActionJob!JobTypeOK
<1>3. JobInv' /\ EffectInv'
  BY DEF AutoInv, JobInv, EffectInv
<1> QED  BY <1>1, <1>2, <1>3 DEF AutoInv

LEMMA VerifyKeeps == ASSUME AutoInv, NEW k \in Operator, Verify(k) PROVE AutoInv'
<1> USE DEF Verify
<1>1. /\ redone' \in Nat /\ redone' <= undone /\ redone' = redone + Reverted /\ Reverted' = 0
      /\ action' = "VERIFIED"
  BY WriteCounts DEF Write
<1>2. JobInv' /\ EffectInv'
  BY <1>1, WorkRests, Counters DEF AutoInv
<1>3. RevertInv'
  <2>1. Ready' = Ready \ {k} /\ k \in Ready /\ Telling' = Telling
    BY DEF AutoInv, AutoTypeOK, Ready, Telling
  <2>2. Cardinality(Ready') = Cardinality(Ready) - 1
    BY <2>1, FS_RemoveElement, Counters DEF AutoInv
  <2> QED  BY <1>1, <2>1, <2>2, Counters DEF AutoInv, RevertInv
<1>4. AloneInv'
  BY <1>1, Counters DEF AutoInv, AutoTypeOK, AloneInv
<1>5. AutoTypeOK'
  <2>1. redone' \in 0 .. Cardinality(Operator)
    BY <1>1, Counters DEF AutoInv, RevertInv
  <2> QED  BY <1>1, <2>1 DEF AutoInv, AutoTypeOK, ActionJob!JobTypeOK, workVars, actionJob
<1> QED  BY <1>2, <1>3, <1>4, <1>5 DEF AutoInv

LEMMA CheckRevertKeeps == ASSUME AutoInv, NEW k \in Operator, CheckRevert(k) PROVE AutoInv'
<1> USE DEF CheckRevert, Revertible
<1>1. JobInv' /\ EffectInv'
  BY WorkRests, Counters DEF AutoInv
<1>2. RevertInv'
  <2>1. Ready' = Ready /\ Telling' = Telling
    BY DEF AutoInv, AutoTypeOK, Ready, Telling
  <2> QED  BY <2>1 DEF AutoInv, RevertInv, Reverted
<1>3. AloneInv'
  BY DEF AutoInv, AutoTypeOK, AloneInv, Reverted
<1>4. AutoTypeOK'
  BY DEF AutoInv, AutoTypeOK, ActionJob!JobTypeOK, workVars, actionJob
<1> QED  BY <1>1, <1>2, <1>3, <1>4 DEF AutoInv

LEMMA WriteRevertKeeps == ASSUME AutoInv, NEW k \in Operator, WriteRevert(k) PROVE AutoInv'
<1> USE DEF WriteRevert
<1>1. action # "none" /\ desk[k] = "revert"
  BY DEF AutoInv, AloneInv
<1>2. action' = "REVERTED" /\ redone' = redone /\ Reverted' = 1
  BY DEF Write, Reverted
<1>3. JobInv' /\ EffectInv'
  BY <1>1, <1>2, WorkRests, Counters DEF AutoInv
<1>4. RevertInv'
  <2>1. /\ Ready' = Ready \ {k} /\ k \in Ready /\ k \notin Telling
        /\ Telling' = Telling \/ Telling' = Telling \cup {k}
    BY DEF AutoInv, AutoTypeOK, Ready, Telling
  <2>2. Cardinality(Ready') = Cardinality(Ready) - 1
    BY <2>1, FS_RemoveElement, Counters DEF AutoInv
  <2>3. /\ Cardinality(Telling') <= Cardinality(Telling) + 1
        /\ Cardinality(Telling') \in Nat
    <3>1. IsFiniteSet(Telling) /\ Cardinality(Telling) \in Nat
      BY Counters DEF AutoInv
    <3>2. Cardinality(Telling \cup {k}) = Cardinality(Telling) + 1
      BY <2>1, <3>1, FS_AddElement
    <3> QED  BY <2>1, <3>1, <3>2
  <2>4. redone + 1 <= undone + 1
    BY Counters DEF AutoInv, RevertInv
  <2> QED  BY <1>2, <2>1, <2>2, <2>3, <2>4, Counters DEF AutoInv, RevertInv
<1>5. AloneInv'
  <2>1. ~together =>
          /\ \A j \in Operator : desk'[j] # "revert"
          /\ undone + 1 <= redone + 1
    BY <1>1, Counters DEF AutoInv, AutoTypeOK, AloneInv, Reverted
  <2> QED  BY <1>2, <2>1 DEF AloneInv
<1>6. AutoTypeOK'
  <2>1. undone + 1 <= Cardinality(Operator)
    <3>1. k \in Ready
      BY <1>1 DEF Ready
    <3>2. Cardinality(Ready \ {k}) = Cardinality(Ready) - 1 /\ Cardinality(Ready \ {k}) \in Nat
      BY <3>1, FS_RemoveElement, FS_CardinalityType, Counters DEF AutoInv
    <3> QED  BY <3>2, Counters DEF AutoInv, RevertInv
  <2>2. undone' \in told' .. Cardinality(Operator)
    BY <2>1, Counters DEF AutoInv, AutoTypeOK
  <2>3. desk' \in [Operator -> {"idle", "revert", "tell", "done"}]
    BY DEF AutoInv, AutoTypeOK
  <2> QED  BY <1>2, <2>2, <2>3 DEF AutoInv, AutoTypeOK, ActionJob!JobTypeOK, workVars, actionJob
<1> QED  BY <1>3, <1>4, <1>5, <1>6 DEF AutoInv

LEMMA TellRevertKeeps == ASSUME AutoInv, NEW k \in Operator, TellRevert(k) PROVE AutoInv'
<1> USE DEF TellRevert
<1>1. action # "none" /\ desk[k] = "tell"
  BY DEF AutoInv, AloneInv
<1>2. actFaults' \in 0 .. MaxActFaults /\ actFaults' >= actFaults
  BY AutoAssumption DEF AutoInv, AutoTypeOK, ActFault
<1>3. JobInv' /\ EffectInv'
  BY <1>1, <1>2, WorkRests, AutoAssumption DEF AutoInv
<1>4. told' \in Nat /\ told' <= told + 1
  BY Counters DEF AutoInv
<1>5. /\ Ready' = Ready /\ Telling' = Telling \ {k} /\ k \in Telling
  BY <1>1 DEF AutoInv, AutoTypeOK, Ready, Telling
<1>6. Cardinality(Telling') = Cardinality(Telling) - 1 /\ Cardinality(Telling') \in Nat
  BY <1>5, FS_RemoveElement, FS_CardinalityType, Counters DEF AutoInv
<1>7. RevertInv'
  BY <1>4, <1>5, <1>6, Counters DEF AutoInv, RevertInv, Reverted
<1>8. AloneInv'
  BY <1>1 DEF AutoInv, AutoTypeOK, AloneInv, Reverted
<1>9. AutoTypeOK'
  <2>1. told' <= undone
    BY <1>4, <1>6, Counters DEF AutoInv, RevertInv
  <2>2. told' \in 0 .. Cardinality(Operator) /\ undone' \in told' .. Cardinality(Operator)
    BY <1>4, <2>1, Counters DEF AutoInv, AutoTypeOK
  <2>3. desk' \in [Operator -> {"idle", "revert", "tell", "done"}]
    BY DEF AutoInv, AutoTypeOK
  <2> QED  BY <1>2, <2>2, <2>3 DEF AutoInv, AutoTypeOK, ActionJob!JobTypeOK, workVars, actionJob
<1> QED  BY <1>3, <1>7, <1>8, <1>9 DEF AutoInv

LEMMA AutoStep == AutoInv /\ [AutoNext \/ ActionIsCutOff]_autoVars => AutoInv'
<1> SUFFICES ASSUME AutoInv, [AutoNext \/ ActionIsCutOff]_autoVars PROVE AutoInv'
  OBVIOUS
<1>1. ASSUME NEW k \in Operator, Verify(k) \/ CheckRevert(k) \/ WriteRevert(k) \/ TellRevert(k)
      PROVE  AutoInv'
  BY <1>1, VerifyKeeps, CheckRevertKeeps, WriteRevertKeeps, TellRevertKeeps
<1>2. CASE ActionWorks
  BY <1>2, TakeKeeps, ApplyKeeps, WriteOutcomeKeeps, ReportKeeps DEF ActionWorks
<1>3. CASE UNCHANGED autoVars
  BY <1>3, StutterKeeps
<1> QED
  BY <1>1, <1>2, <1>3, CreateActionKeeps, TellKeeps, QueueKeeps, ApplyThrowsKeeps, BreaksKeeps,
     CutOffKeeps, DeleteKeeps, WindowKeeps DEF AutoNext

-----------------------------------------------------------------------------

\* The action, its job and the operators' calls stay within their types; the
\* connector is changed three times at most.
THEOREM AutoTypeCorrect == AutoSpec => []AutoTypeOK
<1>1. AutoInv => AutoTypeOK
  BY DEF AutoInv
<1> QED  BY AutoStarts, AutoStep, <1>1, PTL DEF AutoSpec

LEMMA AutoTells == AutoInv => VerifiedWasApplied /\ RevertsAreCounted
<1> SUFFICES ASSUME AutoInv PROVE VerifiedWasApplied /\ RevertsAreCounted
  OBVIOUS
<1>1. VerifiedWasApplied
  <2>1. effects <= 1 + actFaults + astalled /\ effects <= 2 + astalled
    BY Counters DEF AutoInv, AutoTypeOK, ActionJob!JobTypeOK, JobInv, EffectInv
  <2> QED  BY <2>1, Counters DEF AutoInv, EffectInv, VerifiedWasApplied
<1>2. RevertsAreCounted
  BY Counters DEF AutoInv, RevertInv, AloneInv, RevertsAreCounted
<1> QED  BY <1>1, <1>2

\* A remediation that is VERIFIED, and not by an operator, has changed the
\* connector; and each delivery of runAutonomousOpsProcessor changed it once at
\* most.
THEOREM VerifiedRemediationWasApplied == AutoSpec => []VerifiedWasApplied
<1> QED  BY AutoStarts, AutoStep, AutoTells, PTL DEF AutoSpec

\* Operators who do not pass the check of revert together revert an action once,
\* and once more for each time the revert was written over; the mission is told
\* of no revert that was not written.
THEOREM RevertsAreOfOneAction == AutoSpec => []RevertsAreCounted
<1> QED  BY AutoStarts, AutoStep, AutoTells, PTL DEF AutoSpec

-----------------------------------------------------------------------------
\* A replay run

Counted(t) == t["passed"] + t["failed"] + t["error"]
OneRow(c) == \E v \in Verdict : rows[c] = [Nothing EXCEPT ![v] = 1]

\* Rows of a case that the delivery in progress, or the last one, may have
\* written.
RowsMade(c) ==
  IF rpc = "idle" THEN IF rjob = "completed" \/ rthrown = 1 THEN 1 ELSE 0
  ELSE IF c < next THEN 1 ELSE 0

\* The job and its delivery.
DeliveryInv ==
  /\ rpc # "idle" <=> rjob = "active"
  /\ run = "none" <=> request = "idle"
  /\ request \in {"idle", "add"} => rjob = "none"
  /\ rjob # "failed" => rthrown = 0 /\ rstalled <= 1
  /\ rjob = "failed" => (rthrown = 1 /\ rstalled <= 1) \/ (rthrown = 0 /\ rstalled = 2)
  /\ rpc = "mark" => next = 1
  /\ rpc = "report" => next = NCases + 1
  /\ rpc = "broken" => runFaults > 0

\* What the delivery has counted, and what the row says of a run.
CountInv ==
  /\ \A c \in Case, v \in Verdict : rows[c][v] <= rstalled + RowsMade(c)
  /\ rpc # "idle" => Counted(tally) = next - 1
  /\ rpc # "idle" => \A v \in Verdict : tally[v] > 0 => RowsWith(v) # {}
  /\ run = "COMPLETED" =>
       /\ Counted(totals) = NCases /\ totals["error"] < NCases
       /\ \A v \in Verdict : totals[v] > 0 => RowsWith(v) # {}

\* The only delivery, while no worker died.
FirstInv ==
  rstalled = 0 =>
    /\ rjob \in {"none", "waiting"} => next = 1 /\ run # "COMPLETED" /\ cited.status # "COMPLETED"
    /\ rpc \in {"mark", "cases"} => run # "COMPLETED" /\ cited.status # "COMPLETED"
    /\ run = "COMPLETED" => next = NCases + 1
    /\ \A c \in Case : IF c < next THEN OneRow(c) ELSE rows[c] = Nothing
    /\ cited.status = "COMPLETED" => totals = cited.totals /\ (run = "COMPLETED" \/ runFaults > 0)

ReplayInv == ReplayTypeOK /\ DeliveryInv /\ CountInv /\ FirstInv

-----------------------------------------------------------------------------

LEMMA Verdicts == Verdict = {"passed", "failed", "error"}
BY DEF Verdict

LEMMA ReplayStarts == ReplayInit => ReplayInv
<1> SUFFICES ASSUME ReplayInit PROVE ReplayInv
  OBVIOUS
<1> USE ReplayAssumption DEF ReplayInit, RunJob!JobInit, Nothing, Case
<1>1. ReplayTypeOK
  BY DEF ReplayTypeOK, RunJob!JobTypeOK, ReplayAttempts
<1>2. DeliveryInv
  BY DEF DeliveryInv
<1>3. CountInv
  BY DEF CountInv, RowsMade
<1>4. FirstInv
  BY DEF FirstInv
<1> QED  BY <1>1, <1>2, <1>3, <1>4 DEF ReplayInv

\* What the invariant says of types, for the prover.
LEMMA ReplayTypes ==
  ASSUME ReplayInv
  PROVE  /\ rthrown \in {0, 1} /\ rstalled \in {0, 1, 2}
         /\ next \in Nat /\ next <= NCases + 1 /\ next > 0 /\ NCases \in Nat \ {0}
         /\ \A v \in Verdict : tally[v] \in Nat /\ totals[v] \in Nat
         /\ \A c \in Case, v \in Verdict : rows[c][v] \in Nat /\ rows[c][v] <= 2
         /\ runFaults \in Nat
BY ReplayAssumption DEF ReplayInv, ReplayTypeOK, RunJob!JobTypeOK, ReplayAttempts

\* Steps that judge nothing and count nothing.
LEMMA CountRests ==
  ASSUME ReplayInv, UNCHANGED <<rows, tally, totals>>,
         rpc' # "idle" => rpc # "idle" /\ next' = next,
         run' = "COMPLETED" => run = "COMPLETED",
         rstalled' \in Nat, \A c \in Case : rstalled' + RowsMade(c)' >= rstalled + RowsMade(c)
  PROVE  CountInv'
<1>1. ASSUME NEW c \in Case, NEW v \in Verdict PROVE rows'[c][v] <= rstalled' + RowsMade(c)'
  <2>1. rows[c][v] <= rstalled + RowsMade(c) /\ rstalled + RowsMade(c) \in Nat
    BY ReplayTypes DEF ReplayInv, CountInv, RowsMade
  <2>2. RowsMade(c)' \in Nat
    BY DEF RowsMade
  <2> QED  BY <2>1, <2>2, <1>1, ReplayTypes
<1>2. rpc' # "idle" => Counted(tally)' = next' - 1
  BY DEF ReplayInv, CountInv, Counted
<1>3. rpc' # "idle" => \A v \in Verdict : tally'[v] > 0 => RowsWith(v)' # {}
  BY DEF ReplayInv, CountInv, RowsWith
<1>4. run' = "COMPLETED" => 
       /\ Counted(totals)' = NCases /\ totals'["error"] < NCases
       /\ \A v \in Verdict : totals'[v] > 0 => RowsWith(v)' # {}
  BY DEF ReplayInv, CountInv, Counted, RowsWith
<1> QED  BY <1>1, <1>2, <1>3, <1>4 DEF CountInv

-----------------------------------------------------------------------------
\* Every step

LEMMA StartRunKeeps == ASSUME ReplayInv, StartRun PROVE ReplayInv'
<1> USE DEF StartRun, replayJob
<1>1. ReplayTypeOK'
  BY DEF ReplayInv, ReplayTypeOK, RunJob!JobTypeOK
<1>2. DeliveryInv'
  BY DEF ReplayInv, DeliveryInv
<1>3. CountInv'
  BY CountRests, ReplayTypes DEF RowsMade
<1>0. rpc = "idle" /\ rjob = "none" /\ run = "none"
  BY DEF ReplayInv, DeliveryInv
<1>4. FirstInv'
  BY <1>0 DEF ReplayInv, FirstInv, OneRow
<1> QED  BY <1>1, <1>2, <1>3, <1>4 DEF ReplayInv

LEMMA EnqueueRunKeeps == ASSUME ReplayInv, EnqueueRun PROVE ReplayInv'
<1> USE ReplayAssumption DEF EnqueueRun, RunFault, RunJob!Add, replayJob
<1>1. ReplayTypeOK'
  BY DEF ReplayInv, ReplayTypeOK, RunJob!JobTypeOK
<1>2. DeliveryInv'
  BY ReplayTypes DEF ReplayInv, DeliveryInv
<1>3. CountInv'
  BY CountRests, ReplayTypes DEF RowsMade, ReplayInv, DeliveryInv
<1>4. FirstInv'
  BY DEF ReplayInv, FirstInv, OneRow, ReplayTypeOK
<1> QED  BY <1>1, <1>2, <1>3, <1>4 DEF ReplayInv

LEMMA TakeRunKeeps == ASSUME ReplayInv, TakeRun PROVE ReplayInv'
<1> USE ReplayAssumption DEF TakeRun, RunJob!Take, Nothing
<1>1. ReplayTypeOK'
  BY ReplayTypes DEF ReplayInv, ReplayTypeOK, RunJob!JobTypeOK
<1>2. DeliveryInv'
  BY ReplayTypes DEF ReplayInv, DeliveryInv
<1>3. CountInv'
  <2>1. \A c \in Case : RowsMade(c)' = RowsMade(c)
    BY DEF ReplayInv, DeliveryInv, RowsMade, Case
  <2>2. \A c \in Case, v \in Verdict : rows'[c][v] <= rstalled' + RowsMade(c)'
    BY <2>1 DEF ReplayInv, CountInv
  <2>3. Counted(tally)' = next' - 1 /\ \A v \in Verdict : tally'[v] = 0
    BY DEF Counted, Verdict
  <2> QED  BY <2>2, <2>3 DEF ReplayInv, CountInv, Counted, RowsWith
<1>4. FirstInv'
  BY DEF ReplayInv, FirstInv, OneRow, ReplayTypeOK
<1> QED  BY <1>1, <1>2, <1>3, <1>4 DEF ReplayInv

LEMMA MarkRunningKeeps == ASSUME ReplayInv, MarkRunning PROVE ReplayInv'
<1> USE DEF MarkRunning, replayJob
<1>1. ReplayTypeOK'
  BY DEF ReplayInv, ReplayTypeOK, RunJob!JobTypeOK
<1>2. DeliveryInv'
  BY DEF ReplayInv, DeliveryInv
<1>3. CountInv'
  BY CountRests, ReplayTypes DEF RowsMade
<1>4. FirstInv'
  BY DEF ReplayInv, FirstInv, OneRow
<1> QED  BY <1>1, <1>2, <1>3, <1>4 DEF ReplayInv

LEMMA JudgeCaseKeeps == ASSUME ReplayInv, NEW v \in Verdict, JudgeCase(v) PROVE ReplayInv'
<1> USE ReplayAssumption DEF JudgeCase, replayJob, Case
<1> PICK n \in Case : n = next
  OBVIOUS
<1>0. /\ rjob = "active" /\ rstalled <= 1
      /\ \A u \in Verdict : rows[n][u] <= rstalled
      /\ RowsMade(n)' = 1 /\ \A c \in Case \ {n} : RowsMade(c)' = RowsMade(c)
  <2>1. rjob = "active" /\ rstalled <= 1
    BY ReplayTypes DEF ReplayInv, DeliveryInv
  <2>2. RowsMade(n) = 0 /\ RowsMade(n)' = 1
    BY ReplayTypes DEF RowsMade
  <2>3. \A u \in Verdict : rows[n][u] <= rstalled
    BY <2>2, ReplayTypes DEF ReplayInv, CountInv
  <2>4. ASSUME NEW c \in Case \ {n} PROVE RowsMade(c)' = RowsMade(c)
    <3>1. (c < next + 1) <=> (c < next)
      BY <2>4, ReplayTypes
    <3> QED  BY <3>1 DEF RowsMade
  <2> QED  BY <2>1, <2>2, <2>3, <2>4
<1>1. /\ \A c \in Case \ {n} : rows'[c] = rows[c]
      /\ \A u \in Verdict : rows'[n][u] = IF u = v THEN rows[n][u] + 1 ELSE rows[n][u]
      /\ \A u \in Verdict : tally'[u] = IF u = v THEN tally[u] + 1 ELSE tally[u]
  BY DEF ReplayInv, ReplayTypeOK
<1>2. Counted(tally)' = Counted(tally) + 1 /\ Counted(tally) = next - 1
  BY <1>1, ReplayTypes DEF Counted, Verdict, ReplayInv, CountInv
<1>3. ReplayTypeOK'
  <2>1. \A u \in Verdict : tally'[u] \in 0 .. NCases
    BY <1>1, <1>2, ReplayTypes DEF Counted, Verdict
  <2>2. tally' \in [Verdict -> 0 .. NCases]
    BY <2>1 DEF ReplayInv, ReplayTypeOK
  <2>3. rows' \in [Case -> [Verdict -> 0 .. 2]]
    BY SMTT(30), <1>0, ReplayTypes DEF ReplayInv, ReplayTypeOK
  <2> QED  BY SMTT(30), <2>2, <2>3, ReplayTypes DEF ReplayInv, ReplayTypeOK, RunJob!JobTypeOK
<1>4. DeliveryInv'
  BY DEF ReplayInv, DeliveryInv
<1>5. CountInv'
  <2>1. ASSUME NEW c \in Case, NEW u \in Verdict PROVE rows'[c][u] <= rstalled' + RowsMade(c)'
    <3>1. CASE c = n
      <4>1. rows'[n][u] <= rows[n][u] + 1 /\ rows'[n][u] \in Nat
        BY <1>1, ReplayTypes
      <4> QED  BY <4>1, <3>1, <1>0, ReplayTypes
    <3>2. CASE c # n
      BY <3>2, <1>0, <1>1 DEF ReplayInv, CountInv
    <3> QED  BY <3>1, <3>2
  <2>2. \A u \in Verdict : RowsWith(u) \subseteq RowsWith(u)'
    BY <1>1, ReplayTypes DEF RowsWith
  <2>3. n \in RowsWith(v)'
    BY <1>1, ReplayTypes DEF RowsWith
  <2>4. Counted(tally)' = next' - 1
    BY <1>2, ReplayTypes
  <2>5. ASSUME NEW u \in Verdict, tally'[u] > 0 PROVE RowsWith(u)' # {}
    <3>1. CASE u = v
      BY <3>1, <2>3
    <3>2. CASE u # v
      BY <3>2, <2>2, <2>5, <1>1, <1>0 DEF ReplayInv, CountInv
    <3> QED  BY <3>1, <3>2
  <2>6. run' = "COMPLETED" =>
          /\ Counted(totals)' = NCases /\ totals'["error"] < NCases
          /\ \A u \in Verdict : totals'[u] > 0 => RowsWith(u)' # {}
    BY <2>2 DEF ReplayInv, CountInv, Counted
  <2> QED  BY <2>1, <2>4, <2>5, <2>6 DEF CountInv
<1>6. FirstInv'
  <2> SUFFICES ASSUME rstalled = 0 PROVE FirstInv'
    BY DEF FirstInv
  <2>1. rows[n] = Nothing /\ \A c \in Case : c < next => OneRow(c)
    BY ReplayTypes DEF ReplayInv, FirstInv
  <2>2. OneRow(n)'
    <3>1. rows'[n] = [rows[n] EXCEPT ![v] = @ + 1]
      BY DEF ReplayInv, ReplayTypeOK
    <3>2. rows'[n] = [Nothing EXCEPT ![v] = 1]
      BY <3>1, <2>1 DEF Nothing
    <3> QED  BY <3>2 DEF OneRow
  <2>3. ASSUME NEW c \in Case, c < next PROVE OneRow(c)'
    <3>1. c # n
      BY <2>3, ReplayTypes
    <3>2. rows'[c] = rows[c]
      BY <3>1, <1>1
    <3> QED  BY <3>2, <2>1, <2>3 DEF OneRow
  <2>4. ASSUME NEW c \in Case PROVE IF c < next' THEN OneRow(c)' ELSE rows'[c] = Nothing
    <3>1. CASE c < next
      BY <3>1, <2>3, ReplayTypes
    <3>2. CASE c = n
      BY <3>2, <2>2, ReplayTypes
    <3>3. CASE c > next
      <4>1. ~(c < next) /\ ~(c < next') /\ c # n
        BY <3>3, ReplayTypes
      <4>2. rows[c] = Nothing
        BY <4>1 DEF ReplayInv, FirstInv
      <4> QED  BY <4>1, <4>2, <1>1
    <3> QED  BY <3>1, <3>2, <3>3, ReplayTypes
  <2> QED  BY <2>4, <1>0 DEF ReplayInv, FirstInv
<1> QED  BY <1>3, <1>4, <1>5, <1>6 DEF ReplayInv

LEMMA WriteTotalsKeeps == ASSUME ReplayInv, WriteTotals PROVE ReplayInv'
<1> USE ReplayAssumption DEF WriteTotals, replayJob, Outcome
<1>0. next = NCases + 1
  BY ReplayTypes
<1>1. ReplayTypeOK'
  BY DEF ReplayInv, ReplayTypeOK, RunJob!JobTypeOK
<1>2. DeliveryInv'
  BY <1>0 DEF ReplayInv, DeliveryInv
<1>3. CountInv'
  <2>1. \A c \in Case : RowsMade(c)' = RowsMade(c)
    BY DEF RowsMade
  <2>2. \A c \in Case, v \in Verdict : rows'[c][v] <= rstalled' + RowsMade(c)'
    BY <2>1 DEF ReplayInv, CountInv
  <2>3. Counted(tally)' = next' - 1 /\ Counted(totals)' = NCases
    BY <1>0 DEF Counted, ReplayInv, CountInv
  <2>4. tally["error"] # NCases => tally["error"] < NCases
    BY DEF ReplayInv, ReplayTypeOK, Verdict
  <2>5. \A v \in Verdict : tally'[v] > 0 => RowsWith(v)' # {}
    BY DEF ReplayInv, CountInv, RowsWith
  <2> QED  BY <2>2, <2>3, <2>4, <2>5 DEF CountInv
<1>4. FirstInv'
  BY <1>0 DEF ReplayInv, FirstInv, OneRow
<1> QED  BY <1>1, <1>2, <1>3, <1>4 DEF ReplayInv

LEMMA ReportRunKeeps == ASSUME ReplayInv, ReportRun PROVE ReplayInv'
<1> USE ReplayAssumption DEF ReportRun, RunJob!Complete
<1>1. ReplayTypeOK'
  BY DEF ReplayInv, ReplayTypeOK, RunJob!JobTypeOK
<1>2. DeliveryInv'
  BY DEF ReplayInv, DeliveryInv
<1>3. CountInv'
  BY CountRests, ReplayTypes DEF RowsMade
<1>4. FirstInv'
  BY DEF ReplayInv, FirstInv, OneRow
<1> QED  BY <1>1, <1>2, <1>3, <1>4 DEF ReplayInv

LEMMA RunBreaksKeeps == ASSUME ReplayInv, RunBreaks PROVE ReplayInv'
<1> USE ReplayAssumption DEF RunBreaks, RunFault, replayJob
<1>1. ReplayTypeOK'
  BY DEF ReplayInv, ReplayTypeOK, RunJob!JobTypeOK
<1>2. DeliveryInv'
  BY ReplayTypes DEF ReplayInv, DeliveryInv
<1>3. CountInv'
  BY CountRests, ReplayTypes DEF RowsMade
<1>4. FirstInv'
  BY ReplayTypes DEF ReplayInv, FirstInv, OneRow
<1> QED  BY <1>1, <1>2, <1>3, <1>4 DEF ReplayInv

LEMMA MarkRunFailedKeeps == ASSUME ReplayInv, MarkRunFailed PROVE ReplayInv'
<1> USE ReplayAssumption DEF MarkRunFailed, RunJob!Throw, RunFault, ReplayAttempts
<1>0. /\ rthrown = 0 /\ rthrown' = 1 /\ rjob' = "failed" /\ rstalled <= 1
      /\ runFaults > 0 /\ runFaults' > 0 /\ runFaults' \in 0 .. MaxRunFaults
  BY ReplayTypes DEF ReplayInv, DeliveryInv, ReplayTypeOK
<1>1. ReplayTypeOK'
  BY <1>0 DEF ReplayInv, ReplayTypeOK, RunJob!JobTypeOK
<1>2. DeliveryInv'
  BY <1>0 DEF ReplayInv, DeliveryInv
<1>3. CountInv'
  BY <1>0, CountRests, ReplayTypes DEF RowsMade
<1>4. FirstInv'
  BY <1>0 DEF ReplayInv, FirstInv, OneRow
<1> QED  BY <1>1, <1>2, <1>3, <1>4 DEF ReplayInv

LEMMA PromoteKeeps == ASSUME ReplayInv, Promote PROVE ReplayInv'
<1> USE DEF Promote, replayJob
<1>1. ReplayTypeOK'
  BY DEF ReplayInv, ReplayTypeOK, RunJob!JobTypeOK, Summary
<1>2. DeliveryInv'
  BY DEF ReplayInv, DeliveryInv
<1>3. CountInv'
  BY CountRests, ReplayTypes DEF RowsMade
<1>4. FirstInv'
  BY DEF ReplayInv, FirstInv, OneRow
<1> QED  BY <1>1, <1>2, <1>3, <1>4 DEF ReplayInv

LEMMA RunIsCutOffKeeps == ASSUME ReplayInv, RunIsCutOff PROVE ReplayInv'
<1> USE DEF RunIsCutOff
<1>1. CASE rpc = "idle"
  <2> USE <1>1 DEF replayJob
  <2>1. ReplayTypeOK' /\ DeliveryInv'
    BY DEF ReplayInv, ReplayTypeOK, RunJob!JobTypeOK, DeliveryInv
  <2>2. CountInv'
    BY CountRests, ReplayTypes DEF RowsMade
  <2>3. FirstInv'
    BY DEF ReplayInv, FirstInv, OneRow
  <2> QED  BY <2>1, <2>2, <2>3 DEF ReplayInv
<1>2. CASE rpc # "idle"
  <2> USE <1>2 DEF RunJob!Stall
  <2>1. rstalled \in {0, 1} /\ rstalled' = rstalled + 1 /\ rthrown = 0 /\ rthrown' = 0
    BY ReplayTypes DEF ReplayInv, DeliveryInv
  <2>2. ReplayTypeOK'
    BY <2>1 DEF ReplayInv, ReplayTypeOK, RunJob!JobTypeOK
  <2>3. DeliveryInv'
    BY <2>1 DEF ReplayInv, DeliveryInv
  <2>4. CountInv'
    BY <2>1, CountRests, ReplayTypes DEF RowsMade
  <2>5. FirstInv'
    BY <2>1 DEF FirstInv
  <2> QED  BY <2>2, <2>3, <2>4, <2>5 DEF ReplayInv
<1> QED  BY <1>1, <1>2

LEMMA ReplayStep == ReplayInv /\ [ReplayNext \/ RunIsCutOff]_replayVars => ReplayInv'
<1> SUFFICES ASSUME ReplayInv, [ReplayNext \/ RunIsCutOff]_replayVars PROVE ReplayInv'
  OBVIOUS
<1>1. CASE UNCHANGED replayVars
  BY <1>1 DEF replayVars, replayJob, ReplayInv, ReplayTypeOK, RunJob!JobTypeOK, DeliveryInv, CountInv,
              FirstInv, RowsMade, Counted, OneRow, RowsWith
<1> QED
  BY <1>1, StartRunKeeps, EnqueueRunKeeps, TakeRunKeeps, MarkRunningKeeps, JudgeCaseKeeps,
     WriteTotalsKeeps, ReportRunKeeps, RunBreaksKeeps, MarkRunFailedKeeps, PromoteKeeps,
     RunIsCutOffKeeps DEF ReplayNext, RunWorks

-----------------------------------------------------------------------------

\* The run, its rows and its job stay within their types.
THEOREM ReplayTypeCorrect == ReplaySpec => []ReplayTypeOK
<1>1. ReplayInv => ReplayTypeOK
  BY DEF ReplayInv
<1> QED  BY <1>1, ReplayStarts, ReplayStep, PTL DEF ReplaySpec

LEMMA ReplayTells == ReplayInv => CompletedIsCounted /\ EvidenceStands
<1> SUFFICES ASSUME ReplayInv PROVE CompletedIsCounted /\ EvidenceStands
  OBVIOUS
<1>1. CompletedIsCounted
  <2> SUFFICES ASSUME run = "COMPLETED" PROVE CompletedIsCounted
    BY DEF CompletedIsCounted
  <2>1. rstalled = 0 => \A c \in Case : OneRow(c)
    BY ReplayAssumption DEF ReplayInv, FirstInv, Case
  <2> QED  BY <2>1 DEF ReplayInv, CountInv, Counted, CompletedIsCounted, OneRow
<1>2. EvidenceStands
  BY DEF ReplayInv, FirstInv, EvidenceStands
<1> QED  BY <1>1, <1>2

\* However often the worker dies and calls fail, a COMPLETED run counts every
\* case, and no verdict without its row; with one delivery, a row per case.
THEOREM CompletedRunsAreCounted == ReplaySpec => []CompletedIsCounted
<1> QED  BY ReplayTells, ReplayStarts, ReplayStep, PTL DEF ReplaySpec

\* The evidence of a promotion stays what was cited.
THEOREM CitedEvidenceStands == ReplaySpec => []EvidenceStands
<1> QED  BY ReplayTells, ReplayStarts, ReplayStep, PTL DEF ReplaySpec

-----------------------------------------------------------------------------
\* The MCP connectors

\* Where each call may stand.
Place(o) ==
  \/ o = Idle
  \/ o.do \in Doing /\ o.at = "act"
  \/ o.do = "restart" /\ o.at = "pause"
  \/ o.do \in {"start", "restart", "invoke"} /\ o.at = "await"
  \/ o.do = "invoke" /\ o.at = "use"
  \/ o.do \in {"start", "stop", "restart", "delete"} /\ o.at = "write"
  \/ o.do \in {"start", "restart"} /\ o.at = "fail"

\* A call awaits the one client it started.
AwaitInv ==
  /\ \A k \in Call : Place(op[k])
  /\ \A c \in connecting : starter[c] # None => op[starter[c]].at = "await"
  /\ \A c, d \in connecting : starter[c] = starter[d] /\ starter[c] # None => c = d

Bringing == \E k \in Call : op[k].do \in {"start", "restart"} /\ op[k].at \in {"await", "write", "fail"}

Alone == ~overlap => \A j, k \in Call : op[j] # Idle /\ op[k] # Idle => j = k

\* Calls that do not meet, and no timer: who stops the client leaves none.
DownInv ==
  ~(revived \/ overlap \/ crashes > 0) =>
    /\ \A k \in Call : op[k].at = "write" /\ op[k].do \in {"stop", "delete"} => mine = 0
    /\ row = "gone" => mine = 0 /\ \A k \in Call : op[k] = Idle
    /\ row = "INACTIVE" /\ ~quarantined => mine = 0 \/ Bringing
    /\ \A k \in Call : op[k].do = "invoke" /\ ~quarantined => row = "ACTIVE"

LifeInv == LifeTypeOK /\ AwaitInv /\ ServersAreOwned /\ Alone /\ DownInv

-----------------------------------------------------------------------------

LEMMA LifeStarts == LifeInit => LifeInv
<1> SUFFICES ASSUME LifeInit PROVE LifeInv
  OBVIOUS
<1> USE LifecycleAssumption DEF LifeInit
<1>1. LifeTypeOK
  <2>1. op \in [Call -> Op] /\ starter \in [Client -> Call \cup {None}] /\ connecting \subseteq Client
    BY DEF Op
  <2>2. made \in 0 .. MaxClients /\ mine \in 0 .. made /\ restarts \in 0 .. MaxRestarts + 1
        /\ timers \in 0 .. MaxTimers /\ calls \in 0 .. MaxCalls
    OBVIOUS
  <2>3. replaced \in BOOLEAN /\ revived \in BOOLEAN /\ quarantined \in BOOLEAN /\ overlap \in BOOLEAN
    OBVIOUS
  <2>4. /\ status \in [Client -> {"none", "connecting", "connected", "error", "disconnected"}]
        /\ server \in [Client -> {"none", "up", "ending", "down"}]
        /\ row \in {"PENDING", "ACTIVE", "INACTIVE", "ERROR", "gone"} /\ crashes \in 0 .. 1
    OBVIOUS
  <2> QED  BY <2>1, <2>2, <2>3, <2>4 DEF LifeTypeOK
<1>2. AwaitInv /\ Alone
  BY DEF AwaitInv, Alone, Place
<1>3. ServersAreOwned
  BY DEF ServersAreOwned
<1>4. DownInv
  BY DEF DownInv, Idle
<1> QED  BY <1>1, <1>2, <1>3, <1>4 DEF LifeInv

\* What the invariant says of types, for the prover.
LEMMA LifeTypes ==
  ASSUME LifeInv
  PROVE  /\ made \in Nat /\ mine \in Nat /\ mine <= made /\ made <= MaxClients /\ crashes \in Nat
         /\ restarts \in Nat /\ restarts <= MaxRestarts + 1 /\ timers \in Nat /\ timers <= MaxTimers
         /\ mine # 0 => mine \in Client
         /\ op \in [Call -> Op] /\ starter \in [Client -> Call \cup {None}] /\ connecting \subseteq Client
         /\ status \in [Client -> {"none", "connecting", "connected", "error", "disconnected"}]
         /\ server \in [Client -> {"none", "up", "ending", "down"}]
BY LifecycleAssumption DEF LifeInv, LifeTypeOK, Client

LEMMA IdleAt == Idle.at = "idle" /\ Idle.do = "none" /\ Place(Idle) /\ Idle \in Op
BY DEF Idle, Place, Op

\* A step that leaves the calls and their clients where they are.
LEMMA CallsRest ==
  ASSUME LifeInv, UNCHANGED <<op, overlap>>, connecting' \subseteq connecting,
         \A c \in connecting' : starter'[c] = starter[c]
  PROVE  AwaitInv' /\ Alone'
BY DEF LifeInv, AwaitInv, Alone, Place, Idle

\* A call moves on, or ends.
LEMMA CallMoves ==
  ASSUME LifeInv, NEW k \in Call, NEW o \in Op, Place(o), op' = [op EXCEPT ![k] = o],
         overlap' = overlap, op[k] # Idle
  PROVE  /\ op' \in [Call -> Op] /\ \A j \in Call : Place(op'[j]) /\ Alone'
<1>1. \A j \in Call : op'[j] = IF j = k THEN o ELSE op[j]
  BY LifeTypes
<1>2. op' \in [Call -> Op]
  BY LifeTypes
<1>3. \A j \in Call : Place(op'[j])
  BY <1>1 DEF LifeInv, AwaitInv
<1>4. Alone'
  <2> SUFFICES ASSUME ~overlap PROVE \A i, j \in Call : op'[i] # Idle /\ op'[j] # Idle => i = j
    BY DEF Alone, Idle
  <2>1. \A j \in Call : j # k => op[j] = Idle
    BY DEF LifeInv, Alone
  <2> QED  BY <1>1, <2>1
<1> QED  BY <1>2, <1>3, <1>4

\* A call that moves and awaits nothing.
LEMMA CallLeaves ==
  ASSUME LifeInv, NEW k \in Call, NEW o \in Op, Place(o), op' = [op EXCEPT ![k] = o],
         overlap' = overlap, op[k] # Idle, 
         connecting' \subseteq connecting, \A c \in connecting' : starter[c] # k,
         starter' = starter
  PROVE  /\ op' \in [Call -> Op] /\ AwaitInv' /\ Alone'
<1>1. \A c \in connecting' : starter[c] # None => op'[starter[c]] = op[starter[c]]
  BY LifeTypes
<1>2. /\ \A c \in connecting' : starter'[c] # None => op'[starter'[c]].at = "await"
      /\ \A c, d \in connecting' : starter'[c] = starter'[d] /\ starter'[c] # None => c = d
  BY <1>1 DEF LifeInv, AwaitInv
<1> QED  BY <1>2, CallMoves DEF AwaitInv, Place, Idle

-----------------------------------------------------------------------------
\* The manager and its servers

LEMMA ClientsRest ==
  ASSUME LifeInv, UNCHANGED <<clientVars, server>>, replaced => replaced', crashes' = crashes
  PROVE  ServersAreOwned'
BY DEF LifeInv, ServersAreOwned, clientVars

\* A server is added, in the place of one that runs or not.
LEMMA SpawnKeeps ==
  ASSUME LifeInv, NEW k \in Call \cup {None}, Spawn(k), crashes' = crashes
  PROVE  /\ made' \in 0 .. MaxClients /\ mine' \in 0 .. made' /\ mine' # 0 /\ made' \in Client
         /\ status' \in [Client -> {"none", "connecting", "connected", "error", "disconnected"}]
         /\ connecting' = connecting \cup {made'} /\ connecting' \subseteq Client
         /\ starter' \in [Client -> Call \cup {None}] /\ starter'[made'] = k
         /\ \A c \in Client : c # made' => starter'[c] = starter[c]
         /\ server' \in [Client -> {"none", "up", "ending", "down"}]
         /\ replaced' \in BOOLEAN
         /\ ServersAreOwned'
<1> USE DEF Spawn
<1>1. /\ made' = made + 1 /\ mine' = made' /\ made' \in Client /\ made' # 0
      /\ made' \in 0 .. MaxClients /\ mine' \in 0 .. made'
  BY LifeTypes, LifecycleAssumption DEF Client
<1>2. /\ status' \in [Client -> {"none", "connecting", "connected", "error", "disconnected"}]
      /\ starter' \in [Client -> Call \cup {None}] /\ starter'[made'] = k
      /\ \A c \in Client : c # made' => starter'[c] = starter[c]
      /\ server' \in [Client -> {"none", "up", "ending", "down"}]
  BY <1>1, LifeTypes
<1>3. connecting' = connecting \cup {made'} /\ connecting' \subseteq Client
  BY <1>1, LifeTypes
<1>4. replaced' \in BOOLEAN
  BY DEF LifeInv, LifeTypeOK
<1>5. ServersAreOwned'
  <2> SUFFICES ASSUME NEW c \in Client, server'[c] = "up", c # mine' PROVE replaced' \/ crashes' > 0
    BY DEF ServersAreOwned
  <2>1. server[c] = "up"
    BY <1>1, LifeTypes
  <2>2. CASE c = mine
    <3>1. mine # 0
      BY <2>2, LifecycleAssumption DEF Client
    <3> QED  BY <2>1, <2>2, <3>1
  <2>3. CASE c # mine
    BY <2>1, <2>3 DEF LifeInv, ServersAreOwned
  <2> QED  BY <2>2, <2>3
<1> QED  BY <1>1, <1>2, <1>3, <1>4, <1>5

LEMMA ConnectsKeeps == ASSUME LifeInv, NEW c \in Client, Connects(c) PROVE LifeInv'
<1> USE DEF Connects
<1>1. CASE starter[c] = None
  <2>1. AwaitInv' /\ Alone'
    BY <1>1, CallsRest
  <2>2. LifeTypeOK'
    BY <1>1, LifecycleAssumption DEF LifeInv, LifeTypeOK
  <2>3. ServersAreOwned' /\ DownInv'
    BY <1>1 DEF LifeInv, ServersAreOwned, DownInv, Bringing
  <2> QED  BY <2>1, <2>2, <2>3 DEF LifeInv
<1>2. CASE starter[c] # None
  <2> DEFINE k == starter[c]
             o == [op[k] EXCEPT !.at = IF op[k].do = "invoke" THEN "use" ELSE "write"]
  <2>1. k \in Call /\ op[k].at = "await" /\ op[k].do \in {"start", "restart", "invoke"}
    BY <1>2, LifeTypes DEF LifeInv, AwaitInv, Place, Idle
  <2>2. op' = [op EXCEPT ![k] = o]
    BY <1>2, <2>1
  <2>3. op[k] \in [do : Doing, at : {"act", "pause", "await", "use", "write", "fail"}] /\ op[k] # Idle
    BY <2>1, LifeTypes DEF Op, Idle
  <2>4. o.do = op[k].do /\ o.at = (IF op[k].do = "invoke" THEN "use" ELSE "write") /\ o \in Op
    BY <2>1, <2>3 DEF Op
  <2>10. Place(o)
    BY <2>1, <2>4 DEF Place
  <2>5. \A d \in connecting' : starter[d] # k
    BY <1>2 DEF LifeInv, AwaitInv
  <2> HIDE DEF o
  <2>6. op' \in [Call -> Op] /\ AwaitInv' /\ Alone'
    <3> HIDE DEF k
    <3> QED  BY <2>1, <2>2, <2>3, <2>4, <2>5, <2>10, CallLeaves
  <2>7. LifeTypeOK'
    BY <2>6, LifecycleAssumption DEF LifeInv, LifeTypeOK
  <2>8. ServersAreOwned'
    BY DEF LifeInv, ServersAreOwned
  <2>9. DownInv'
    <3>1. \A j \in Call : op'[j] = IF j = k THEN o ELSE op[j]
      BY <2>2, LifeTypes
    <3>2. Bringing => Bringing'
      BY <2>1, <2>4, <3>1 DEF Bringing
    <3>3. ~(revived \/ overlap \/ crashes > 0) => row # "gone"
      BY <2>1, <2>3 DEF LifeInv, DownInv
    <3> QED  BY <2>1, <2>4, <3>1, <3>2, <3>3 DEF LifeInv, DownInv
  <2> QED  BY <2>6, <2>7, <2>8, <2>9 DEF LifeInv
<1> QED  BY <1>1, <1>2

LEMMA SameRecord ==
  ASSUME NEW D, NEW A, NEW r \in [do : D, at : A], NEW q \in [do : D, at : A], r.do = q.do, r.at = q.at
  PROVE  r = q
OBVIOUS

LEMMA GivesUpKeeps == ASSUME LifeInv, NEW c \in Client, GivesUp(c) PROVE LifeInv'
<1> USE DEF GivesUp, Unanswered
<1> PICK k \in Call : k = starter[c]
  BY LifeTypes
<1> DEFINE o == [op[k] EXCEPT !.at = IF op[k].do = "invoke" THEN "idle" ELSE "fail",
                    !.do = IF @ = "invoke" THEN "none" ELSE @]
<1>1. op[k].at = "await" /\ op[k].do \in {"start", "restart", "invoke"}
  BY LifeTypes DEF LifeInv, AwaitInv, Place, Idle
<1>2. op[k] \in [do : Doing, at : {"act", "pause", "await", "use", "write", "fail"}] /\ op[k] # Idle
  BY <1>1, LifeTypes DEF Op, Idle
<1>3. op' = [op EXCEPT ![k] = o]
  BY <1>1, <1>2, LifeTypes
<1>4. o = IF op[k].do = "invoke" THEN Idle ELSE [do |-> op[k].do, at |-> "fail"]
  <2> DEFINE A == {"idle", "act", "pause", "await", "use", "write", "fail"}
             D == Doing \cup {"none"}
  <2>1. op[k] \in [do : D, at : A]
    BY <1>2
  <2>2. o \in [do : D, at : A]
    BY <2>1
  <2>3. /\ o.do = IF op[k].do = "invoke" THEN "none" ELSE op[k].do
        /\ o.at = IF op[k].do = "invoke" THEN "idle" ELSE "fail"
    BY <2>1
  <2>4. (IF op[k].do = "invoke" THEN Idle ELSE [do |-> op[k].do, at |-> "fail"]) \in [do : D, at : A]
    BY <1>1, <1>2 DEF Idle
  <2> HIDE DEF A, D, o
  <2> QED  BY <2>2, <2>3, <2>4, SameRecord DEF Idle
<1> HIDE DEF o
<1>5. o \in Op /\ Place(o)
  BY <1>1, <1>2, <1>4, IdleAt DEF Place, Op
<1>6. \A d \in connecting' : starter[d] # k
  BY DEF LifeInv, AwaitInv
<1>11. IF op[k].do = "invoke" THEN o = Idle ELSE o.do = op[k].do /\ o.at = "fail"
  BY <1>4
<1>12. op' = [op EXCEPT ![k] = o] /\ \A j \in Call : op'[j] = IF j = k THEN o ELSE op[j]
  BY <1>3, LifeTypes
<1>7. op' \in [Call -> Op] /\ AwaitInv' /\ Alone'
  BY <1>1, <1>2, <1>3, <1>5, <1>6, CallLeaves
<1>8. LifeTypeOK'
  BY <1>7 DEF LifeInv, LifeTypeOK
<1>9. ServersAreOwned'
  BY SMTT(30) DEF LifeInv, ServersAreOwned
<1>10. DownInv'
  <2>2. ~(revived \/ overlap \/ crashes > 0) /\ row = "INACTIVE" /\ ~quarantined => Bringing'
    <3>1. SUFFICES ASSUME ~(revived \/ overlap \/ crashes > 0), row = "INACTIVE", ~quarantined PROVE Bringing'
      OBVIOUS
    <3>2. op[k].do \in {"start", "restart"}
      BY <1>1, <3>1 DEF LifeInv, DownInv
    <3>3. op'[k].do \in {"start", "restart"} /\ op'[k].at = "fail"
      BY <1>11, <1>12, <3>2
    <3> QED  BY <3>3 DEF Bringing
  <2>3. ~(revived \/ overlap \/ crashes > 0) => row # "gone"
    BY <1>1, <1>2 DEF LifeInv, DownInv
  <2>4. \A j \in Call : op'[j].at # "write" \/ op'[j] = op[j]
    BY <1>11, <1>12, IdleAt
  <2>5. \A j \in Call : op'[j].do # "invoke" \/ op'[j] = op[j]
    BY <1>1, <1>11, <1>12, IdleAt
  <2> QED  BY <2>2, <2>3, <2>4, <2>5 DEF LifeInv, DownInv
<1> QED  BY <1>7, <1>8, <1>9, <1>10 DEF LifeInv

LEMMA ApiCrashesKeeps == ASSUME LifeInv, NEW c \in Client, ApiCrashes(c) PROVE LifeInv'
<1> USE DEF ApiCrashes
<1>1. LifeTypeOK'
  BY LifeTypes, LifecycleAssumption DEF LifeInv, LifeTypeOK, Op
<1>2. AwaitInv' /\ Alone'
  BY DEF AwaitInv, Alone, Place
<1>3. ServersAreOwned' /\ DownInv'
  BY DEF ServersAreOwned, DownInv
<1> QED  BY <1>1, <1>2, <1>3 DEF LifeInv

LEMMA ClosesKeeps == ASSUME LifeInv, NEW c \in Client, NEW code, Closes(c, code) PROVE LifeInv'
<1> USE DEF Closes
<1>1. restarts' \in 0 .. MaxRestarts + 1 /\ timers' \in 0 .. MaxTimers
  BY LifeTypes, LifecycleAssumption DEF Arms
<1>2. LifeTypeOK'
  BY <1>1 DEF LifeInv, LifeTypeOK
<1>3. AwaitInv' /\ Alone'
  BY CallsRest
<1>4. ServersAreOwned'
  BY LifeTypes DEF LifeInv, ServersAreOwned
<1>5. DownInv'
  BY DEF LifeInv, DownInv, Bringing
<1> QED  BY <1>2, <1>3, <1>4, <1>5 DEF LifeInv

LEMMA TimerFiresKeeps == ASSUME LifeInv, TimerFires PROVE LifeInv'
<1> USE DEF TimerFires
<1>0. timers' \in 0 .. MaxTimers /\ revived' \in BOOLEAN
  BY LifeTypes, LifecycleAssumption DEF LifeInv, LifeTypeOK
<1>1. CASE Connected
  <2> USE <1>1 DEF clientVars
  <2>1. LifeTypeOK'
    BY <1>0 DEF LifeInv, LifeTypeOK
  <2>2. AwaitInv' /\ Alone'
    BY CallsRest
  <2>3. ServersAreOwned' /\ DownInv'
    BY ClientsRest DEF LifeInv, DownInv, Bringing
  <2> QED  BY <2>1, <2>2, <2>3 DEF LifeInv
<1>2. CASE ~Connected
  <2>1. Spawn(None)
    BY <1>2
  <2>2. LifeTypeOK'
    BY <1>0, <2>1, SpawnKeeps DEF LifeInv, LifeTypeOK, Spawn
  <2>3. AwaitInv' /\ Alone'
    <3>1. \A d \in connecting' : starter'[d] # None => d \in connecting /\ starter'[d] = starter[d]
      BY <2>1, SpawnKeeps
    <3> QED  BY <3>1 DEF LifeInv, AwaitInv, Alone, Place, Idle
  <2>4. ServersAreOwned'
    BY <2>1, SpawnKeeps
  <2>5. DownInv'
    BY DEF LifeInv, DownInv, Bringing
  <2> QED  BY <2>2, <2>3, <2>4, <2>5 DEF LifeInv
<1> QED  BY <1>1, <1>2

-----------------------------------------------------------------------------
\* The calls

LEMMA BeginKeeps == ASSUME LifeInv, NEW k \in Call, NEW do \in Doing, Begin(k, do) PROVE LifeInv'
<1> USE DEF Begin, At, clientVars
<1> DEFINE o == [do |-> do, at |-> "act"]
<1>1. /\ o # Idle /\ o.do = do /\ o.at = "act" /\ Place(o) /\ o \in Op
      /\ op' = [op EXCEPT ![k] = o]
      /\ op[k].at = "idle"
  BY IdleAt DEF Idle, Place, Op
<1> HIDE DEF o
<1>2. \A j \in Call : op'[j] = IF j = k THEN o ELSE op[j]
  BY <1>1, LifeTypes
<1>3. calls' \in 0 .. MaxCalls /\ op' \in [Call -> Op]
  BY <1>1, LifeTypes, LifecycleAssumption DEF LifeInv, LifeTypeOK
<1>4. overlap' \in BOOLEAN
  BY DEF LifeInv, LifeTypeOK
<1>5. LifeTypeOK'
  BY <1>3, <1>4 DEF LifeInv, LifeTypeOK
<1>6. AwaitInv'
  <2>1. \A j \in Call : Place(op'[j])
    BY <1>1, <1>2 DEF LifeInv, AwaitInv
  <2>2. \A c \in connecting : starter[c] # None => op'[starter[c]].at = "await"
    BY <1>1, <1>2, LifeTypes DEF LifeInv, AwaitInv
  <2> QED  BY <2>1, <2>2 DEF LifeInv, AwaitInv, Place, Idle
<1>7. Alone' /\ (~overlap' => \A j \in Call : op[j] = Idle)
  BY <1>2 DEF Alone, Idle
<1>8. ServersAreOwned'
  BY ClientsRest
<1>9. DownInv'
  <2> SUFFICES ASSUME ~(revived \/ overlap' \/ crashes > 0) PROVE DownInv'
    BY DEF DownInv
  <2>1. ~overlap /\ ~Bringing
    BY <1>7, IdleAt DEF Bringing
  <2>2. \A j \in Call : op'[j].at = "write" => FALSE
    BY <1>1, <1>2, <1>7, IdleAt
  <2>3. \A j \in Call : op'[j].do = "invoke" => row = "ACTIVE"
    BY <1>1, <1>2, <1>7, IdleAt
  <2> QED  BY <2>1, <2>2, <2>3 DEF LifeInv, DownInv
<1> QED  BY <1>5, <1>6, <1>7, <1>8, <1>9 DEF LifeInv

LEMMA StartNowKeeps == ASSUME LifeInv, NEW k \in Call, StartNow(k) PROVE LifeInv'
<1> USE DEF StartNow, At
<1>0. /\ op[k] # Idle /\ op[k].do \in {"start", "invoke", "restart"} /\ op[k].at \in {"act", "pause"}
      /\ \A c \in connecting : starter[c] # k
  BY LifecycleAssumption DEF LifeInv, AwaitInv, Place
<1>1. CASE Connected
  <2> DEFINE o == [do |-> op[k].do, at |-> Then(k)]
  <2>1. o \in Op /\ Place(o) /\ o.do = op[k].do /\ o.at = (IF op[k].do = "invoke" THEN "use" ELSE "write")
    BY <1>0 DEF Place, Then, Op, Doing
  <2>2. op' = [op EXCEPT ![k] = o] /\ UNCHANGED <<clientVars, server, replaced>>
    BY <1>1
  <2> HIDE DEF o
  <2>3. op' \in [Call -> Op] /\ AwaitInv' /\ Alone'
    BY <1>0, <2>1, <2>2, CallLeaves DEF clientVars
  <2>4. LifeTypeOK'
    BY <2>2, <2>3 DEF LifeInv, LifeTypeOK, clientVars
  <2>5. ServersAreOwned'
    BY <2>2, ClientsRest
  <2>6. \A j \in Call : op'[j] = IF j = k THEN o ELSE op[j]
    BY <2>2, LifeTypes
  <2>7. DownInv'
    BY <1>0, <2>1, <2>2, <2>6 DEF LifeInv, DownInv, Bringing, clientVars
  <2> QED  BY <2>3, <2>4, <2>5, <2>7 DEF LifeInv
<1>2. CASE ~Connected
  <2> DEFINE o == [do |-> op[k].do, at |-> "await"]
  <2>1. o \in Op /\ Place(o) /\ o.do = op[k].do /\ o.at = "await"
    BY <1>0 DEF Place, Op, Doing
  <2>2. op' = [op EXCEPT ![k] = o] /\ Spawn(k)
    BY <1>2
  <2> HIDE DEF o
  <2>3. op' \in [Call -> Op] /\ (\A j \in Call : Place(op'[j])) /\ Alone'
    BY <1>0, <2>1, <2>2, CallMoves
  <2>4. \A j \in Call : op'[j] = IF j = k THEN o ELSE op[j]
    BY <2>2, LifeTypes
  <2>5. AwaitInv'
    <3>1. \A c \in connecting' : IF c = made' THEN starter'[c] = k
                                 ELSE c \in connecting /\ starter'[c] = starter[c]
      BY <2>2, SpawnKeeps
    <3>2. ASSUME NEW c \in connecting', starter'[c] # None PROVE op'[starter'[c]].at = "await"
      BY <1>0, <2>1, <2>4, <3>1, <3>2, LifeTypes DEF LifeInv, AwaitInv
    <3>3. \A c, d \in connecting' : starter'[c] = starter'[d] /\ starter'[c] # None => c = d
      BY <1>0, <3>1 DEF LifeInv, AwaitInv
    <3> QED  BY <2>3, <3>2, <3>3 DEF AwaitInv, Place, Idle
  <2>6. LifeTypeOK'
    BY <2>2, <2>3, SpawnKeeps DEF LifeInv, LifeTypeOK, Spawn
  <2>7. ServersAreOwned'
    BY <2>2, SpawnKeeps
  <2>8. DownInv'
    <3> SUFFICES ASSUME ~(revived \/ overlap \/ crashes > 0) PROVE DownInv'
      BY DEF DownInv
    <3>1. \A j \in Call : j # k => op[j] = Idle
      BY <1>0 DEF LifeInv, Alone
    <3>2. row # "gone" /\ (op[k].do = "invoke" /\ ~quarantined => row = "ACTIVE")
      BY <1>0 DEF LifeInv, DownInv
    <3>3. op[k].do # "invoke" => Bringing'
      BY <1>0, <2>1, <2>4 DEF Bringing
    <3>4. \A j \in Call : op'[j].at # "write" /\ (op'[j].do = "invoke" => op[k].do = "invoke")
      BY <2>1, <2>4, <3>1, IdleAt
    <3> QED  BY <3>2, <3>3, <3>4 DEF DownInv
  <2> QED  BY <2>3, <2>5, <2>6, <2>7, <2>8 DEF LifeInv
<1> QED  BY <1>1, <1>2

LEMMA StopNowKeeps == ASSUME LifeInv, NEW k \in Call, StopNow(k) PROVE LifeInv'
<1> USE DEF StopNow, At
<1> DEFINE o == [do |-> op[k].do, at |-> IF op[k].do = "restart" THEN "pause" ELSE "write"]
<1>1. /\ o \in Op /\ Place(o) /\ o.do = op[k].do /\ o.at \in {"pause", "write"} /\ op[k] # Idle
      /\ op' = [op EXCEPT ![k] = o]
  BY IdleAt DEF Place, Op, Doing
<1> HIDE DEF o
<1>2. /\ mine' = 0 /\ UNCHANGED <<made, connecting, starter>>
      /\ restarts' \in 0 .. MaxRestarts + 1
      /\ status' \in [Client -> {"none", "connecting", "connected", "error", "disconnected"}]
      /\ server' \in [Client -> {"none", "up", "ending", "down"}]
      /\ \A c \in Client : server'[c] = "up" => server[c] = "up" /\ c # mine
  <2>1. CASE mine = 0
    BY <2>1, LifeTypes, LifecycleAssumption DEF StopClient, clientVars, Client
  <2>2. CASE mine # 0
    BY <2>2, LifeTypes, LifecycleAssumption DEF StopClient
  <2> QED  BY <2>1, <2>2
<1>3. op' \in [Call -> Op] /\ AwaitInv' /\ Alone'
  <2>1. \A c \in connecting : starter[c] # k
    BY LifecycleAssumption DEF LifeInv, AwaitInv
  <2> QED  BY <1>1, <1>2, <2>1, CallLeaves
<1>4. LifeTypeOK'
  BY <1>2, <1>3, LifeTypes DEF LifeInv, LifeTypeOK
<1>5. ServersAreOwned'
  BY <1>2 DEF LifeInv, ServersAreOwned
<1>6. DownInv'
  <2>1. \A j \in Call : op'[j] = IF j = k THEN o ELSE op[j]
    BY <1>1, LifeTypes
  <2> QED  BY <1>1, <1>2, <2>1 DEF LifeInv, DownInv
<1> QED  BY <1>3, <1>4, <1>5, <1>6 DEF LifeInv

\* A call ends, and may write the row.
LEMMA EndKeeps ==
  ASSUME LifeInv, NEW k \in Call, op[k].at \in {"act", "use", "write", "fail"},
         op' = [op EXCEPT ![k] = Idle],
         row' \in {row, "PENDING", "ACTIVE", "INACTIVE", "ERROR", "gone"},
         row = "gone" => row' = "gone",
         UNCHANGED <<clientVars, server, timers, calls, crashes, replaced, revived, quarantined, overlap>>,
         row' = row /\ row = "INACTIVE" => op[k].do \notin {"start", "restart"},
         row' # row /\ row' \in {"INACTIVE", "gone"} => op[k].do \in {"stop", "delete"} /\ op[k].at = "write"
  PROVE  LifeInv'
<1>1. op[k] # Idle
  BY IdleAt
<1>2. \A c \in connecting : starter[c] # k
  BY LifecycleAssumption DEF LifeInv, AwaitInv
<1>3. op' \in [Call -> Op] /\ AwaitInv' /\ Alone'
  BY <1>1, <1>2, IdleAt, CallLeaves DEF clientVars
<1>4. LifeTypeOK'
  BY <1>3 DEF LifeInv, LifeTypeOK, clientVars
<1>5. ServersAreOwned'
  BY ClientsRest
<1>6. DownInv'
  <2> SUFFICES ASSUME ~(revived \/ overlap \/ crashes > 0) PROVE DownInv'
    BY DEF DownInv
  <2>1. \A j \in Call : op'[j] = Idle
    BY <1>1, LifeTypes DEF LifeInv, Alone
  <2>2. row # "gone"
    BY <1>1 DEF LifeInv, DownInv
  <2>3. op[k].do \in {"stop", "delete"} /\ op[k].at = "write" => mine = 0
    BY DEF LifeInv, DownInv
  <2>4. Bringing => op[k].do \in {"start", "restart"}
    BY <1>1, IdleAt DEF LifeInv, Alone, Bringing
  <2>5. row' = "INACTIVE" /\ ~quarantined => mine = 0
    BY <2>3, <2>4 DEF LifeInv, DownInv
  <2>6. row' = "gone" => mine = 0
    BY <2>2, <2>3
  <2> QED  BY <2>1, <2>5, <2>6, IdleAt DEF DownInv, clientVars
<1> QED  BY <1>3, <1>4, <1>5, <1>6 DEF LifeInv

LEMMA CallStepKeeps == ASSUME LifeInv, NEW k \in Call, CallStep(k) PROVE LifeInv'
<1>1. ASSUME NEW healthy \in BOOLEAN, CheckHealth(k, healthy) PROVE LifeInv'
  BY <1>1, EndKeeps DEF CheckHealth
<1>2. CASE ToolAnswers(k)
  <2>1. op[k].do = "invoke"
    BY <1>2, IdleAt DEF ToolAnswers, LifeInv, AwaitInv, Place
  <2> QED  BY <1>2, <2>1, EndKeeps DEF ToolAnswers
<1>3. CASE WriteRow(k)
  <2>1. /\ op[k].at = "write" => op[k].do \in {"start", "stop", "restart", "delete"}
        /\ op[k].at = "fail" => op[k].do \in {"start", "restart"}
        /\ op[k] # Idle
    BY <1>3, IdleAt DEF WriteRow, LifeInv, AwaitInv, Place
  <2>2. op[k].at = "write" => Written(op[k].do) = IF op[k].do = "stop" THEN "INACTIVE"
                                ELSE IF op[k].do = "delete" THEN "gone" ELSE "ACTIVE"
    BY <2>1 DEF Written
  <2>3. CASE row = "gone"
    <3>1. row' = row /\ op[k].at \in {"write", "fail"}
      BY <1>3, <2>3 DEF WriteRow
    <3> QED  BY <1>3, <2>1, <2>3, <3>1, EndKeeps DEF WriteRow
  <2>4. CASE row # "gone"
    <3>1. row' = IF op[k].at = "fail" THEN "ERROR" ELSE IF op[k].do = "stop" THEN "INACTIVE"
                                ELSE IF op[k].do = "delete" THEN "gone" ELSE "ACTIVE"
      BY <1>3, <2>2, <2>4 DEF WriteRow
    <3> QED  BY <1>3, <2>1, <2>4, <3>1, EndKeeps DEF WriteRow
  <2> QED  BY <2>3, <2>4
<1> QED  BY <1>1, <1>2, <1>3, StartNowKeeps, StopNowKeeps DEF CallStep

LEMMA QuarantineKeeps == ASSUME LifeInv, Quarantine PROVE LifeInv'
<1> USE DEF Quarantine
<1>1. LifeTypeOK'
  BY DEF LifeInv, LifeTypeOK, clientVars
<1>2. AwaitInv' /\ Alone'
  BY CallsRest DEF clientVars
<1>3. ServersAreOwned' /\ DownInv'
  BY ClientsRest DEF LifeInv, DownInv, clientVars
<1> QED  BY <1>1, <1>2, <1>3 DEF LifeInv

LEMMA LifeStep == LifeInv /\ [LifeNext]_lifeVars => LifeInv'
<1> SUFFICES ASSUME LifeInv, [LifeNext]_lifeVars PROVE LifeInv'
  OBVIOUS
<1>1. CASE UNCHANGED lifeVars
  <2> USE <1>1 DEF lifeVars, clientVars
  <2>1. AwaitInv' /\ Alone'
    BY CallsRest
  <2>2. LifeTypeOK'
    BY DEF LifeInv, LifeTypeOK
  <2>3. ServersAreOwned' /\ DownInv'
    BY ClientsRest DEF LifeInv, DownInv, Bringing
  <2> QED  BY <2>1, <2>2, <2>3 DEF LifeInv
<1>2. ASSUME NEW c \in Client, Settles(c) \/ ApiCrashes(c) \/ Closes(c, 0) \/ Closes(c, 1) PROVE LifeInv'
  BY <1>2, ConnectsKeeps, GivesUpKeeps, ApiCrashesKeeps, ClosesKeeps DEF Settles
<1>3. ASSUME NEW k \in Call, CallStep(k) \/ \E do \in Doing : Begin(k, do) PROVE LifeInv'
  BY <1>3, CallStepKeeps, BeginKeeps
<1> QED  BY <1>1, <1>2, <1>3, TimerFiresKeeps, QuarantineKeeps DEF LifeNext

\* However servers close, restart and time out, one that runs is that of the
\* client in the map, but for a start that replaced one and a dead API.
THEOREM ServersHaveOwners == LifeSpec => []ServersAreOwned
<1>1. LifeInv => ServersAreOwned
  BY DEF LifeInv
<1> QED  BY <1>1, LifeStarts, LifeStep, PTL DEF LifeSpec

\* A connector that was stopped or deleted has no client, for any number of
\* calls, clients and restarts.
THEOREM StoppedHasNoClient == LifeSpec => []StoppedStaysDown
<1>1. LifeInv => StoppedStaysDown
  BY IdleAt DEF LifeInv, DownInv, Bringing, StoppedStaysDown
<1> QED  BY <1>1, LifeStarts, LifeStep, PTL DEF LifeSpec

\* What the calls, the clients and the servers may be, whatever happens to them.
THEOREM LifeTypeCorrect == LifeSpec => []LifeTypeOK
<1>1. LifeInv => LifeTypeOK
  BY DEF LifeInv
<1> QED  BY <1>1, LifeStarts, LifeStep, PTL DEF LifeSpec

-----------------------------------------------------------------------------
\* The draft of the builder

\* The nodes e were those of version v of the row: each change makes a version,
\* and a publish, of which alone the page may conclude, keeps the nodes.
Right(v, e) ==
  v # 0 =>
    /\ v <= version
    /\ v = version => e = edit
    /\ publishing.at = "answer" /\ publishing.version = version /\ v + 1 = version => e = edit

SeenInv ==
  /\ publishing.at = "answer" => publishing.version > 1 /\ publishing.version <= version
  /\ page.blind \/ Right(page.knows, page.base)
  /\ \A r \in arriving : Right(r.version, r.edit)
  /\ saving.at = "search" => ~saving.linked
  /\ saving.at = "check" /\ saving.linked /\ ~saving.blind => Right(saving.expects, saving.from)
  /\ saving.at = "write" /\ saving.linked /\ ~saving.blind /\ ~saving.crossed => edit = saving.from
  /\ saving.at = "answer" => Right(saving.expects, saving.sends)

\* The calls of a page that makes one at a time, while no other page writes.
QuietInv ==
  ~trouble =>
    /\ ~removed
    /\ saving.at # "idle" => publishing.at = "idle" /\ ~asked /\ arriving = {}
    /\ publishing.at # "idle" => ~asked /\ arriving = {}
    /\ page.knows # 0 /\ saving.at # "answer" /\ publishing.at # "answer" => page.knows = version
    /\ saving.at \in {"check", "write"} => saving.expects = version /\ version # 0
    /\ saving.at = "answer" => saving.expects = version
    /\ publishing.at = "answer" => publishing.version = version
    /\ saving.at = "create" => version = 0
    /\ saving.at = "failed" => ~keyed
    /\ \A r \in arriving : r.version = version

DraftInv == DraftTypeOK /\ SeenInv /\ OverwritesAreSeen /\ QuietInv /\ LocalHasCause

-----------------------------------------------------------------------------

SaveSteps == {"idle", "search", "check", "write", "create", "answer", "failed"}

LEMMA DraftStarts == DraftInit => DraftInv
<1> SUFFICES ASSUME DraftInit PROVE DraftInv
  OBVIOUS
<1> USE DraftAssumption DEF DraftInit, NoSave, NoPublish
<1>1. DraftTypeOK
  <2>1. /\ version \in 0 .. MaxVersion /\ edit \in 0 .. MaxEdits /\ edits \in 0 .. MaxEdits
        /\ losses \in 0 .. MaxLosses
    OBVIOUS
  <2>2. /\ removed \in BOOLEAN /\ keyed \in BOOLEAN /\ url \in BOOLEAN /\ asked \in BOOLEAN
        /\ trouble \in BOOLEAN /\ stored \in BOOLEAN /\ unseen \in BOOLEAN
    OBVIOUS
  <2> QED  BY <2>1, <2>2 DEF DraftTypeOK
<1>2. SeenInv
  BY DEF SeenInv, Right
<1>3. QuietInv
  BY DEF QuietInv
<1> QED  BY <1>1, <1>2, <1>3 DEF DraftInv, OverwritesAreSeen, LocalHasCause

\* What the invariant says of types, for the prover.
LEMMA DraftTypes ==
  ASSUME DraftInv
  PROVE  /\ version \in Nat /\ version <= MaxVersion /\ edit \in 0 .. MaxEdits /\ edits \in Nat /\ edits <= MaxEdits
         /\ MaxVersion \in Nat \ {0} /\ MaxEdits \in Nat \ {0} /\ MaxLosses \in Nat
         /\ page \in [knows : Nat, shows : Nat, base : Nat, blind : BOOLEAN]
         /\ page.knows <= MaxVersion /\ page.shows <= MaxEdits /\ page.base <= MaxEdits
         /\ saving \in [at : SaveSteps, sends : Nat, from : Nat, expects : Nat,
                        linked : BOOLEAN, blind : BOOLEAN, crossed : BOOLEAN]
         /\ saving.sends <= MaxEdits /\ saving.from <= MaxEdits /\ saving.expects <= MaxVersion
         /\ publishing \in [at : {"idle", "asked", "answer"}, version : Nat]
         /\ publishing.version <= MaxVersion
         /\ \A r \in arriving : r.version \in Nat /\ r.version <= MaxVersion /\ r.edit \in 0 .. MaxEdits
         /\ losses \in Nat
BY DraftAssumption DEF DraftInv, DraftTypeOK, SaveSteps

\* What was right stays so while the row does, and in the versions that follow.
LEMMA RightStays ==
  ASSUME DraftInv, UNCHANGED <<version, edit>>,
         publishing'.at = "answer" => publishing' = publishing
  PROVE  \A e : \A v \in Nat : Right(v, e) => Right(v, e)'
BY DEF Right

LEMMA RightAges ==
  ASSUME DraftInv, version' = version + 1,
         publishing'.at = "answer" /\ publishing'.version = version' => edit' = edit
  PROVE  \A e : \A v \in Nat : Right(v, e) => Right(v, e)'
BY DraftTypes DEF Right

LEMMA RightNow == ASSUME DraftInv PROVE Right(version, edit)
BY DraftTypes DEF Right

LEMMA CrossedIs ==
  ASSUME DraftInv
  PROVE  Crossed(saving) = [at |-> saving.at, sends |-> saving.sends, from |-> saving.from,
                            expects |-> saving.expects, linked |-> saving.linked, blind |-> saving.blind,
                            crossed |-> saving.crossed \/ saving.at = "write"]
BY DraftTypes DEF Crossed

-----------------------------------------------------------------------------
\* The user and the loading

LEMMA MakeEditKeeps == ASSUME DraftInv, MakeEdit PROVE DraftInv'
<1> USE DEF MakeEdit, rowVars, loadVars, historyVars
<1>1. /\ page' \in [knows : Nat, shows : Nat, base : Nat, blind : BOOLEAN] /\ page'.shows = edits + 1
      /\ page'.knows = page.knows /\ page'.base = page.base /\ page'.blind = page.blind
  BY DraftTypes
<1>2. DraftTypeOK'
  <2>1. edits' \in 0 .. MaxEdits
    BY DraftTypes
  <2>2. page' \in [knows : 0 .. MaxVersion, shows : 0 .. MaxEdits, base : 0 .. MaxEdits, blind : BOOLEAN]
    BY <2>1 DEF DraftInv, DraftTypeOK
  <2> QED  BY <2>1, <2>2 DEF DraftInv, DraftTypeOK
<1>3. SeenInv'
  BY <1>1 DEF DraftInv, SeenInv, Right
<1>4. QuietInv'
  BY <1>1 DEF DraftInv, QuietInv
<1> QED  BY <1>2, <1>3, <1>4 DEF DraftInv, OverwritesAreSeen, LocalHasCause

LEMMA ClearKeeps == ASSUME DraftInv, Clear PROVE DraftInv'
<1>1. /\ page' \in [knows : 0 .. MaxVersion, shows : 0 .. MaxEdits, base : 0 .. MaxEdits, blind : BOOLEAN]
      /\ page'.knows = page.knows /\ page'.blind = (page.knows # 0)
  <2>1. ASSUME NEW b \in BOOLEAN, page' = [page EXCEPT !.shows = 0, !.base = 0, !.blind = b]
        PROVE  /\ page' \in [knows : 0 .. MaxVersion, shows : 0 .. MaxEdits, base : 0 .. MaxEdits, blind : BOOLEAN]
               /\ page'.knows = page.knows /\ page'.blind = b
    <3>1. page' = [knows |-> page.knows, shows |-> 0, base |-> 0, blind |-> b]
      BY <2>1, DraftTypes
    <3> HIDE <2>1
    <3> QED  BY <3>1, DraftTypes
  <2>2. page' = [page EXCEPT !.shows = 0, !.base = 0, !.blind = (page.knows # 0)] /\ (page.knows # 0) \in BOOLEAN
    BY Zenon DEF Clear
  <2> QED  BY <2>1, <2>2, Zenon
<1> USE DEF Clear, rowVars, historyVars
<1>2. DraftTypeOK'
  <2>1. url' \in BOOLEAN
    OBVIOUS
  <2> QED  BY <1>1, <2>1 DEF DraftInv, DraftTypeOK
<1>3. SeenInv'
  BY <1>1 DEF DraftInv, SeenInv, Right
<1>4. QuietInv'
  BY <1>1 DEF DraftInv, QuietInv
<1> QED  BY <1>2, <1>3, <1>4 DEF DraftInv, OverwritesAreSeen, LocalHasCause

LEMMA RemountKeeps == ASSUME DraftInv, Remount PROVE DraftInv'
<1>1. /\ page' \in [knows : 0 .. MaxVersion, shows : 0 .. MaxEdits, base : 0 .. MaxEdits, blind : BOOLEAN]
      /\ page'.knows = 0
  <2>1. CASE page' = [knows |-> 0, shows |-> 0, base |-> 0, blind |-> FALSE]
    BY <2>1, DraftTypes
  <2>2. CASE page' = [page EXCEPT !.knows = 0, !.blind = FALSE]
    <3>1. page' = [knows |-> 0, shows |-> page.shows, base |-> page.base, blind |-> FALSE]
      BY <2>2, DraftTypes
    <3> QED  BY <3>1, DraftTypes
  <2> QED  BY <2>1, <2>2, Zenon DEF Remount
<1> USE DEF Remount, rowVars, historyVars
<1>2. DraftTypeOK'
  BY <1>1 DEF DraftInv, DraftTypeOK
<1>3. SeenInv'
  BY <1>1 DEF DraftInv, SeenInv, Right
<1>4. QuietInv'
  BY <1>1 DEF DraftInv, QuietInv, Calling
<1> QED  BY <1>2, <1>3, <1>4 DEF DraftInv, OverwritesAreSeen, LocalHasCause

LEMMA ReadWorkflowKeeps == ASSUME DraftInv, ReadWorkflow PROVE DraftInv'
<1> USE DEF ReadWorkflow, rowVars, historyVars
<1>1. DraftTypeOK'
  <2>1. arriving' \subseteq [version : 0 .. MaxVersion, edit : 0 .. MaxEdits]
    BY DEF DraftInv, DraftTypeOK
  <2>2. asked' \in BOOLEAN
    OBVIOUS
  <2> QED  BY <2>1, <2>2 DEF DraftInv, DraftTypeOK
<1>2. \A r \in arriving' : r \in arriving \/ (r.version = version /\ r.edit = edit)
  OBVIOUS
<1>3. SeenInv'
  BY <1>2, RightNow DEF DraftInv, SeenInv, Right
<1>4. QuietInv'
  BY <1>2 DEF DraftInv, QuietInv
<1> QED  BY <1>1, <1>3, <1>4 DEF DraftInv, OverwritesAreSeen, LocalHasCause

LEMMA ShowWorkflowKeeps == ASSUME DraftInv, ShowWorkflow PROVE DraftInv'
<1> USE DEF ShowWorkflow, rowVars, historyVars
<1> PICK r \in arriving :
      /\ arriving' = arriving \ {r}
      /\ page' = [knows |-> r.version, shows |-> r.edit, base |-> r.edit, blind |-> FALSE]
  OBVIOUS
<1>1. DraftTypeOK'
  BY DraftTypes DEF DraftInv, DraftTypeOK
<1>2. SeenInv'
  BY DEF DraftInv, SeenInv, Right
<1>3. QuietInv'
  BY DEF DraftInv, QuietInv
<1> QED  BY <1>1, <1>2, <1>3 DEF DraftInv, OverwritesAreSeen, LocalHasCause

-----------------------------------------------------------------------------
\* A save

LEMMA SaveKeeps == ASSUME DraftInv, Save PROVE DraftInv'
<1> USE DEF Save, rowVars, loadVars
<1>1. DraftTypeOK'
  <2>1. trouble' \in BOOLEAN
    BY DEF DraftInv, DraftTypeOK
  <2> QED  BY <2>1, DraftTypes DEF DraftInv, DraftTypeOK
<1>2. SeenInv'
  BY DEF DraftInv, SeenInv, Right
<1>3. QuietInv'
  BY DEF DraftInv, QuietInv, Calling
<1> QED  BY <1>1, <1>2, <1>3 DEF DraftInv, OverwritesAreSeen, LocalHasCause

\* A save goes on to another of its steps, with a version it was told.
LEMMA SaveLearns ==
  ASSUME DraftInv, NEW a \in SaveSteps, NEW n \in 0 .. MaxVersion,
         saving' = [saving EXCEPT !.at = a, !.expects = n]
  PROVE  /\ saving'.at = a /\ saving'.expects = n /\ saving'.sends = saving.sends
         /\ saving'.linked = saving.linked
         /\ saving' \in [at : SaveSteps, sends : 0 .. MaxEdits, from : 0 .. MaxEdits, expects : 0 .. MaxVersion,
                         linked : BOOLEAN, blind : BOOLEAN, crossed : BOOLEAN]
BY DraftTypes DEF SaveSteps, DraftInv, DraftTypeOK

LEMMA SearchKeeps == ASSUME DraftInv, Search PROVE DraftInv'
<1>1. /\ saving'.at = (IF Live THEN "check" ELSE "create") /\ saving'.expects = (IF Live THEN version ELSE 0)
      /\ saving'.linked = saving.linked
      /\ saving' \in [at : SaveSteps, sends : 0 .. MaxEdits, from : 0 .. MaxEdits, expects : 0 .. MaxVersion,
                      linked : BOOLEAN, blind : BOOLEAN, crossed : BOOLEAN]
  <2>1. CASE Live
    <3>1. saving' = [saving EXCEPT !.at = "check", !.expects = version] /\ version \in 0 .. MaxVersion
      BY <2>1, DraftTypes DEF Search
    <3> QED  BY <2>1, <3>1, SaveLearns DEF SaveSteps
  <2>2. CASE ~Live
    <3>1. saving' = [saving EXCEPT !.at = "create", !.expects = 0] /\ 0 \in 0 .. MaxVersion
      BY <2>2, DraftTypes DEF Search
    <3> QED  BY <2>2, <3>1, SaveLearns DEF SaveSteps
  <2> QED  BY <2>1, <2>2
<1> USE DEF Search, rowVars, loadVars, historyVars
<1>2. DraftTypeOK'
  BY <1>1 DEF DraftInv, DraftTypeOK, SaveSteps
<1>3. SeenInv'
  BY <1>1 DEF DraftInv, SeenInv, Right
<1>4. QuietInv'
  BY <1>1, DraftTypes DEF DraftInv, QuietInv, Live
<1> QED  BY <1>2, <1>3, <1>4 DEF DraftInv, OverwritesAreSeen, LocalHasCause

\* A save goes on to another of its steps.
LEMMA SaveMoves ==
  ASSUME DraftInv, NEW a \in SaveSteps, saving' = [saving EXCEPT !.at = a]
  PROVE  /\ saving'.at = a /\ saving'.sends = saving.sends /\ saving'.from = saving.from
         /\ saving'.expects = saving.expects /\ saving'.linked = saving.linked
         /\ saving'.blind = saving.blind /\ saving'.crossed = saving.crossed
         /\ saving' \in [at : SaveSteps, sends : 0 .. MaxEdits, from : 0 .. MaxEdits, expects : 0 .. MaxVersion,
                         linked : BOOLEAN, blind : BOOLEAN, crossed : BOOLEAN]
BY DraftTypes DEF DraftInv, DraftTypeOK, SaveSteps

LEMMA CheckVersionKeeps == ASSUME DraftInv, CheckVersion PROVE DraftInv'
<1> USE DEF CheckVersion, rowVars, loadVars, historyVars
<1>1. /\ saving'.at = (IF Passes THEN "write" ELSE "failed")
      /\ saving'.from = saving.from /\ saving'.expects = saving.expects /\ saving'.linked = saving.linked
      /\ saving'.blind = saving.blind
      /\ saving' \in [at : SaveSteps, sends : 0 .. MaxEdits, from : 0 .. MaxEdits, expects : 0 .. MaxVersion,
                      linked : BOOLEAN, blind : BOOLEAN, crossed : BOOLEAN]
  BY SaveMoves DEF SaveSteps
<1>2. DraftTypeOK'
  BY <1>1 DEF DraftInv, DraftTypeOK, SaveSteps
<1>3. SeenInv'
  <2>1. Passes /\ saving.linked /\ ~saving.blind => edit = saving.from
    BY DEF Passes, Live, DraftInv, SeenInv, Right
  <2> QED  BY <1>1, <2>1 DEF DraftInv, SeenInv, Right
<1>4. QuietInv'
  BY <1>1 DEF DraftInv, QuietInv, Passes, Live
<1> QED  BY <1>2, <1>3, <1>4 DEF DraftInv, OverwritesAreSeen, LocalHasCause

LEMMA WriteNodesKeeps == ASSUME DraftInv, WriteNodes PROVE DraftInv'
<1> USE DEF WriteNodes, loadVars
<1>1. version' \in 0 .. MaxVersion /\ edit' \in 0 .. MaxEdits
  BY DraftTypes
<1>2. /\ saving'.at = "answer" /\ saving'.expects = version' /\ saving'.sends = saving.sends
      /\ saving' \in [at : SaveSteps, sends : 0 .. MaxEdits, from : 0 .. MaxEdits, expects : 0 .. MaxVersion,
                      linked : BOOLEAN, blind : BOOLEAN, crossed : BOOLEAN]
  BY <1>1, SaveLearns DEF SaveSteps
<1>3. unseen' = FALSE
  BY DEF DraftInv, SeenInv, OverwritesAreSeen
<1>4. DraftTypeOK'
  BY <1>1, <1>2, <1>3 DEF DraftInv, DraftTypeOK, SaveSteps
<1>5. SeenInv'
  <2>1. publishing.at = "answer" => publishing.version # version' /\ publishing.version <= version'
    BY DraftTypes DEF DraftInv, SeenInv
  <2>2. \A e : \A v \in Nat : Right(v, e) => Right(v, e)'
    BY <2>1, RightAges
  <2>3. page.blind \/ Right(page.knows, page.base)'
    BY <2>2, DraftTypes DEF DraftInv, SeenInv
  <2>4. \A r \in arriving : Right(r.version, r.edit)'
    BY <2>2, DraftTypes DEF DraftInv, SeenInv
  <2>5. Right(saving.expects, saving.sends)'
    BY <1>1, <1>2, <2>1, DraftTypes DEF Right
  <2> QED  BY <1>2, <2>1, <2>3, <2>4, <2>5 DEF DraftInv, SeenInv
<1>6. QuietInv'
  BY <1>2 DEF DraftInv, QuietInv
<1> QED  BY <1>3, <1>4, <1>5, <1>6 DEF DraftInv, OverwritesAreSeen, LocalHasCause

LEMMA CreateKeeps == ASSUME DraftInv, Create PROVE DraftInv'
<1> USE DEF Create, loadVars, historyVars
<1>1. CASE keyed /\ version = 0
  <2>0. version' = version + 1 /\ version' \in 0 .. MaxVersion /\ edit' \in 0 .. MaxEdits
    BY <1>1, DraftTypes
  <2>1. /\ saving'.at = "answer" /\ saving'.expects = version' /\ saving'.sends = saving.sends
        /\ saving' \in [at : SaveSteps, sends : 0 .. MaxEdits, from : 0 .. MaxEdits, expects : 0 .. MaxVersion,
                        linked : BOOLEAN, blind : BOOLEAN, crossed : BOOLEAN]
    BY <1>1, <2>0, SaveLearns DEF SaveSteps
  <2>2. DraftTypeOK'
    BY <2>0, <2>1 DEF DraftInv, DraftTypeOK, SaveSteps
  <2>3. SeenInv'
    <3>1. publishing.at # "answer"
      BY <1>1 DEF DraftInv, SeenInv, DraftTypeOK
    <3>2. \A e : \A v \in Nat : Right(v, e) => Right(v, e)'
      BY <2>0, <3>1, RightAges
    <3>3. page.blind \/ Right(page.knows, page.base)'
      BY <3>2, DraftTypes DEF DraftInv, SeenInv
    <3>4. \A r \in arriving : Right(r.version, r.edit)'
      BY <3>2, DraftTypes DEF DraftInv, SeenInv
    <3>5. Right(saving.expects, saving.sends)'
      BY <1>1, <2>1, <3>1 DEF Right
    <3> QED  BY <2>1, <3>1, <3>3, <3>4, <3>5 DEF DraftInv, SeenInv
  <2>4. QuietInv'
    BY <1>1, <2>1 DEF DraftInv, QuietInv
  <2> QED  BY <2>2, <2>3, <2>4 DEF DraftInv, OverwritesAreSeen, LocalHasCause
<1>2. CASE ~(keyed /\ version = 0)
  <2>1. /\ saving'.at = "failed" /\ UNCHANGED <<version, edit>>
        /\ saving' \in [at : SaveSteps, sends : 0 .. MaxEdits, from : 0 .. MaxEdits, expects : 0 .. MaxVersion,
                        linked : BOOLEAN, blind : BOOLEAN, crossed : BOOLEAN]
    BY <1>2, SaveMoves DEF SaveSteps
  <2>2. DraftTypeOK'
    BY <2>1 DEF DraftInv, DraftTypeOK, SaveSteps
  <2>3. SeenInv'
    BY <2>1 DEF DraftInv, SeenInv, Right
  <2>4. QuietInv'
    BY <1>2, <2>1 DEF DraftInv, QuietInv
  <2> QED  BY <2>2, <2>3, <2>4 DEF DraftInv, OverwritesAreSeen, LocalHasCause
<1> QED  BY <1>1, <1>2

LEMMA SavedKeeps == ASSUME DraftInv, Saved PROVE DraftInv'
<1> USE DEF Saved, rowVars, historyVars, NoSave
<1>1. /\ page'.knows = saving.expects /\ page'.base = saving.sends /\ page'.blind = FALSE
      /\ page' \in [knows : 0 .. MaxVersion, shows : 0 .. MaxEdits, base : 0 .. MaxEdits, blind : BOOLEAN]
  BY DraftTypes DEF Learns, DraftInv, DraftTypeOK
<1>2. asked' \in BOOLEAN /\ url' \in BOOLEAN
  BY DEF DraftInv, DraftTypeOK
<1>3. DraftTypeOK'
  BY <1>1, <1>2, DraftTypes DEF DraftInv, DraftTypeOK
<1>4. SeenInv'
  BY <1>1 DEF DraftInv, SeenInv, Right
<1>5. QuietInv'
  BY <1>1 DEF DraftInv, QuietInv
<1> QED  BY <1>3, <1>4, <1>5 DEF DraftInv, OverwritesAreSeen, LocalHasCause

LEMMA SaveLocallyKeeps == ASSUME DraftInv, SaveLocally PROVE DraftInv'
<1> USE DEF SaveLocally, rowVars, loadVars, NoSave
<1>1. DraftTypeOK'
  BY DraftTypes DEF DraftInv, DraftTypeOK
<1>2. SeenInv'
  BY DEF DraftInv, SeenInv, Right
<1>3. QuietInv' /\ LocalHasCause'
  BY DEF DraftInv, QuietInv, LocalHasCause
<1> QED  BY <1>1, <1>2, <1>3 DEF DraftInv, OverwritesAreSeen

LEMMA LoseCallKeeps == ASSUME DraftInv, LoseCall PROVE DraftInv'
<1> USE DEF LoseCall, rowVars
<1>0. losses' \in 0 .. MaxLosses /\ trouble' = TRUE
  BY DraftTypes
<1>1. CASE /\ saving.at \notin {"idle", "failed"}
           /\ saving' = [saving EXCEPT !.at = IF saving.at = "search" THEN "create" ELSE "failed"]
           /\ UNCHANGED <<publishing, asked>>
  <2>1. /\ saving'.at \in {"create", "failed"}
        /\ saving' \in [at : SaveSteps, sends : 0 .. MaxEdits, from : 0 .. MaxEdits, expects : 0 .. MaxVersion,
                        linked : BOOLEAN, blind : BOOLEAN, crossed : BOOLEAN]
    BY <1>1, SaveMoves DEF SaveSteps
  <2>2. DraftTypeOK'
    BY <1>0, <1>1, <2>1 DEF DraftInv, DraftTypeOK, SaveSteps
  <2>3. SeenInv'
    BY <1>1, <2>1 DEF DraftInv, SeenInv, Right
  <2> QED  BY <1>0, <2>2, <2>3 DEF DraftInv, QuietInv, OverwritesAreSeen, LocalHasCause
<1>2. CASE publishing' = NoPublish /\ UNCHANGED <<saving, asked>>
  <2>1. DraftTypeOK'
    BY <1>0, <1>2, DraftTypes DEF DraftInv, DraftTypeOK, NoPublish
  <2>2. SeenInv'
    BY <1>2 DEF DraftInv, SeenInv, Right, NoPublish
  <2> QED  BY <1>0, <2>1, <2>2 DEF DraftInv, QuietInv, OverwritesAreSeen, LocalHasCause
<1>3. CASE asked' = FALSE /\ UNCHANGED <<saving, publishing>>
  <2>1. DraftTypeOK'
    <3>1. asked' \in BOOLEAN /\ trouble' \in BOOLEAN
      BY <1>0, <1>3
    <3> QED  BY <1>0, <1>3, <3>1 DEF DraftInv, DraftTypeOK
  <2>2. SeenInv'
    BY <1>3 DEF DraftInv, SeenInv, Right
  <2> QED  BY <1>0, <2>1, <2>2 DEF DraftInv, QuietInv, OverwritesAreSeen, LocalHasCause
<1> QED  BY <1>1, <1>2, <1>3

-----------------------------------------------------------------------------
\* A publish

LEMMA AskPublishKeeps == ASSUME DraftInv, AskPublish PROVE DraftInv'
<1> USE DEF AskPublish, rowVars, loadVars
<1>1. publishing' \in [at : {"idle", "asked", "answer"}, version : 0 .. MaxVersion] /\ publishing'.at = "asked"
  BY DraftTypes DEF DraftInv, DraftTypeOK
<1>2. trouble' \in BOOLEAN
  BY DEF DraftInv, DraftTypeOK
<1>3. DraftTypeOK'
  BY <1>1, <1>2 DEF DraftInv, DraftTypeOK
<1>4. SeenInv'
  BY <1>1 DEF DraftInv, SeenInv, Right
<1>5. QuietInv'
  BY <1>1 DEF DraftInv, QuietInv, Calling
<1> QED  BY <1>3, <1>4, <1>5 DEF DraftInv, OverwritesAreSeen, LocalHasCause

\* A version that another call makes, of the same nodes or of others.
LEMMA RowAges ==
  ASSUME DraftInv, version' = version + 1, version < MaxVersion, saving' = Crossed(saving),
         edit' = edit \/ publishing' = publishing,
         publishing' = publishing \/ publishing' = [at |-> "answer", version |-> version + 1],
         UNCHANGED <<page, arriving>>, version = 0 => publishing' = publishing
  PROVE  /\ SeenInv'
         /\ saving'.at = saving.at /\ saving'.expects = saving.expects
         /\ saving' \in [at : SaveSteps, sends : 0 .. MaxEdits, from : 0 .. MaxEdits, expects : 0 .. MaxVersion,
                         linked : BOOLEAN, blind : BOOLEAN, crossed : BOOLEAN]
<1>1. /\ saving'.at = saving.at /\ saving'.sends = saving.sends /\ saving'.from = saving.from
      /\ saving'.expects = saving.expects /\ saving'.linked = saving.linked /\ saving'.blind = saving.blind
      /\ saving'.crossed = (saving.crossed \/ saving.at = "write")
  BY CrossedIs
<1>2. saving' \in [at : SaveSteps, sends : 0 .. MaxEdits, from : 0 .. MaxEdits, expects : 0 .. MaxVersion,
                   linked : BOOLEAN, blind : BOOLEAN, crossed : BOOLEAN]
  <2>1. CASE saving.crossed \/ saving.at = "write"
    <3>1. saving' = [at |-> saving.at, sends |-> saving.sends, from |-> saving.from, expects |-> saving.expects,
                     linked |-> saving.linked, blind |-> saving.blind, crossed |-> TRUE]
      BY <2>1, CrossedIs
    <3> QED  BY <3>1, DraftTypes
  <2>2. CASE ~(saving.crossed \/ saving.at = "write")
    <3>1. saving' = [at |-> saving.at, sends |-> saving.sends, from |-> saving.from, expects |-> saving.expects,
                     linked |-> saving.linked, blind |-> saving.blind, crossed |-> FALSE]
      BY <2>2, CrossedIs
    <3> QED  BY <3>1, DraftTypes
  <2> QED  BY <2>1, <2>2
<1>3. publishing'.at = "answer" => publishing'.version > 1 /\ publishing'.version <= version'
  BY DraftTypes DEF DraftInv, SeenInv
<1>4. publishing'.at = "answer" /\ publishing'.version = version' => edit' = edit
  BY DraftTypes DEF DraftInv, SeenInv
<1>5. \A e : \A v \in Nat : Right(v, e) => Right(v, e)'
  BY <1>4, RightAges
<1>6. page'.blind \/ Right(page.knows, page.base)'
  BY <1>5, DraftTypes DEF DraftInv, SeenInv
<1>7. \A r \in arriving' : Right(r.version, r.edit)'
  BY <1>5, DraftTypes DEF DraftInv, SeenInv
<1>8. saving'.at = "check" /\ saving'.linked /\ ~saving'.blind => Right(saving.expects, saving.from)'
  BY <1>1, <1>5, DraftTypes DEF DraftInv, SeenInv
<1>9. saving'.at = "answer" => Right(saving.expects, saving.sends)'
  BY <1>1, <1>5, DraftTypes DEF DraftInv, SeenInv
<1> QED  BY <1>1, <1>2, <1>3, <1>6, <1>7, <1>8, <1>9 DEF DraftInv, SeenInv

LEMMA WriteVersionKeeps == ASSUME DraftInv, WriteVersion PROVE DraftInv'
<1> USE DEF WriteVersion, loadVars, historyVars
<1>1. CASE Live
  <2>1. /\ SeenInv'
        /\ saving'.at = saving.at /\ saving'.expects = saving.expects
        /\ saving' \in [at : SaveSteps, sends : 0 .. MaxEdits, from : 0 .. MaxEdits, expects : 0 .. MaxVersion,
                         linked : BOOLEAN, blind : BOOLEAN, crossed : BOOLEAN]
    BY <1>1, RowAges DEF Live
  <2>2. DraftTypeOK'
    BY <1>1, <2>1, DraftTypes DEF DraftInv, DraftTypeOK, SaveSteps
  <2>3. QuietInv'
    BY <1>1, <2>1, DraftTypes DEF DraftInv, QuietInv
  <2> QED  BY <2>1, <2>2, <2>3 DEF DraftInv, OverwritesAreSeen, LocalHasCause
<1>2. CASE ~Live
  <2>1. DraftTypeOK'
    BY <1>2, DraftTypes DEF DraftInv, DraftTypeOK, NoPublish
  <2>2. SeenInv'
    BY <1>2 DEF DraftInv, SeenInv, Right, NoPublish
  <2>3. QuietInv'
    BY <1>2 DEF DraftInv, QuietInv, NoPublish
  <2> QED  BY <2>1, <2>2, <2>3 DEF DraftInv, OverwritesAreSeen, LocalHasCause
<1> QED  BY <1>1, <1>2

LEMMA PublishedKeeps == ASSUME DraftInv, Published PROVE DraftInv'
<1> USE DEF Published, rowVars, loadVars, historyVars, NoPublish
<1>1. /\ page'.knows = publishing.version /\ page'.base = page.base
      /\ page'.blind = (page.blind \/ publishing.version # page.knows + 1)
      /\ page' \in [knows : 0 .. MaxVersion, shows : 0 .. MaxEdits, base : 0 .. MaxEdits, blind : BOOLEAN]
  BY DraftTypes DEF DraftInv, DraftTypeOK
<1>2. DraftTypeOK'
  BY <1>1, DraftTypes DEF DraftInv, DraftTypeOK
<1>3. SeenInv'
  <2>1. page'.blind \/ Right(page.knows, page.base)'
    <3> SUFFICES ASSUME ~page'.blind PROVE Right(page.knows, page.base)'
      OBVIOUS
    <3>1. ~page.blind /\ publishing.version = page.knows + 1
      BY <1>1
    <3>2. publishing.version > 1 /\ publishing.version <= version /\ Right(page.knows, page.base)
      BY <3>1 DEF DraftInv, SeenInv
    <3>3. page.knows # 0 /\ (publishing.version = version => page.base = edit)
      BY <3>1, <3>2, DraftTypes DEF Right
    <3> QED  BY <1>1, <3>2, <3>3 DEF Right
  <2> QED  BY <1>1, <2>1 DEF DraftInv, SeenInv, Right
<1>4. QuietInv'
  BY <1>1 DEF DraftInv, QuietInv
<1> QED  BY <1>2, <1>3, <1>4 DEF DraftInv, OverwritesAreSeen, LocalHasCause

-----------------------------------------------------------------------------
\* Other pages

LEMMA OthersKeep == ASSUME DraftInv, OthersSave \/ OthersPublish \/ OthersRemove PROVE DraftInv'
<1>1. CASE OthersSave \/ OthersPublish
  <2> USE <1>1 DEF OthersSave, OthersPublish, loadVars
  <2>1. /\ SeenInv'
        /\ saving' \in [at : SaveSteps, sends : 0 .. MaxEdits, from : 0 .. MaxEdits, expects : 0 .. MaxVersion,
                         linked : BOOLEAN, blind : BOOLEAN, crossed : BOOLEAN]
    BY RowAges
  <2>2. DraftTypeOK'
    <3>1. /\ version' \in 0 .. MaxVersion /\ edit' \in 0 .. MaxEdits /\ edits' \in 0 .. MaxEdits
          /\ UNCHANGED <<removed, keyed, page, publishing, url, asked, arriving, stored, unseen, losses>>
      BY DraftTypes DEF DraftInv, DraftTypeOK
    <3>2. trouble' \in BOOLEAN
      OBVIOUS
    <3> QED  BY <2>1, <3>1, <3>2 DEF DraftInv, DraftTypeOK, SaveSteps
  <2> QED  BY <2>1, <2>2 DEF DraftInv, QuietInv, OverwritesAreSeen, LocalHasCause
<1>2. CASE OthersRemove
  <2> USE <1>2 DEF OthersRemove, loadVars
  <2>1. DraftTypeOK'
    BY DEF DraftInv, DraftTypeOK
  <2>2. SeenInv'
    BY DEF DraftInv, SeenInv, Right
  <2> QED  BY <2>1, <2>2 DEF DraftInv, QuietInv, OverwritesAreSeen, LocalHasCause
<1> QED  BY <1>1, <1>2

LEMMA DraftStep == DraftInv /\ [DraftNext]_draftVars => DraftInv'
<1> SUFFICES ASSUME DraftInv, [DraftNext]_draftVars PROVE DraftInv'
  OBVIOUS
<1>1. CASE UNCHANGED draftVars
  BY <1>1 DEF draftVars, rowVars, loadVars, historyVars, DraftInv, DraftTypeOK, SeenInv, Right, QuietInv,
              OverwritesAreSeen, LocalHasCause
<1> QED
  BY <1>1, MakeEditKeeps, ClearKeeps, RemountKeeps, ReadWorkflowKeeps, ShowWorkflowKeeps, SaveKeeps,
     SearchKeeps, CheckVersionKeeps, WriteNodesKeeps, CreateKeeps, SavedKeeps, SaveLocallyKeeps,
     LoseCallKeeps, AskPublishKeeps, WriteVersionKeeps, PublishedKeeps, OthersKeep DEF DraftNext

\* Whatever other pages do meanwhile, a save of the page replaces nodes that it
\* has shown or sent, but for the cases the property names.
THEOREM SavesReplaceWhatWasSeen == DraftSpec => []OverwritesAreSeen
<1>1. DraftInv => OverwritesAreSeen
  BY DEF DraftInv
<1> QED  BY <1>1, DraftStarts, DraftStep, PTL DEF DraftSpec

\* The browser's storage gets a draft for a reason only.
THEOREM LocalDraftsHaveCause == DraftSpec => []LocalHasCause
<1>1. DraftInv => LocalHasCause
  BY DEF DraftInv
<1> QED  BY <1>1, DraftStarts, DraftStep, PTL DEF DraftSpec

-----------------------------------------------------------------------------
\* An invoice

\* The statuses that the check of each call lets through.
Admits(step) ==
  CASE step = "enter" -> {"none"}
    [] step = "parse" -> {"RECEIVED"}
    [] step = "match" -> {"MATCHING"}
    [] OTHER -> Undecided

\* What a call has read lasts: a parsed invoice stays so, and a matched one.
Checked == \A k \in Clerk :
  /\ clerk[k] = "match" => invoice.parsed
  /\ clerk[k] \in {"approve", "reject"} => invoice.parsed /\ invoice.matched
  /\ clerk[k] # "desk" /\ invoice.status \in Decided => k \in behind

\* The fields that the statuses on the way to a decision go with.
Matched ==
  /\ invoice.status \notin {"none", "RECEIVED"} => invoice.parsed
  /\ invoice.status \notin {"none", "RECEIVED", "MATCHING"} => invoice.matched

\* Those of the decision.
Marked ==
  /\ invoice.status = "APPROVED" => invoice.signed
  /\ overturned = "never" =>
       /\ invoice.signed => invoice.status = "APPROVED"
       /\ invoice.reasoned => invoice.status = "REJECTED"

InvoiceInv == InvoiceTypeOK /\ Checked /\ Matched /\ Marked /\ overturned # "fresh"

LEMMA InvoiceStarts == InvoiceInit => InvoiceInv
<1> SUFFICES ASSUME InvoiceInit PROVE InvoiceInv
  OBVIOUS
<1>1. Unknown \in Row
  BY DEF Unknown, Row, InvoiceStatus
<1>2. InvoiceTypeOK
  <2>1. clerk \in [Clerk -> {"desk"} \cup Step]
    BY <1>1 DEF InvoiceInit
  <2>2. requests \in 0 .. MaxRequests
    BY InvoiceAssumption DEF InvoiceInit
  <2> QED  BY <1>1, <2>1, <2>2 DEF InvoiceInit, InvoiceTypeOK
<1>3. Checked
  BY DEF InvoiceInit, Checked
<1>4. Matched /\ Marked
  BY DEF InvoiceInit, Matched, Marked, Unknown
<1> QED  BY <1>2, <1>3, <1>4 DEF InvoiceInv, InvoiceInit

\* A call that begins changes only its own place.
LEMMA ReadKeeps ==
  ASSUME InvoiceInv, NEW k \in Clerk, NEW step \in Step,
         ReadInvoice(k, step, Admits(step))
  PROVE  InvoiceInv'
<1>1. InvoiceTypeOK'
  BY InvoiceAssumption DEF InvoiceInv, InvoiceTypeOK, Row, ReadInvoice
<1>2. Checked'
  <2>1. /\ step = "match" => invoice.parsed
        /\ step \in {"approve", "reject"} => invoice.parsed /\ invoice.matched
        /\ invoice.status \notin Decided
    BY DEF InvoiceInv, Matched, ReadInvoice, Admits, Undecided, Decided, Step
  <2>2. clerk'[k] = step /\ \A j \in Clerk \ {k} : clerk'[j] = clerk[j]
    BY DEF InvoiceInv, InvoiceTypeOK, ReadInvoice
  <2> QED  BY <2>1, <2>2 DEF InvoiceInv, Checked, ReadInvoice
<1>3. (Matched /\ Marked /\ overturned # "fresh")'
  BY DEF InvoiceInv, ReadInvoice, Matched, Marked
<1> QED  BY <1>1, <1>2, <1>3 DEF InvoiceInv

\* A call that ends leaves the others where they are.
LEMMA RestKeeps ==
  ASSUME InvoiceInv, NEW k \in Clerk, clerk' = [clerk EXCEPT ![k] = "desk"]
  PROVE  /\ clerk' \in [Clerk -> {"desk"} \cup Step]
         /\ clerk'[k] = "desk"
         /\ \A j \in Clerk \ {k} : clerk'[j] = clerk[j]
BY DEF InvoiceInv, InvoiceTypeOK, InvoiceStatus

LEMMA ThrowKeeps ==
  ASSUME InvoiceInv, NEW k \in Clerk, CallThrows(k)
  PROVE  InvoiceInv'
<1>1. InvoiceTypeOK'
  BY RestKeeps DEF InvoiceInv, InvoiceTypeOK, CallThrows
<1>2. Checked'
  BY RestKeeps DEF InvoiceInv, CallThrows, Checked
<1>3. (Matched /\ Marked /\ overturned # "fresh")'
  BY DEF InvoiceInv, CallThrows, Matched, Marked
<1> QED  BY <1>1, <1>2, <1>3 DEF InvoiceInv

\* A write keeps the invariant if it forgets neither what was parsed nor what
\* was matched, and if its marks go with its status.
LEMMA WriteKeeps ==
  ASSUME InvoiceInv, NEW k \in Clerk, NEW step \in Step, NEW new,
         new \in Row,
         WriteInvoice(k, step, new),
         invoice.parsed => new.parsed,
         invoice.matched => new.matched,
         new.status \notin {"none", "RECEIVED"} => new.parsed,
         new.status \notin {"none", "RECEIVED", "MATCHING"} => new.matched,
         new.status = "APPROVED" => new.signed,
         invoice.status \notin Decided /\ ~invoice.signed /\ ~invoice.reasoned =>
           /\ new.signed => new.status = "APPROVED"
           /\ new.reasoned => new.status = "REJECTED"
  PROVE  InvoiceInv'
<1>0. clerk[k] = step /\ step # "desk"
  BY DEF WriteInvoice, Step
<1>1. InvoiceTypeOK'
  BY RestKeeps DEF InvoiceInv, InvoiceTypeOK, WriteInvoice
<1>2. Checked'
  BY RestKeeps DEF InvoiceInv, Checked, WriteInvoice
<1>3. Matched'
  BY DEF Matched, WriteInvoice
<1>4. overturned' # "fresh"
  BY <1>0 DEF InvoiceInv, Checked, WriteInvoice
<1>5. Marked'
  <2>1. CASE overturned' = "never"
    <3>1. invoice.status \notin Decided /\ overturned = "never"
      BY <2>1 DEF WriteInvoice
    <3>2. ~invoice.signed /\ ~invoice.reasoned
      BY <3>1 DEF InvoiceInv, Marked, Decided
    <3> QED  BY <3>1, <3>2 DEF WriteInvoice, Marked
  <2>2. CASE overturned' # "never"
    BY <2>2 DEF WriteInvoice, Marked
  <2> QED  BY <2>1, <2>2
<1> QED  BY <1>1, <1>2, <1>3, <1>4, <1>5 DEF InvoiceInv

LEMMA InvoiceStep == InvoiceInv /\ [InvoiceNext]_invoiceVars => InvoiceInv'
<1> SUFFICES ASSUME InvoiceInv, [InvoiceNext]_invoiceVars PROVE InvoiceInv'
  OBVIOUS
<1> USE DEF Admits, Undecided
<1>0. invoice \in Row /\ Matched
  BY DEF InvoiceInv, InvoiceTypeOK
<1>1. ASSUME NEW k \in Clerk, CreateInvoice(k) PROVE InvoiceInv'
  BY <1>1, ReadKeeps DEF CreateInvoice, Step
<1>2. ASSUME NEW k \in Clerk, InsertInvoice(k) PROVE InvoiceInv'
  BY <1>2, WriteKeeps DEF InsertInvoice, Unknown, Row, Step, InvoiceStatus, Decided
<1>3. ASSUME NEW k \in Clerk, ParseInvoice(k) PROVE InvoiceInv'
  BY <1>3, ReadKeeps DEF ParseInvoice, Step
<1>4. ASSUME NEW k \in Clerk, WriteParsed(k) PROVE InvoiceInv'
  BY <1>0, <1>4, WriteKeeps DEF WriteParsed, Row, Step, InvoiceStatus, Decided
<1>5. ASSUME NEW k \in Clerk, RunMatching(k) PROVE InvoiceInv'
  BY <1>5, ReadKeeps DEF RunMatching, Step
<1>6. ASSUME NEW k \in Clerk, WriteMatched(k) PROVE InvoiceInv'
  <2>1. invoice.parsed
    BY <1>6 DEF InvoiceInv, Checked, WriteMatched, WriteInvoice
  <2> QED  BY <1>0, <1>6, <2>1, WriteKeeps DEF WriteMatched, Row, Step, InvoiceStatus, Decided
<1>7. ASSUME NEW k \in Clerk, Approve(k) \/ Reject(k) PROVE InvoiceInv'
  BY <1>7, ReadKeeps DEF Approve, Reject, Step
<1>8. ASSUME NEW k \in Clerk, WriteApproved(k) PROVE InvoiceInv'
  <2>1. invoice.parsed /\ invoice.matched
    BY <1>8 DEF InvoiceInv, Checked, WriteApproved, WriteInvoice
  <2> QED  BY <1>0, <1>8, <2>1, WriteKeeps DEF WriteApproved, Row, Step, InvoiceStatus, Decided
<1>9. ASSUME NEW k \in Clerk, WriteRejected(k) PROVE InvoiceInv'
  <2>1. PICK given \in BOOLEAN :
          WriteInvoice(k, "reject", [invoice EXCEPT !.status = "REJECTED", !.reasoned = given])
    BY <1>9 DEF WriteRejected
  <2>2. invoice.parsed /\ invoice.matched
    BY <2>1 DEF InvoiceInv, Checked, WriteInvoice
  <2> QED  BY <1>0, <2>1, <2>2, WriteKeeps DEF Row, Step, InvoiceStatus, Decided
<1>10. CASE UNCHANGED invoiceVars
  BY <1>10 DEF InvoiceInv, InvoiceTypeOK, Checked, Matched, Marked, invoiceVars
<1> QED
  BY <1>1, <1>2, <1>3, <1>4, <1>5, <1>6, <1>7, <1>8, <1>9, <1>10, ThrowKeeps DEF InvoiceNext

\* The row and the calls on it stay within their types.
THEOREM InvoiceTypeCorrect == InvoiceSpec => []InvoiceTypeOK
<1>1. InvoiceInv => InvoiceTypeOK
  BY DEF InvoiceInv
<1> QED  BY InvoiceStarts, InvoiceStep, <1>1, PTL DEF InvoiceSpec

\* An invoice is decided after it was parsed and matched, only a call of
\* APAgentService in progress when it was decided can overturn that, and until one
\* does the marks of a decision go with its status.
THEOREM DecisionsStand == InvoiceSpec => []DecisionStands
<1>1. InvoiceInv => DecisionStands
  BY DEF InvoiceInv, Matched, Marked, DecisionStands, Decided
<1> QED  BY InvoiceStarts, InvoiceStep, <1>1, PTL DEF InvoiceSpec

-----------------------------------------------------------------------------
\* All of them

\* Each step of the services is one of a service, with the others at rest.
LEMMA ServicesStep ==
  [Next]_servicesVars =>
    /\ [ReplayNext \/ RunIsCutOff]_replayVars /\ [AutoNext \/ ActionIsCutOff]_autoVars
    /\ [LifeNext]_lifeVars /\ [DraftNext]_draftVars /\ [InvoiceNext]_invoiceVars
    /\ [HarnessNext]_harnessVars /\ [RequestNext]_requestVars
BY DEF Next, InReplay, InActions, InConnector, InDraft, InHarness, InRequest, InInvoice, WorkerDies,
       servicesVars, serviceVars, builderVars

ServicesInv == ReplayInv /\ AutoInv /\ LifeInv /\ DraftInv /\ HarnessInv /\ RequestInv /\ InvoiceInv

\* The service in use stays so, and the worker dies as often as the bound says.
UseInv == busy \in Service /\ deaths \in 0 .. MaxDeaths

LEMMA ServicesStart == Init => ServicesInv /\ UseInv
  BY ReplayStarts, AutoStarts, LifeStarts, DraftStarts, HarnessStarts, RequestStarts, InvoiceStarts,
     ServicesAssumption DEF Init, ServicesInv, UseInv

LEMMA ServicesGoOn == ServicesInv /\ [Next]_servicesVars => ServicesInv'
  BY ServicesStep, ReplayStep, AutoStep, LifeStep, DraftStep, HarnessStep, RequestStep, InvoiceStep
     DEF ServicesInv

LEMMA UseGoesOn == UseInv /\ [Next]_servicesVars => UseInv'
<1>1. ASSUME UseInv, WorkerDies
      PROVE  UseInv'
  BY <1>1, ServicesAssumption DEF UseInv, WorkerDies
<1>2. ASSUME [Next]_servicesVars, ~WorkerDies
      PROVE  busy' = busy /\ deaths' = deaths
  BY <1>2 DEF Next, InReplay, InActions, InConnector, InDraft, InHarness, InRequest, InInvoice, servicesVars
<1> QED  BY <1>1, <1>2 DEF UseInv

\* Every service has its type, whichever is in use.
THEOREM ServicesTypeCorrect == Spec => []TypeOK
<1>1. ServicesInv /\ UseInv => TypeOK
  <2>1. RequestInv => RequestTypeOK
    BY RequestTells
  <2> QED  BY <2>1 DEF ServicesInv, UseInv, ReplayInv, AutoInv, LifeInv, DraftInv, HarnessInv, InvoiceInv, TypeOK
<1> QED  BY <1>1, ServicesStart, ServicesGoOn, UseGoesOn, PTL DEF Spec

=============================================================================
