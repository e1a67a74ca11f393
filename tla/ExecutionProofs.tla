-------------------------- MODULE ExecutionProofs --------------------------
(***************************************************************************)
(* Proofs about the execution runtime, for any sessions, any kill calls,   *)
(* any number of steps and any number of stalls.                           *)
(***************************************************************************)
EXTENDS Execution, TLAPS

\* A session gets its job after its row, and a run exists while its job is
\* active.
QueueInv ==
  \A s \in Session :
    /\ caller[s] # "done" => job[s] = "none"
    /\ caller[s] \in {"idle", "admitted"} <=> status[s] = "absent"
    /\ run[s] # "idle" <=> job[s] = "active"

\* Every delivery but the current one ended in a crash.
DeliveryInv ==
  \A s \in Session :
    /\ job[s] \in {"none", "waiting"} \/ run[s] = "start" =>
         attempt[s] <= crashes[s] /\ crashes[s] <= MaxStalled
    /\ attempt[s] <= crashes[s] + 1
    /\ run[s] \notin {"idle", "dead"} => crashes[s] <= MaxStalled
    /\ run[s] = "dead" => crashes[s] > 0 /\ attempt[s] <= crashes[s]
    /\ run[s] \notin {"idle", "start", "throw", "dead"} => attempt[s] > 0
    /\ job[s] = "removed" => attempt[s] <= crashes[s]
    /\ status[s] \in {"RUNNING", "SUCCEEDED", "FAILED"} => attempt[s] > 0

\* Whoever won the conditional update has a target.
KillInv ==
  \A k \in Killer :
    /\ kpc[k] # "idle" => ktarget[k] \in Session /\ status[ktarget[k]] # "absent"
    /\ kpc[k] \notin {"idle", "cas", "refused"} /\ attempt[ktarget[k]] = 0
         => status[ktarget[k]] = "CANCELLED"
    /\ k \in missed => kpc[k] = "done"

\* Between its start and its end, a delivery cut short by a kill is CANCELLED
\* until it ends, and stands before no further step.
CutInv ==
  \A s \in Session :
    /\ started[s] <= cut[s] + 1
    /\ run[s] = "admit" => started[s] <= cut[s] /\ started[s] < NSteps
    /\ run[s] = "step" => started[s] > 0
    /\ cut[s] < NoCut /\ run[s] \in {"begun", "check", "admit", "step"}
         => status[s] = "CANCELLED"

\* The rows a delivery has behind it have succeeded.
RowsDone(s) ==
  /\ run[s] \in {"check", "admit"} =>
       \A i \in 1 .. started[s] : steps[s][i] = "SUCCEEDED"
  /\ run[s] = "step" =>
       \A i \in 1 .. (started[s] - 1) : steps[s][i] = "SUCCEEDED"
  /\ run[s] = "begun" => started[s] = 0
  /\ status[s] \in {"SUCCEEDED", "FAILED"} => run[s] \notin {"begun", "check", "admit", "step"}

StepInv == \A s \in Session : RowsDone(s)

\* Without a crash, a finished session has no further delivery.
FinishedInv ==
  \A s \in Session : status[s] \in {"SUCCEEDED", "FAILED"} /\ crashes[s] = 0 =>
    /\ run[s] \in {"idle", "report", "catch", "fail", "return", "throw"}
    /\ run[s] = "idle" => job[s] \in {"completed", "failed"}

IInv == TypeOK /\ QueueInv /\ DeliveryInv /\ KillInv /\ CutInv /\ StepInv
          /\ CaughtInQueue /\ SuccessIsComplete /\ FinishedInv

-----------------------------------------------------------------------------

\* Row i of the current delivery of s holds st, the other rows what they held.
RowWritten(s, i, st) ==
  /\ \A r \in Session \ {s} : steps'[r] = steps[r]
  /\ \A j \in 1 .. NSteps :
       steps'[s][j] = IF j = i THEN st ELSE steps[s][j]

\* SetStep writes one row of one session and keeps the others.
LEMMA SetStepEffect ==
  ASSUME TypeOK, NEW s \in Session, NEW i \in 1 .. NSteps, NEW st \in StepStatus,
         SetStep(s, i, st)
  PROVE  /\ steps' \in [Session -> [1 .. NSteps -> StepStatus]]
         /\ RowWritten(s, i, st)
<1>. DEFINE row == [steps[s] EXCEPT ![i] = st]
<1>0. steps[s] \in [1 .. NSteps -> StepStatus]
  BY DEF TypeOK
<1>1. row \in [1 .. NSteps -> StepStatus]
  BY <1>0
<1>2. steps' = [steps EXCEPT ![s] = row]
  BY DEF SetStep
<1>3. /\ steps' \in [Session -> [1 .. NSteps -> StepStatus]]
      /\ steps'[s] = row
      /\ \A r \in Session \ {s} : steps'[r] = steps[r]
  BY <1>1, <1>2 DEF TypeOK
<1>4. \A j \in 1 .. NSteps : row[j] = IF j = i THEN st ELSE steps[s][j]
  BY <1>0
<1>. QED
  BY <1>3, <1>4 DEF RowWritten

\* The row a delivery is about to write exists.
LEMMA RowInRange ==
  ASSUME TypeOK, CutInv, NEW s \in Session
  PROVE  /\ run[s] = "admit" => started[s] + 1 \in 1 .. NSteps
         /\ run[s] = "step" => started[s] \in 1 .. NSteps
<1>1. started[s] \in 0 .. NSteps
  BY DEF TypeOK
<1>2. /\ run[s] = "admit" => started[s] < NSteps
      /\ run[s] = "step" => started[s] > 0
  BY DEF CutInv
<1>. QED
  BY <1>1, <1>2, ExecutionAssumption

LEMMA TypeStep ==
  ASSUME TypeOK, DeliveryInv, KillInv, CutInv, [Next]_vars
  PROVE  TypeOK'
<1>. USE ExecutionAssumption DEF TypeOK, Status, Live, Final, OutputKey, JobState, CallerPc, RunPc, KillPc, StepStatus, NoRows, NoCut
<1>1. ASSUME NEW s \in Session, CreateCheck(s) PROVE TypeOK'
  BY <1>1 DEF CreateCheck, sessionVars, runVars, killVars
<1>2. ASSUME NEW s \in Session, CreateSession(s) PROVE TypeOK'
  BY <1>2 DEF CreateSession, sessionVars, runVars, killVars
<1>3. ASSUME NEW s \in Session, Enqueue(s) PROVE TypeOK'
  BY <1>3 DEF Enqueue, sessionVars, runVars, killVars
<1>4. ASSUME NEW s \in Session, Claim(s) PROVE TypeOK'
  BY <1>4 DEF Claim, sessionVars, runVars, killVars
<1>5. ASSUME NEW s \in Session, Start(s) PROVE TypeOK'
  <2>1. attempt[s] + 1 \in 0 .. (MaxStalled + 1)
    BY <1>5 DEF Start, DeliveryInv
  <2>2. NoCut \in 0 .. NoCut
    OBVIOUS
  <2>. QED
    BY SMTT(30), <1>5, <2>1, <2>2 DEF Start, killVars
<1>6. ASSUME NEW s \in Session, CheckCancelled(s) PROVE TypeOK'
  BY <1>6 DEF CheckCancelled, isCancelled, sessionVars, runVars, killVars
<1>7. ASSUME NEW s \in Session, TimeOut(s) PROVE TypeOK'
  BY <1>7 DEF TimeOut, sessionVars, runVars, killVars
<1>8. ASSUME NEW s \in Session, CreateStep(s) PROVE TypeOK'
  <2>1. run[s] = "admit"
    BY <1>8 DEF CreateStep
  <2>2. started[s] + 1 \in 1 .. NSteps
    BY <2>1, RowInRange
  <2>4. SetStep(s, started[s] + 1, "RUNNING") /\ "RUNNING" \in StepStatus
    BY <1>8 DEF CreateStep
  <2>5. steps' \in [Session -> [1 .. NSteps -> StepStatus]]
    BY <2>2, <2>4, SetStepEffect
  <2>6. started' \in [Session -> 0 .. NSteps]
    BY <1>8, <2>2 DEF CreateStep
  <2>. QED
    BY <1>8, <2>5, <2>6 DEF CreateStep, sessionVars, killVars
<1>9. ASSUME NEW s \in Session, StepSucceeds(s) PROVE TypeOK'
  <2>1. run[s] = "step"
    BY <1>9 DEF StepSucceeds
  <2>2. started[s] \in 1 .. NSteps
    BY <2>1, RowInRange
  <2>4. SetStep(s, started[s], "SUCCEEDED") /\ "SUCCEEDED" \in StepStatus
    BY <1>9 DEF StepSucceeds
  <2>5. steps' \in [Session -> [1 .. NSteps -> StepStatus]]
    BY <2>2, <2>4, SetStepEffect
  <2>. QED
    BY <1>9, <2>2, <2>5 DEF StepSucceeds, sessionVars, killVars
<1>10. ASSUME NEW s \in Session, StepFails(s) PROVE TypeOK'
  <2>1. run[s] = "step"
    BY <1>10 DEF StepFails
  <2>2. started[s] \in 1 .. NSteps
    BY <2>1, RowInRange
  <2>4. SetStep(s, started[s], "FAILED") /\ "FAILED" \in StepStatus
    BY <1>10 DEF StepFails
  <2>5. steps' \in [Session -> [1 .. NSteps -> StepStatus]]
    BY <2>2, <2>4, SetStepEffect
  <2>. QED
    BY <1>10, <2>2, <2>5 DEF StepFails, sessionVars, killVars
<1>11. ASSUME NEW s \in Session, Finish(s) PROVE TypeOK'
  BY <1>11 DEF Finish, sessionVars, runVars, killVars
<1>12. ASSUME NEW s \in Session, CatchRead(s) PROVE TypeOK'
  BY <1>12 DEF CatchRead, sessionVars, runVars, killVars
<1>13. ASSUME NEW s \in Session, markSessionFailed(s) PROVE TypeOK'
  BY <1>13 DEF markSessionFailed, sessionVars, runVars, killVars
<1>14. ASSUME NEW s \in Session, EndJob(s) PROVE TypeOK'
  <2>1. /\ job' = [job EXCEPT ![s] = "completed"] \/ job' = [job EXCEPT ![s] = "failed"]
        /\ strayed' = strayed \/ strayed' = strayed \cup {s}
    BY <1>14 DEF EndJob
  <2>2. job' \in [Session -> JobState] /\ strayed' \subseteq Session
    BY ZenonT(30), <2>1
  <2>3. run' = [run EXCEPT ![s] = "idle"] /\ "idle" \in RunPc
    BY <1>14 DEF EndJob
  <2>4. UNCHANGED <<sessionVars, killVars, steps, attempt, started, caller, crashes, cut>>
    BY <1>14 DEF EndJob
  <2>. QED
    BY <2>2, <2>3, <2>4 DEF sessionVars, killVars
<1>15. ASSUME NEW s \in Session, Crash(s) PROVE TypeOK'
  <2>1. crashes[s] + 1 \in 0 .. (MaxStalled + 1)
    BY <1>15 DEF Crash
  <2>. QED
    BY <1>15, <2>1 DEF Crash, sessionVars, killVars
<1>16. ASSUME NEW s \in Session, RecoverStalled(s) PROVE TypeOK'
  BY <1>16 DEF RecoverStalled, sessionVars, runVars, killVars
<1>17. ASSUME NEW k \in Killer, KillCas(k) PROVE TypeOK'
  <2>1. ktarget[k] \in Session
    BY <1>17 DEF KillCas, KillInv
  <2>2. started[ktarget[k]] \in 0 .. NoCut
    BY <2>1
  <2>3. CASE status[ktarget[k]] \in Live
    <3> DEFINE c == IF cut[ktarget[k]] = NoCut THEN started[ktarget[k]] ELSE cut[ktarget[k]]
    <3>1. c \in 0 .. NoCut
      BY <2>1, <2>2
    <3>2. cut' = [cut EXCEPT ![ktarget[k]] = c]
      BY <1>17, <2>3 DEF KillCas
    <3> HIDE DEF c
    <3>3. cut' \in [Session -> 0 .. NoCut]
      BY <3>1, <3>2
    <3>4. status' \in [Session -> Status] /\ kpc' \in [Killer -> KillPc]
      <4>1. status' = [status EXCEPT ![ktarget[k]] = "CANCELLED"] /\ "CANCELLED" \in Status
        BY <1>17, <2>3 DEF KillCas
      <4>2. kpc' = [kpc EXCEPT ![k] = "merge"] /\ "merge" \in KillPc
        BY <1>17, <2>3 DEF KillCas
      <4>. QED
        BY <4>1, <4>2
    <3>5. UNCHANGED <<output, runVars, job, caller, crashes, ktarget, ksnap, missed, strayed>>
      BY <1>17 DEF KillCas
    <3>. QED
      BY <3>3, <3>4, <3>5 DEF runVars
  <2>4. CASE status[ktarget[k]] \notin Live
    BY ZenonT(30), <1>17, <2>1, <2>2, <2>4 DEF KillCas, runVars
  <2>. QED
    BY <2>3, <2>4
<1>18. ASSUME NEW k \in Killer, KillMerge(k) PROVE TypeOK'
  BY <1>18 DEF KillMerge, sessionVars, runVars, killVars
<1>19. ASSUME NEW k \in Killer, KillGetState(k) PROVE TypeOK'
  BY <1>19 DEF KillGetState, sessionVars, runVars, killVars
<1>20. ASSUME NEW k \in Killer, KillRemove(k) PROVE TypeOK'
  <2>1. job' \in [Session -> JobState]
    <3>1. job' = [job EXCEPT ![ktarget[k]] = "removed"] \/ job' = job
      BY <1>20 DEF KillRemove
    <3>. QED
      BY <3>1 DEF JobState
  <2>2. kpc' = [kpc EXCEPT ![k] = "done"] /\ "done" \in KillPc
    BY <1>20 DEF KillRemove
  <2>3. missed' \subseteq Killer
    <3>1. missed' = missed \/ missed' = missed \cup {k}
      BY <1>20 DEF KillRemove
    <3>. QED
      BY <3>1
  <2>4. UNCHANGED <<sessionVars, runVars, caller, crashes, ktarget, ksnap, cut, strayed>>
    BY <1>20 DEF KillRemove
  <2>. QED
    BY <2>1, <2>2, <2>3, <2>4 DEF sessionVars, runVars
<1>21. ASSUME NEW k \in Killer, KillFlagRead(k) PROVE TypeOK'
  <2>1. output[ktarget[k]] \in SUBSET OutputKey
    BY <1>21 DEF KillFlagRead, KillInv
  <2>. QED
    BY <1>21, <2>1 DEF KillFlagRead, sessionVars, runVars
<1>22. ASSUME NEW k \in Killer, KillFlagWrite(k) PROVE TypeOK'
  BY <1>22 DEF KillFlagWrite, sessionVars, runVars, killVars
<1>23. ASSUME NEW k \in Killer, NEW s \in Session, KillRead(k, s) PROVE TypeOK'
  BY <1>23 DEF KillRead, sessionVars, runVars, killVars
<1>25. ASSUME NEW s \in Session, LoadSession(s) PROVE TypeOK'
  BY <1>25 DEF LoadSession, sessionVars, runVars, killVars
<1>26. ASSUME NEW s \in Session, ReportDone(s) PROVE TypeOK'
  BY <1>26 DEF ReportDone, sessionVars, runVars, killVars
<1>27. ASSUME NEW s \in Session, Throws(s) PROVE TypeOK'
  BY <1>27 DEF Throws, sessionVars, runVars, killVars
<1>28. ASSUME NEW s \in Session, Rejects(s) PROVE TypeOK'
  BY <1>28 DEF Rejects, sessionVars, runVars, killVars
<1>29. ASSUME NEW k \in Killer, KillBreaks(k) PROVE TypeOK'
  BY ZenonT(30), <1>29 DEF KillBreaks, sessionVars, runVars, killVars
<1>24. CASE UNCHANGED vars
  BY <1>24 DEF vars
<1>. QED
  BY <1>1, <1>2, <1>3, <1>4, <1>5, <1>6, <1>7, <1>8, <1>9, <1>10, <1>11, <1>12, <1>13, <1>14, <1>15, <1>16, <1>17, <1>18, <1>19, <1>20, <1>21, <1>22, <1>23, <1>24, <1>25, <1>26, <1>27, <1>28, <1>29 DEF Next, RunStep, KillStep

LEMMA QueueStep ==
  ASSUME TypeOK, QueueInv, [Next]_vars
  PROVE  QueueInv'
<1>. USE ExecutionAssumption DEF TypeOK, QueueInv, Status, Live, Final, OutputKey, JobState, CallerPc, RunPc, KillPc, StepStatus, NoRows, NoCut
<1>1. ASSUME NEW s \in Session, CreateCheck(s) PROVE QueueInv'
  BY <1>1 DEF CreateCheck, sessionVars, runVars, killVars
<1>2. ASSUME NEW s \in Session, CreateSession(s) PROVE QueueInv'
  BY <1>2 DEF CreateSession, sessionVars, runVars, killVars
<1>3. ASSUME NEW s \in Session, Enqueue(s) PROVE QueueInv'
  BY <1>3 DEF Enqueue, sessionVars, runVars, killVars
<1>4. ASSUME NEW s \in Session, Claim(s) PROVE QueueInv'
  BY <1>4 DEF Claim, sessionVars, runVars, killVars
<1>5. ASSUME NEW s \in Session, Start(s) PROVE QueueInv'
  BY <1>5 DEF Start, sessionVars, runVars, killVars
<1>6. ASSUME NEW s \in Session, CheckCancelled(s) PROVE QueueInv'
  BY <1>6 DEF CheckCancelled, isCancelled, sessionVars, runVars, killVars
<1>7. ASSUME NEW s \in Session, TimeOut(s) PROVE QueueInv'
  BY <1>7 DEF TimeOut, sessionVars, runVars, killVars
<1>8. ASSUME NEW s \in Session, CreateStep(s) PROVE QueueInv'
  BY <1>8 DEF CreateStep, SetStep, sessionVars, runVars, killVars
<1>9. ASSUME NEW s \in Session, StepSucceeds(s) PROVE QueueInv'
  BY <1>9 DEF StepSucceeds, SetStep, sessionVars, runVars, killVars
<1>10. ASSUME NEW s \in Session, StepFails(s) PROVE QueueInv'
  BY <1>10 DEF StepFails, SetStep, sessionVars, runVars, killVars
<1>11. ASSUME NEW s \in Session, Finish(s) PROVE QueueInv'
  BY <1>11 DEF Finish, sessionVars, runVars, killVars
<1>12. ASSUME NEW s \in Session, CatchRead(s) PROVE QueueInv'
  BY <1>12 DEF CatchRead, sessionVars, runVars, killVars
<1>13. ASSUME NEW s \in Session, markSessionFailed(s) PROVE QueueInv'
  BY <1>13 DEF markSessionFailed, sessionVars, runVars, killVars
<1>14. ASSUME NEW s \in Session, EndJob(s) PROVE QueueInv'
  BY <1>14 DEF EndJob, sessionVars, runVars, killVars
<1>15. ASSUME NEW s \in Session, Crash(s) PROVE QueueInv'
  BY <1>15 DEF Crash, sessionVars, runVars, killVars
<1>16. ASSUME NEW s \in Session, RecoverStalled(s) PROVE QueueInv'
  BY <1>16 DEF RecoverStalled, sessionVars, runVars, killVars
<1>17. ASSUME NEW k \in Killer, KillCas(k) PROVE QueueInv'
  BY <1>17 DEF KillCas, sessionVars, runVars, killVars
<1>18. ASSUME NEW k \in Killer, KillMerge(k) PROVE QueueInv'
  BY <1>18 DEF KillMerge, sessionVars, runVars, killVars
<1>19. ASSUME NEW k \in Killer, KillGetState(k) PROVE QueueInv'
  BY <1>19 DEF KillGetState, sessionVars, runVars, killVars
<1>20. ASSUME NEW k \in Killer, KillRemove(k) PROVE QueueInv'
  BY <1>20 DEF KillRemove, sessionVars, runVars, killVars
<1>21. ASSUME NEW k \in Killer, KillFlagRead(k) PROVE QueueInv'
  BY <1>21 DEF KillFlagRead, sessionVars, runVars, killVars
<1>22. ASSUME NEW k \in Killer, KillFlagWrite(k) PROVE QueueInv'
  BY <1>22 DEF KillFlagWrite, sessionVars, runVars, killVars
<1>23. ASSUME NEW k \in Killer, NEW s \in Session, KillRead(k, s) PROVE QueueInv'
  BY <1>23 DEF KillRead, sessionVars, runVars, killVars
<1>25. ASSUME NEW s \in Session, LoadSession(s) PROVE QueueInv'
  BY <1>25 DEF LoadSession, sessionVars, runVars, killVars
<1>26. ASSUME NEW s \in Session, ReportDone(s) PROVE QueueInv'
  BY <1>26 DEF ReportDone, sessionVars, runVars, killVars
<1>27. ASSUME NEW s \in Session, Throws(s) PROVE QueueInv'
  BY <1>27 DEF Throws, sessionVars, runVars, killVars
<1>28. ASSUME NEW s \in Session, Rejects(s) PROVE QueueInv'
  BY <1>28 DEF Rejects, sessionVars, runVars, killVars
<1>29. ASSUME NEW k \in Killer, KillBreaks(k) PROVE QueueInv'
  BY <1>29 DEF KillBreaks, sessionVars, runVars, killVars
<1>24. CASE UNCHANGED vars
  BY <1>24 DEF vars
<1>. QED
  BY <1>1, <1>2, <1>3, <1>4, <1>5, <1>6, <1>7, <1>8, <1>9, <1>10, <1>11, <1>12, <1>13, <1>14, <1>15, <1>16, <1>17, <1>18, <1>19, <1>20, <1>21, <1>22, <1>23, <1>24, <1>25, <1>26, <1>27, <1>28, <1>29 DEF Next, RunStep, KillStep

LEMMA DeliveryStep ==
  ASSUME TypeOK, QueueInv, DeliveryInv, [Next]_vars
  PROVE  DeliveryInv'
<1>. USE ExecutionAssumption DEF TypeOK, QueueInv, DeliveryInv, Status, Live, Final, OutputKey, JobState, CallerPc, RunPc, KillPc, StepStatus, NoRows, NoCut
<1>1. ASSUME NEW s \in Session, CreateCheck(s) PROVE DeliveryInv'
  BY <1>1 DEF CreateCheck, sessionVars, runVars, killVars
<1>2. ASSUME NEW s \in Session, CreateSession(s) PROVE DeliveryInv'
  BY SMTT(30), <1>2 DEF CreateSession, sessionVars, runVars, killVars
<1>3. ASSUME NEW s \in Session, Enqueue(s) PROVE DeliveryInv'
  BY SMTT(30), <1>3 DEF Enqueue, sessionVars, runVars, killVars
<1>4. ASSUME NEW s \in Session, Claim(s) PROVE DeliveryInv'
  BY <1>4 DEF Claim, sessionVars, runVars, killVars
<1>5. ASSUME NEW s \in Session, Start(s) PROVE DeliveryInv'
  BY SMTT(30), <1>5 DEF Start, sessionVars, runVars, killVars
<1>6. ASSUME NEW s \in Session, CheckCancelled(s) PROVE DeliveryInv'
  BY SMTT(30), <1>6 DEF CheckCancelled, isCancelled, sessionVars, runVars, killVars
<1>7. ASSUME NEW s \in Session, TimeOut(s) PROVE DeliveryInv'
  BY SMTT(30), <1>7 DEF TimeOut, sessionVars, runVars, killVars
<1>8. ASSUME NEW s \in Session, CreateStep(s) PROVE DeliveryInv'
  BY SMTT(30), <1>8 DEF CreateStep, SetStep, sessionVars, runVars, killVars
<1>9. ASSUME NEW s \in Session, StepSucceeds(s) PROVE DeliveryInv'
  BY SMTT(30), <1>9 DEF StepSucceeds, SetStep, sessionVars, runVars, killVars
<1>10. ASSUME NEW s \in Session, StepFails(s) PROVE DeliveryInv'
  BY SMTT(30), <1>10 DEF StepFails, SetStep, sessionVars, runVars, killVars
<1>11. ASSUME NEW s \in Session, Finish(s) PROVE DeliveryInv'
  BY SMTT(30), <1>11 DEF Finish, sessionVars, runVars, killVars
<1>12. ASSUME NEW s \in Session, CatchRead(s) PROVE DeliveryInv'
  BY SMTT(30), <1>12 DEF CatchRead, sessionVars, runVars, killVars
<1>13. ASSUME NEW s \in Session, markSessionFailed(s) PROVE DeliveryInv'
  BY SMTT(30), <1>13 DEF markSessionFailed, sessionVars, runVars, killVars
<1>14. ASSUME NEW s \in Session, EndJob(s) PROVE DeliveryInv'
  BY <1>14 DEF EndJob, sessionVars, runVars, killVars
<1>15. ASSUME NEW s \in Session, Crash(s) PROVE DeliveryInv'
  BY SMTT(30), <1>15 DEF Crash, sessionVars, runVars, killVars
<1>16. ASSUME NEW s \in Session, RecoverStalled(s) PROVE DeliveryInv'
  BY SMTT(30), <1>16 DEF RecoverStalled, sessionVars, runVars, killVars
<1>17. ASSUME NEW k \in Killer, KillCas(k) PROVE DeliveryInv'
  BY SMTT(30), <1>17 DEF KillCas, sessionVars, runVars, killVars
<1>18. ASSUME NEW k \in Killer, KillMerge(k) PROVE DeliveryInv'
  BY <1>18 DEF KillMerge, sessionVars, runVars, killVars
<1>19. ASSUME NEW k \in Killer, KillGetState(k) PROVE DeliveryInv'
  BY <1>19 DEF KillGetState, sessionVars, runVars, killVars
<1>20. ASSUME NEW k \in Killer, KillRemove(k) PROVE DeliveryInv'
  BY SMTT(30), <1>20 DEF KillRemove, sessionVars, runVars, killVars
<1>21. ASSUME NEW k \in Killer, KillFlagRead(k) PROVE DeliveryInv'
  BY <1>21 DEF KillFlagRead, sessionVars, runVars, killVars
<1>22. ASSUME NEW k \in Killer, KillFlagWrite(k) PROVE DeliveryInv'
  BY <1>22 DEF KillFlagWrite, sessionVars, runVars, killVars
<1>23. ASSUME NEW k \in Killer, NEW s \in Session, KillRead(k, s) PROVE DeliveryInv'
  BY <1>23 DEF KillRead, sessionVars, runVars, killVars
<1>25. ASSUME NEW s \in Session, LoadSession(s) PROVE DeliveryInv'
  BY SMTT(30), <1>25 DEF LoadSession, sessionVars, runVars, killVars
<1>26. ASSUME NEW s \in Session, ReportDone(s) PROVE DeliveryInv'
  BY SMTT(30), <1>26 DEF ReportDone, sessionVars, runVars, killVars
<1>27. ASSUME NEW s \in Session, Throws(s) PROVE DeliveryInv'
  BY <1>27 DEF Throws, sessionVars, runVars, killVars
<1>28. ASSUME NEW s \in Session, Rejects(s) PROVE DeliveryInv'
  BY <1>28 DEF Rejects, sessionVars, runVars, killVars
<1>29. ASSUME NEW k \in Killer, KillBreaks(k) PROVE DeliveryInv'
  BY <1>29 DEF KillBreaks, sessionVars, runVars, killVars
<1>24. CASE UNCHANGED vars
  BY <1>24 DEF vars
<1>. QED
  BY <1>1, <1>2, <1>3, <1>4, <1>5, <1>6, <1>7, <1>8, <1>9, <1>10, <1>11, <1>12, <1>13, <1>14, <1>15, <1>16, <1>17, <1>18, <1>19, <1>20, <1>21, <1>22, <1>23, <1>24, <1>25, <1>26, <1>27, <1>28, <1>29 DEF Next, RunStep, KillStep

LEMMA KillInvStep ==
  ASSUME TypeOK, QueueInv, DeliveryInv, KillInv, [Next]_vars
  PROVE  KillInv'
<1>. USE ExecutionAssumption DEF TypeOK, QueueInv, DeliveryInv, KillInv, Status, Live, Final, OutputKey, JobState, CallerPc, RunPc, KillPc, StepStatus, NoRows, NoCut
<1>1. ASSUME NEW s \in Session, CreateCheck(s) PROVE KillInv'
  BY <1>1 DEF CreateCheck, sessionVars, runVars, killVars
<1>2. ASSUME NEW s \in Session, CreateSession(s) PROVE KillInv'
  BY <1>2 DEF CreateSession, sessionVars, runVars, killVars
<1>3. ASSUME NEW s \in Session, Enqueue(s) PROVE KillInv'
  BY <1>3 DEF Enqueue, sessionVars, runVars, killVars
<1>4. ASSUME NEW s \in Session, Claim(s) PROVE KillInv'
  BY <1>4 DEF Claim, sessionVars, runVars, killVars
<1>5. ASSUME NEW s \in Session, Start(s) PROVE KillInv'
  BY SMTT(30), <1>5 DEF Start, sessionVars, runVars, killVars
<1>6. ASSUME NEW s \in Session, CheckCancelled(s) PROVE KillInv'
  BY <1>6 DEF CheckCancelled, isCancelled, sessionVars, runVars, killVars
<1>7. ASSUME NEW s \in Session, TimeOut(s) PROVE KillInv'
  <2>1. attempt[s] > 0 /\ run[s] # "idle" /\ UNCHANGED <<kpc, ktarget, missed, attempt>>
    BY <1>7 DEF TimeOut, killVars
  <2>2. \A r \in Session \ {s} : status'[r] = status[r]
    BY <1>7 DEF TimeOut
  <2>3. status'[s] # "absent"
    BY <1>7 DEF TimeOut
  <2>. QED
    BY SMTT(30), <2>1, <2>2, <2>3
<1>8. ASSUME NEW s \in Session, CreateStep(s) PROVE KillInv'
  BY <1>8 DEF CreateStep, SetStep, sessionVars, runVars, killVars
<1>9. ASSUME NEW s \in Session, StepSucceeds(s) PROVE KillInv'
  BY <1>9 DEF StepSucceeds, SetStep, sessionVars, runVars, killVars
<1>10. ASSUME NEW s \in Session, StepFails(s) PROVE KillInv'
  BY <1>10 DEF StepFails, SetStep, sessionVars, runVars, killVars
<1>11. ASSUME NEW s \in Session, Finish(s) PROVE KillInv'
  <2>1. attempt[s] > 0 /\ run[s] # "idle" /\ UNCHANGED <<kpc, ktarget, missed, attempt>>
    BY <1>11 DEF Finish, killVars
  <2>2. \A r \in Session \ {s} : status'[r] = status[r]
    BY <1>11 DEF Finish
  <2>3. status'[s] # "absent"
    BY <1>11 DEF Finish
  <2>. QED
    BY <2>1, <2>2, <2>3
<1>12. ASSUME NEW s \in Session, CatchRead(s) PROVE KillInv'
  BY <1>12 DEF CatchRead, sessionVars, runVars, killVars
<1>13. ASSUME NEW s \in Session, markSessionFailed(s) PROVE KillInv'
  <2>1. attempt[s] > 0 /\ run[s] # "idle" /\ UNCHANGED <<kpc, ktarget, missed, attempt>>
    BY <1>13 DEF markSessionFailed, killVars
  <2>2. \A r \in Session \ {s} : status'[r] = status[r]
    BY <1>13 DEF markSessionFailed
  <2>3. status'[s] # "absent"
    BY <1>13 DEF markSessionFailed
  <2>. QED
    BY <2>1, <2>2, <2>3
<1>14. ASSUME NEW s \in Session, EndJob(s) PROVE KillInv'
  BY <1>14 DEF EndJob, sessionVars, runVars, killVars
<1>15. ASSUME NEW s \in Session, Crash(s) PROVE KillInv'
  BY <1>15 DEF Crash, sessionVars, runVars, killVars
<1>16. ASSUME NEW s \in Session, RecoverStalled(s) PROVE KillInv'
  BY <1>16 DEF RecoverStalled, sessionVars, runVars, killVars
<1>17. ASSUME NEW k \in Killer, KillCas(k) PROVE KillInv'
  <2>1. ktarget[k] \in Session
    BY <1>17 DEF KillCas
  <2>2. CASE status[ktarget[k]] \in Live
    <3>1. /\ status' = [status EXCEPT ![ktarget[k]] = "CANCELLED"]
          /\ kpc' = [kpc EXCEPT ![k] = "merge"]
          /\ UNCHANGED <<attempt, ktarget, missed>>
      BY <1>17, <2>2 DEF KillCas, runVars
    <3>2. k \notin missed
      BY <1>17 DEF KillCas
    <3>. QED
      BY SMTT(30), <2>1, <3>1, <3>2
  <2>3. CASE status[ktarget[k]] \notin Live
    BY <1>17, <2>1, <2>3 DEF KillCas, runVars
  <2>. QED
    BY <2>2, <2>3
<1>18. ASSUME NEW k \in Killer, KillMerge(k) PROVE KillInv'
  BY SMTT(30), <1>18 DEF KillMerge, sessionVars, runVars, killVars
<1>19. ASSUME NEW k \in Killer, KillGetState(k) PROVE KillInv'
  BY SMTT(30), <1>19 DEF KillGetState, sessionVars, runVars, killVars
<1>20. ASSUME NEW k \in Killer, KillRemove(k) PROVE KillInv'
  BY SMTT(30), <1>20 DEF KillRemove, sessionVars, runVars, killVars
<1>21. ASSUME NEW k \in Killer, KillFlagRead(k) PROVE KillInv'
  BY <1>21 DEF KillFlagRead, sessionVars, runVars, killVars
<1>22. ASSUME NEW k \in Killer, KillFlagWrite(k) PROVE KillInv'
  BY SMTT(30), <1>22 DEF KillFlagWrite, sessionVars, runVars, killVars
<1>23. ASSUME NEW k \in Killer, NEW s \in Session, KillRead(k, s) PROVE KillInv'
  BY SMTT(30), <1>23 DEF KillRead, sessionVars, runVars, killVars
<1>25. ASSUME NEW s \in Session, LoadSession(s) PROVE KillInv'
  BY <1>25 DEF LoadSession, sessionVars, runVars, killVars
<1>26. ASSUME NEW s \in Session, ReportDone(s) PROVE KillInv'
  BY <1>26 DEF ReportDone, sessionVars, runVars, killVars
<1>27. ASSUME NEW s \in Session, Throws(s) PROVE KillInv'
  BY <1>27 DEF Throws, sessionVars, runVars, killVars
<1>28. ASSUME NEW s \in Session, Rejects(s) PROVE KillInv'
  BY <1>28 DEF Rejects, sessionVars, runVars, killVars
<1>29. ASSUME NEW k \in Killer, KillBreaks(k) PROVE KillInv'
  <2>1. /\ UNCHANGED <<status, attempt, ktarget>>
        /\ kpc[k] \notin {"idle", "cas", "refused", "done"}
        /\ \A j \in Killer \ {k} : kpc'[j] = kpc[j]
    BY <1>29 DEF KillBreaks, sessionVars, runVars
  <2>2. \/ kpc'[k] = "broken" /\ missed' = missed
        \/ kpc'[k] = "done" /\ missed' = missed \cup {k}
    BY <1>29 DEF KillBreaks
  <2>3. k \notin missed
    BY <2>1
  <2>. QED
    BY SMTT(30), <2>1, <2>2, <2>3
<1>24. CASE UNCHANGED vars
  BY <1>24 DEF vars
<1>. QED
  BY <1>1, <1>2, <1>3, <1>4, <1>5, <1>6, <1>7, <1>8, <1>9, <1>10, <1>11, <1>12, <1>13, <1>14, <1>15, <1>16, <1>17, <1>18, <1>19, <1>20, <1>21, <1>22, <1>23, <1>24, <1>25, <1>26, <1>27, <1>28, <1>29 DEF Next, RunStep, KillStep

LEMMA CutStep ==
  ASSUME TypeOK, QueueInv, DeliveryInv, KillInv, CutInv, [Next]_vars
  PROVE  CutInv'
<1>. USE ExecutionAssumption DEF TypeOK, QueueInv, DeliveryInv, KillInv, CutInv, Status, Live, Final, OutputKey, JobState, CallerPc, RunPc, KillPc, StepStatus, NoRows, NoCut
<1>1. ASSUME NEW s \in Session, CreateCheck(s) PROVE CutInv'
  BY <1>1 DEF CreateCheck, sessionVars, runVars, killVars
<1>2. ASSUME NEW s \in Session, CreateSession(s) PROVE CutInv'
  BY <1>2 DEF CreateSession, sessionVars, runVars, killVars
<1>3. ASSUME NEW s \in Session, Enqueue(s) PROVE CutInv'
  BY <1>3 DEF Enqueue, sessionVars, runVars, killVars
<1>4. ASSUME NEW s \in Session, Claim(s) PROVE CutInv'
  BY <1>4 DEF Claim, sessionVars, runVars, killVars
<1>5. ASSUME NEW s \in Session, Start(s) PROVE CutInv'
  BY <1>5 DEF Start, sessionVars, runVars, killVars
<1>6. ASSUME NEW s \in Session, CheckCancelled(s) PROVE CutInv'
  BY SMTT(30), <1>6 DEF CheckCancelled, isCancelled, sessionVars, runVars, killVars
<1>7. ASSUME NEW s \in Session, TimeOut(s) PROVE CutInv'
  BY <1>7 DEF TimeOut, sessionVars, runVars, killVars
<1>8. ASSUME NEW s \in Session, CreateStep(s) PROVE CutInv'
  BY SMTT(30), <1>8 DEF CreateStep, SetStep, sessionVars, runVars, killVars
<1>9. ASSUME NEW s \in Session, StepSucceeds(s) PROVE CutInv'
  BY <1>9 DEF StepSucceeds, SetStep, sessionVars, runVars, killVars
<1>10. ASSUME NEW s \in Session, StepFails(s) PROVE CutInv'
  BY <1>10 DEF StepFails, SetStep, sessionVars, runVars, killVars
<1>11. ASSUME NEW s \in Session, Finish(s) PROVE CutInv'
  BY <1>11 DEF Finish, sessionVars, runVars, killVars
<1>12. ASSUME NEW s \in Session, CatchRead(s) PROVE CutInv'
  BY <1>12 DEF CatchRead, sessionVars, runVars, killVars
<1>13. ASSUME NEW s \in Session, markSessionFailed(s) PROVE CutInv'
  BY <1>13 DEF markSessionFailed, sessionVars, runVars, killVars
<1>14. ASSUME NEW s \in Session, EndJob(s) PROVE CutInv'
  BY <1>14 DEF EndJob, sessionVars, runVars, killVars
<1>15. ASSUME NEW s \in Session, Crash(s) PROVE CutInv'
  BY <1>15 DEF Crash, sessionVars, runVars, killVars
<1>16. ASSUME NEW s \in Session, RecoverStalled(s) PROVE CutInv'
  BY <1>16 DEF RecoverStalled, sessionVars, runVars, killVars
<1>17. ASSUME NEW k \in Killer, KillCas(k) PROVE CutInv'
  <2>1. ktarget[k] \in Session
    BY <1>17 DEF KillCas
  <2>2. CASE status[ktarget[k]] \in Live
    <3>1. /\ status' = [status EXCEPT ![ktarget[k]] = "CANCELLED"]
          /\ cut' = [cut EXCEPT ![ktarget[k]] = IF @ = NoCut THEN started[ktarget[k]] ELSE @]
          /\ kpc' = [kpc EXCEPT ![k] = "merge"]
          /\ UNCHANGED <<run, started, attempt, ktarget>>
      BY <1>17, <2>2 DEF KillCas, runVars
    <3>. QED
      BY SMTT(30), <2>1, <3>1
  <2>3. CASE status[ktarget[k]] \notin Live
    BY SMTT(30), <1>17, <2>1, <2>3 DEF KillCas, runVars
  <2>. QED
    BY <2>2, <2>3
<1>18. ASSUME NEW k \in Killer, KillMerge(k) PROVE CutInv'
  BY <1>18 DEF KillMerge, sessionVars, runVars, killVars
<1>19. ASSUME NEW k \in Killer, KillGetState(k) PROVE CutInv'
  BY <1>19 DEF KillGetState, sessionVars, runVars, killVars
<1>20. ASSUME NEW k \in Killer, KillRemove(k) PROVE CutInv'
  BY <1>20 DEF KillRemove, sessionVars, runVars, killVars
<1>21. ASSUME NEW k \in Killer, KillFlagRead(k) PROVE CutInv'
  BY <1>21 DEF KillFlagRead, sessionVars, runVars, killVars
<1>22. ASSUME NEW k \in Killer, KillFlagWrite(k) PROVE CutInv'
  BY <1>22 DEF KillFlagWrite, sessionVars, runVars, killVars
<1>23. ASSUME NEW k \in Killer, NEW s \in Session, KillRead(k, s) PROVE CutInv'
  BY <1>23 DEF KillRead, sessionVars, runVars, killVars
<1>25. ASSUME NEW s \in Session, LoadSession(s) PROVE CutInv'
  BY <1>25 DEF LoadSession, sessionVars, runVars, killVars
<1>26. ASSUME NEW s \in Session, ReportDone(s) PROVE CutInv'
  BY <1>26 DEF ReportDone, sessionVars, runVars, killVars
<1>27. ASSUME NEW s \in Session, Throws(s) PROVE CutInv'
  BY <1>27 DEF Throws, sessionVars, runVars, killVars
<1>28. ASSUME NEW s \in Session, Rejects(s) PROVE CutInv'
  BY <1>28 DEF Rejects, sessionVars, runVars, killVars
<1>29. ASSUME NEW k \in Killer, KillBreaks(k) PROVE CutInv'
  BY <1>29 DEF KillBreaks, sessionVars, runVars, killVars
<1>24. CASE UNCHANGED vars
  BY SMTT(30), <1>24 DEF vars
<1>. QED
  BY <1>1, <1>2, <1>3, <1>4, <1>5, <1>6, <1>7, <1>8, <1>9, <1>10, <1>11, <1>12, <1>13, <1>14, <1>15, <1>16, <1>17, <1>18, <1>19, <1>20, <1>21, <1>22, <1>23, <1>24, <1>25, <1>26, <1>27, <1>28, <1>29 DEF Next, RunStep, KillStep

LEMMA StepStep ==
  ASSUME TypeOK, QueueInv, DeliveryInv, KillInv, CutInv, StepInv, [Next]_vars
  PROVE  StepInv'
<1>. USE ExecutionAssumption DEF TypeOK, QueueInv, StepInv, RowsDone, Status, Live, Final, OutputKey, JobState, CallerPc, RunPc, KillPc, StepStatus, NoRows, NoCut
<1>1. ASSUME NEW s \in Session, CreateCheck(s) PROVE StepInv'
  BY <1>1 DEF CreateCheck, sessionVars, runVars, killVars
<1>2. ASSUME NEW s \in Session, CreateSession(s) PROVE StepInv'
  BY <1>2 DEF CreateSession, sessionVars, runVars, killVars
<1>3. ASSUME NEW s \in Session, Enqueue(s) PROVE StepInv'
  BY <1>3 DEF Enqueue, sessionVars, runVars, killVars
<1>4. ASSUME NEW s \in Session, Claim(s) PROVE StepInv'
  BY <1>4 DEF Claim, sessionVars, runVars, killVars
<1>5. ASSUME NEW s \in Session, Start(s) PROVE StepInv'
  <2>1. /\ status' = [status EXCEPT ![s] = "RUNNING"]
        /\ run' = [run EXCEPT ![s] = "begun"]
        /\ started' = [started EXCEPT ![s] = 0]
        /\ steps' = [steps EXCEPT ![s] = NoRows]
    BY <1>5 DEF Start
  <2>2. status'[s] = "RUNNING" /\ run'[s] = "begun" /\ started'[s] = 0
    BY <2>1
  <2>3. \A r \in Session \ {s} : /\ status'[r] = status[r] /\ run'[r] = run[r]
                                 /\ started'[r] = started[r]
    BY <2>1
  <2>5. RowsDone(s)'
    BY <2>2
  <2>6. ASSUME NEW r \in Session \ {s} PROVE RowsDone(r)'
    <3>1. /\ run'[r] = run[r] /\ started'[r] = started[r]
          /\ status'[r] = status[r]
      BY <2>3, <2>6
    <3>2. steps'[r] = steps[r]
      BY <2>1
    <3>3. RowsDone(r)
      BY <2>6
    <3>. QED
      BY <3>1, <3>2, <3>3
  <2>. QED
    BY SMTT(30), <2>5, <2>6
<1>6. ASSUME NEW s \in Session, CheckCancelled(s) PROVE StepInv'
  BY <1>6 DEF CheckCancelled, isCancelled, sessionVars, runVars, killVars
<1>7. ASSUME NEW s \in Session, TimeOut(s) PROVE StepInv'
  BY <1>7 DEF TimeOut, sessionVars, runVars, killVars
<1>8. ASSUME NEW s \in Session, CreateStep(s) PROVE StepInv'
  <2>1. /\ run[s] = "admit" /\ run' = [run EXCEPT ![s] = "step"]
        /\ started' = [started EXCEPT ![s] = started[s] + 1]
        /\ status' = status
    BY <1>8 DEF CreateStep, sessionVars
  <2>6. SetStep(s, started[s] + 1, "RUNNING") /\ "RUNNING" \in StepStatus
    BY <1>8 DEF CreateStep
  <2>2. started[s] + 1 \in 1 .. NSteps
    BY <2>1, RowInRange
  <2>3. RowWritten(s, started[s] + 1, "RUNNING")
    BY <1>8, <2>1, <2>2, <2>6, SetStepEffect
  <2>4. ASSUME NEW r \in Session \ {s} PROVE RowsDone(r)'
    <3>1. /\ run'[r] = run[r] /\ started'[r] = started[r]
          /\ status'[r] = status[r]
      BY <1>8, <2>1, <2>4
    <3>2. steps'[r] = steps[r]
      BY <2>3, <2>4 DEF RowWritten
    <3>3. RowsDone(r)
      BY <2>4
    <3>. QED
      BY <3>1, <3>2, <3>3
  <2>5. RowsDone(s)'
    <3>0. RowsDone(s)
      BY <1>8
    <3>1. run'[s] = "step"
      BY <1>8, <2>1
    <3>3. started'[s] = started[s] + 1
      BY <1>8, <2>1
    <3>4. status'[s] \notin {"SUCCEEDED", "FAILED"}
      BY <2>1, <3>0
    <3>2. \A i \in 1 .. (started[s]) : steps[s][i] = "SUCCEEDED"
      BY <1>8, <2>1, <2>2
    <3>5. \A i \in 1 .. NSteps : steps'[s][i] =
            IF i = started[s] + 1 THEN "RUNNING" ELSE steps[s][i]
      BY <2>3, <3>3 DEF RowWritten
    <3>6. started[s] \in Nat /\ started'[s] - 1 = started[s]
      BY <1>8, <3>3
    <3>7. ASSUME NEW i \in 1 .. (started'[s] - 1)
          PROVE  steps'[s][i] = "SUCCEEDED"
      <4>1. i \in 1 .. started[s] /\ i # started[s] + 1 /\ i \in 1 .. NSteps
        BY <2>2, <3>6
      <4>2. steps[s][i] = "SUCCEEDED"
        BY <4>1, <3>2
      <4>3. steps'[s][i] = steps[s][i]
        BY <4>1, <3>5
      <4>. QED
        BY <4>2, <4>3
    <3>. QED
      BY <3>1, <3>4, <3>7
  <2>. QED
    BY SMTT(30), <2>4, <2>5
<1>9. ASSUME NEW s \in Session, StepSucceeds(s) PROVE StepInv'
  <2>1. /\ run[s] = "step" /\ run' = [run EXCEPT ![s] = "check"]
        /\ started' = started
        /\ status' = status
        /\ SetStep(s, started[s], "SUCCEEDED") /\ "SUCCEEDED" \in StepStatus
    BY <1>9 DEF StepSucceeds, sessionVars
  <2>2. started[s] \in 1 .. NSteps
    BY <2>1, RowInRange
  <2>3. RowWritten(s, started[s], "SUCCEEDED")
    BY <2>1, <2>2, SetStepEffect
  <2>4. ASSUME NEW r \in Session \ {s} PROVE RowsDone(r)'
    <3>1. /\ run'[r] = run[r] /\ started'[r] = started[r]
          /\ status'[r] = status[r]
      BY <1>9, <2>1, <2>4
    <3>2. steps'[r] = steps[r]
      BY <2>3, <2>4 DEF RowWritten
    <3>3. RowsDone(r)
      BY <2>4
    <3>. QED
      BY <3>1, <3>2, <3>3
  <2>5. RowsDone(s)'
    <3>0. RowsDone(s)
      BY <1>9
    <3>1. run'[s] = "check"
      BY <1>9, <2>1
    <3>3. started'[s] = started[s]
      BY <1>9, <2>1
    <3>4. status'[s] \notin {"SUCCEEDED", "FAILED"}
      BY <2>1, <3>0
    <3>2. \A i \in 1 .. (started[s] - 1) : steps[s][i] = "SUCCEEDED"
      BY <1>9, <2>1, <2>2
    <3>5. \A i \in 1 .. NSteps : steps'[s][i] =
            IF i = started[s] THEN "SUCCEEDED" ELSE steps[s][i]
      BY <2>3, <3>3 DEF RowWritten
    <3>6. started[s] \in Nat
      BY <1>9
    <3>7. ASSUME NEW i \in 1 .. started'[s]
          PROVE  steps'[s][i] = "SUCCEEDED"
      <4>. HIDE DEF TypeOK, QueueInv, DeliveryInv, KillInv, StepInv, RowsDone
      <4>1. i \in 1 .. NSteps /\ (i = started[s] \/ i \in 1 .. (started[s] - 1))
        BY <2>2, <3>3, <3>6
      <4>2. CASE i = started[s]
        BY <4>1, <4>2, <3>5
      <4>3. CASE i # started[s]
        <5>1. steps[s][i] = "SUCCEEDED"
          BY <4>1, <4>3, <3>2
        <5>. QED
          BY <5>1, <4>1, <4>3, <3>5
      <4>. QED
        BY <4>2, <4>3
    <3>. QED
      BY <3>1, <3>4, <3>7
  <2>. QED
    BY <2>4, <2>5
<1>10. ASSUME NEW s \in Session, StepFails(s) PROVE StepInv'
  <2>1. /\ run[s] = "step" /\ run' = [run EXCEPT ![s] = "catch"]
        /\ started' = started
        /\ status' = status
        /\ SetStep(s, started[s], "FAILED") /\ "FAILED" \in StepStatus
    BY <1>10 DEF StepFails, sessionVars
  <2>2. started[s] \in 1 .. NSteps
    BY <2>1, RowInRange
  <2>3. RowWritten(s, started[s], "FAILED")
    BY <2>1, <2>2, SetStepEffect
  <2>4. ASSUME NEW r \in Session \ {s} PROVE RowsDone(r)'
    <3>1. /\ run'[r] = run[r] /\ started'[r] = started[r]
          /\ status'[r] = status[r]
      BY <1>10, <2>1, <2>4
    <3>2. steps'[r] = steps[r]
      BY <2>3, <2>4 DEF RowWritten
    <3>3. RowsDone(r)
      BY <2>4
    <3>. QED
      BY <3>1, <3>2, <3>3
  <2>5. RowsDone(s)'
    <3>0. RowsDone(s)
      BY <1>10
    <3>1. run'[s] = "catch"
      BY <1>10, <2>1
    <3>3. started'[s] = started[s]
      BY <1>10, <2>1
    <3>4. status'[s] \notin {"SUCCEEDED", "FAILED"}
      BY <2>1, <3>0
    <3>2. \A i \in 1 .. (started[s] - 1) : steps[s][i] = "SUCCEEDED"
      BY <1>10, <2>1, <2>2
    <3>5. \A i \in 1 .. NSteps : steps'[s][i] =
            IF i = started[s] THEN "FAILED" ELSE steps[s][i]
      BY <2>3, <3>3 DEF RowWritten
    <3>. QED
      BY <2>2, <3>1, <3>2, <3>3, <3>4, <3>5
  <2>. QED
    BY <2>4, <2>5
<1>11. ASSUME NEW s \in Session, Finish(s) PROVE StepInv'
  BY <1>11 DEF Finish, sessionVars, runVars, killVars
<1>12. ASSUME NEW s \in Session, CatchRead(s) PROVE StepInv'
  BY <1>12 DEF CatchRead, sessionVars, runVars, killVars
<1>13. ASSUME NEW s \in Session, markSessionFailed(s) PROVE StepInv'
  BY <1>13 DEF markSessionFailed, sessionVars, runVars, killVars
<1>14. ASSUME NEW s \in Session, EndJob(s) PROVE StepInv'
  BY <1>14 DEF EndJob, sessionVars, runVars, killVars
<1>15. ASSUME NEW s \in Session, Crash(s) PROVE StepInv'
  BY SMTT(30), <1>15 DEF Crash, sessionVars, runVars, killVars
<1>16. ASSUME NEW s \in Session, RecoverStalled(s) PROVE StepInv'
  BY <1>16 DEF RecoverStalled, sessionVars, runVars, killVars
<1>17. ASSUME NEW k \in Killer, KillCas(k) PROVE StepInv'
  BY <1>17 DEF KillCas, sessionVars, runVars, killVars
<1>18. ASSUME NEW k \in Killer, KillMerge(k) PROVE StepInv'
  BY <1>18 DEF KillMerge, sessionVars, runVars, killVars
<1>19. ASSUME NEW k \in Killer, KillGetState(k) PROVE StepInv'
  BY SMTT(30), <1>19 DEF KillGetState, sessionVars, runVars, killVars
<1>20. ASSUME NEW k \in Killer, KillRemove(k) PROVE StepInv'
  BY <1>20 DEF KillRemove, sessionVars, runVars, killVars
<1>21. ASSUME NEW k \in Killer, KillFlagRead(k) PROVE StepInv'
  BY <1>21 DEF KillFlagRead, sessionVars, runVars, killVars
<1>22. ASSUME NEW k \in Killer, KillFlagWrite(k) PROVE StepInv'
  BY <1>22 DEF KillFlagWrite, sessionVars, runVars, killVars
<1>23. ASSUME NEW k \in Killer, NEW s \in Session, KillRead(k, s) PROVE StepInv'
  BY <1>23 DEF KillRead, sessionVars, runVars, killVars
<1>25. ASSUME NEW s \in Session, LoadSession(s) PROVE StepInv'
  BY <1>25 DEF LoadSession, sessionVars, runVars, killVars
<1>26. ASSUME NEW s \in Session, ReportDone(s) PROVE StepInv'
  BY <1>26 DEF ReportDone, sessionVars, runVars, killVars
<1>27. ASSUME NEW s \in Session, Throws(s) PROVE StepInv'
  BY <1>27 DEF Throws, sessionVars, runVars, killVars
<1>28. ASSUME NEW s \in Session, Rejects(s) PROVE StepInv'
  BY <1>28 DEF Rejects, sessionVars, runVars, killVars
<1>29. ASSUME NEW k \in Killer, KillBreaks(k) PROVE StepInv'
  BY <1>29 DEF KillBreaks, sessionVars, runVars, killVars
<1>24. CASE UNCHANGED vars
  BY <1>24 DEF vars
<1>. QED
  BY <1>1, <1>2, <1>3, <1>4, <1>5, <1>6, <1>7, <1>8, <1>9, <1>10, <1>11, <1>12, <1>13, <1>14, <1>15, <1>16, <1>17, <1>18, <1>19, <1>20, <1>21, <1>22, <1>23, <1>24, <1>25, <1>26, <1>27, <1>28, <1>29 DEF Next, RunStep, KillStep

LEMMA FinishedStep ==
  ASSUME TypeOK, QueueInv, DeliveryInv, KillInv, StepInv, FinishedInv, [Next]_vars
  PROVE  FinishedInv'
<1>. USE ExecutionAssumption DEF TypeOK, QueueInv, DeliveryInv, KillInv, StepInv, RowsDone, FinishedInv, Status, Live, Final, OutputKey, JobState, CallerPc, RunPc, KillPc, StepStatus, NoRows, NoCut
<1>1. ASSUME NEW s \in Session, CreateCheck(s) PROVE FinishedInv'
  BY <1>1 DEF CreateCheck, sessionVars, runVars, killVars
<1>2. ASSUME NEW s \in Session, CreateSession(s) PROVE FinishedInv'
  BY SMTT(30), <1>2 DEF CreateSession, sessionVars, runVars, killVars
<1>3. ASSUME NEW s \in Session, Enqueue(s) PROVE FinishedInv'
  <2>1. status' = status /\ run' = run /\ crashes' = crashes /\ job[s] = "none"
    BY <1>3 DEF Enqueue, sessionVars, runVars
  <2>2. \A r \in Session \ {s} : job'[r] = job[r]
    BY <1>3 DEF Enqueue
  <2>3. \A r \in Session : job[r] \in {"completed", "failed"} => job'[r] = job[r]
    BY <2>1, <2>2
  <2>4. FinishedInv
    OBVIOUS
  <2>. HIDE DEF TypeOK, QueueInv, DeliveryInv, KillInv, StepInv, RowsDone
  <2>. QED
    BY <2>1, <2>3, <2>4
<1>4. ASSUME NEW s \in Session, Claim(s) PROVE FinishedInv'
  BY SMTT(30), <1>4 DEF Claim, sessionVars, runVars, killVars
<1>5. ASSUME NEW s \in Session, Start(s) PROVE FinishedInv'
  BY SMTT(30), <1>5 DEF Start, sessionVars, runVars, killVars
<1>6. ASSUME NEW s \in Session, CheckCancelled(s) PROVE FinishedInv'
  BY SMTT(30), <1>6 DEF CheckCancelled, isCancelled, sessionVars, runVars, killVars
<1>7. ASSUME NEW s \in Session, TimeOut(s) PROVE FinishedInv'
  BY SMTT(30), <1>7 DEF TimeOut, sessionVars, runVars, killVars
<1>8. ASSUME NEW s \in Session, CreateStep(s) PROVE FinishedInv'
  BY SMTT(30), <1>8 DEF CreateStep, SetStep, sessionVars, runVars, killVars
<1>9. ASSUME NEW s \in Session, StepSucceeds(s) PROVE FinishedInv'
  BY SMTT(30), <1>9 DEF StepSucceeds, SetStep, sessionVars, runVars, killVars
<1>10. ASSUME NEW s \in Session, StepFails(s) PROVE FinishedInv'
  BY <1>10 DEF StepFails, SetStep, sessionVars, runVars, killVars
<1>11. ASSUME NEW s \in Session, Finish(s) PROVE FinishedInv'
  BY <1>11 DEF Finish, sessionVars, runVars, killVars
<1>12. ASSUME NEW s \in Session, CatchRead(s) PROVE FinishedInv'
  BY <1>12 DEF CatchRead, sessionVars, runVars, killVars
<1>13. ASSUME NEW s \in Session, markSessionFailed(s) PROVE FinishedInv'
  BY <1>13 DEF markSessionFailed, sessionVars, runVars, killVars
<1>14. ASSUME NEW s \in Session, EndJob(s) PROVE FinishedInv'
  BY SMTT(30), <1>14 DEF EndJob, sessionVars, runVars, killVars
<1>15. ASSUME NEW s \in Session, Crash(s) PROVE FinishedInv'
  BY SMTT(30), <1>15 DEF Crash, sessionVars, runVars, killVars
<1>16. ASSUME NEW s \in Session, RecoverStalled(s) PROVE FinishedInv'
  BY <1>16 DEF RecoverStalled, sessionVars, runVars, killVars
<1>17. ASSUME NEW k \in Killer, KillCas(k) PROVE FinishedInv'
  BY <1>17 DEF KillCas, sessionVars, runVars, killVars
<1>18. ASSUME NEW k \in Killer, KillMerge(k) PROVE FinishedInv'
  BY <1>18 DEF KillMerge, sessionVars, runVars, killVars
<1>19. ASSUME NEW k \in Killer, KillGetState(k) PROVE FinishedInv'
  BY <1>19 DEF KillGetState, sessionVars, runVars, killVars
<1>20. ASSUME NEW k \in Killer, KillRemove(k) PROVE FinishedInv'
  <2>1. ktarget[k] \in Session /\ UNCHANGED <<status, run, crashes>>
    BY <1>20 DEF KillRemove, sessionVars, runVars
  <2>2. \A s \in Session : job'[s] = job[s] \/ job[s] = "waiting"
    BY <1>20, <2>1 DEF KillRemove
  <2>. QED
    BY <2>1, <2>2
<1>21. ASSUME NEW k \in Killer, KillFlagRead(k) PROVE FinishedInv'
  BY <1>21 DEF KillFlagRead, sessionVars, runVars, killVars
<1>22. ASSUME NEW k \in Killer, KillFlagWrite(k) PROVE FinishedInv'
  BY <1>22 DEF KillFlagWrite, sessionVars, runVars, killVars
<1>23. ASSUME NEW k \in Killer, NEW s \in Session, KillRead(k, s) PROVE FinishedInv'
  BY <1>23 DEF KillRead, sessionVars, runVars, killVars
<1>25. ASSUME NEW s \in Session, LoadSession(s) PROVE FinishedInv'
  BY <1>25 DEF LoadSession, sessionVars, runVars, killVars
<1>26. ASSUME NEW s \in Session, ReportDone(s) PROVE FinishedInv'
  BY <1>26 DEF ReportDone, sessionVars, runVars, killVars
<1>27. ASSUME NEW s \in Session, Throws(s) PROVE FinishedInv'
  BY <1>27 DEF Throws, sessionVars, runVars, killVars
<1>28. ASSUME NEW s \in Session, Rejects(s) PROVE FinishedInv'
  BY <1>28 DEF Rejects, sessionVars, runVars, killVars
<1>29. ASSUME NEW k \in Killer, KillBreaks(k) PROVE FinishedInv'
  BY <1>29 DEF KillBreaks, sessionVars, runVars, killVars
<1>24. CASE UNCHANGED vars
  BY <1>24 DEF vars
<1>. QED
  BY <1>1, <1>2, <1>3, <1>4, <1>5, <1>6, <1>7, <1>8, <1>9, <1>10, <1>11, <1>12, <1>13, <1>14, <1>15, <1>16, <1>17, <1>18, <1>19, <1>20, <1>21, <1>22, <1>23, <1>24, <1>25, <1>26, <1>27, <1>28, <1>29 DEF Next, RunStep, KillStep

LEMMA CaughtStep ==
  ASSUME TypeOK, QueueInv, DeliveryInv, KillInv, CaughtInQueue, [Next]_vars
  PROVE  CaughtInQueue'
<1>. USE ExecutionAssumption DEF TypeOK, QueueInv, DeliveryInv, KillInv, CaughtInQueue, Status, Live, Final, OutputKey, JobState, CallerPc, RunPc, KillPc, StepStatus, NoRows, NoCut
<1>1. ASSUME NEW s \in Session, CreateCheck(s) PROVE CaughtInQueue'
  BY <1>1 DEF CreateCheck, sessionVars, runVars, killVars
<1>2. ASSUME NEW s \in Session, CreateSession(s) PROVE CaughtInQueue'
  BY <1>2 DEF CreateSession, sessionVars, runVars, killVars
<1>3. ASSUME NEW s \in Session, Enqueue(s) PROVE CaughtInQueue'
  BY <1>3 DEF Enqueue, sessionVars, runVars, killVars
<1>4. ASSUME NEW s \in Session, Claim(s) PROVE CaughtInQueue'
  BY <1>4 DEF Claim, sessionVars, runVars, killVars
<1>5. ASSUME NEW s \in Session, Start(s) PROVE CaughtInQueue'
  BY SMTT(30), <1>5 DEF Start, sessionVars, runVars, killVars
<1>6. ASSUME NEW s \in Session, CheckCancelled(s) PROVE CaughtInQueue'
  BY <1>6 DEF CheckCancelled, isCancelled, sessionVars, runVars, killVars
<1>7. ASSUME NEW s \in Session, TimeOut(s) PROVE CaughtInQueue'
  <2>1. run[s] = "admit" /\ UNCHANGED <<job, attempt>>
    BY <1>7 DEF TimeOut
  <2>2. \A r \in Session \ {s} : status'[r] = status[r]
    BY <1>7 DEF TimeOut
  <2>3. job[s] = "active"
    BY <1>7, <2>1
  <2>. QED
    BY <2>1, <2>2, <2>3
<1>8. ASSUME NEW s \in Session, CreateStep(s) PROVE CaughtInQueue'
  BY <1>8 DEF CreateStep, SetStep, sessionVars, runVars, killVars
<1>9. ASSUME NEW s \in Session, StepSucceeds(s) PROVE CaughtInQueue'
  BY <1>9 DEF StepSucceeds, SetStep, sessionVars, runVars, killVars
<1>10. ASSUME NEW s \in Session, StepFails(s) PROVE CaughtInQueue'
  BY <1>10 DEF StepFails, SetStep, sessionVars, runVars, killVars
<1>11. ASSUME NEW s \in Session, Finish(s) PROVE CaughtInQueue'
  <2>1. run[s] = "check" /\ UNCHANGED <<job, attempt>>
    BY <1>11 DEF Finish
  <2>2. \A r \in Session \ {s} : status'[r] = status[r]
    BY <1>11 DEF Finish
  <2>3. job[s] = "active"
    BY <1>11, <2>1
  <2>. QED
    BY <2>1, <2>2, <2>3
<1>12. ASSUME NEW s \in Session, CatchRead(s) PROVE CaughtInQueue'
  BY <1>12 DEF CatchRead, sessionVars, runVars, killVars
<1>13. ASSUME NEW s \in Session, markSessionFailed(s) PROVE CaughtInQueue'
  <2>1. run[s] = "fail" /\ UNCHANGED <<job, attempt>>
    BY <1>13 DEF markSessionFailed
  <2>2. \A r \in Session \ {s} : status'[r] = status[r]
    BY <1>13 DEF markSessionFailed
  <2>3. job[s] = "active"
    BY <1>13, <2>1
  <2>. QED
    BY <2>1, <2>2, <2>3
<1>14. ASSUME NEW s \in Session, EndJob(s) PROVE CaughtInQueue'
  BY <1>14 DEF EndJob, sessionVars, runVars, killVars
<1>15. ASSUME NEW s \in Session, Crash(s) PROVE CaughtInQueue'
  BY <1>15 DEF Crash, sessionVars, runVars, killVars
<1>16. ASSUME NEW s \in Session, RecoverStalled(s) PROVE CaughtInQueue'
  BY <1>16 DEF RecoverStalled, sessionVars, runVars, killVars
<1>17. ASSUME NEW k \in Killer, KillCas(k) PROVE CaughtInQueue'
  BY <1>17 DEF KillCas, sessionVars, runVars, killVars
<1>18. ASSUME NEW k \in Killer, KillMerge(k) PROVE CaughtInQueue'
  BY <1>18 DEF KillMerge, sessionVars, runVars, killVars
<1>19. ASSUME NEW k \in Killer, KillGetState(k) PROVE CaughtInQueue'
  BY <1>19 DEF KillGetState, sessionVars, runVars, killVars
<1>20. ASSUME NEW k \in Killer, KillRemove(k) PROVE CaughtInQueue'
  <2>1. ktarget[k] \in Session /\ status' = status /\ attempt' = attempt
    BY <1>20 DEF KillRemove, sessionVars, runVars
  <2>2. attempt[ktarget[k]] = 0 => status[ktarget[k]] = "CANCELLED"
    BY <1>20 DEF KillRemove
  <2>3. \A r \in Session : job'[r] = "removed" => r = ktarget[k] \/ job[r] = "removed"
    BY <1>20, <2>1 DEF KillRemove
  <2>. QED
    BY <2>1, <2>2, <2>3
<1>21. ASSUME NEW k \in Killer, KillFlagRead(k) PROVE CaughtInQueue'
  BY <1>21 DEF KillFlagRead, sessionVars, runVars, killVars
<1>22. ASSUME NEW k \in Killer, KillFlagWrite(k) PROVE CaughtInQueue'
  BY <1>22 DEF KillFlagWrite, sessionVars, runVars, killVars
<1>23. ASSUME NEW k \in Killer, NEW s \in Session, KillRead(k, s) PROVE CaughtInQueue'
  BY <1>23 DEF KillRead, sessionVars, runVars, killVars
<1>25. ASSUME NEW s \in Session, LoadSession(s) PROVE CaughtInQueue'
  BY <1>25 DEF LoadSession, sessionVars, runVars, killVars
<1>26. ASSUME NEW s \in Session, ReportDone(s) PROVE CaughtInQueue'
  BY <1>26 DEF ReportDone, sessionVars, runVars, killVars
<1>27. ASSUME NEW s \in Session, Throws(s) PROVE CaughtInQueue'
  BY <1>27 DEF Throws, sessionVars, runVars, killVars
<1>28. ASSUME NEW s \in Session, Rejects(s) PROVE CaughtInQueue'
  BY <1>28 DEF Rejects, sessionVars, runVars, killVars
<1>29. ASSUME NEW k \in Killer, KillBreaks(k) PROVE CaughtInQueue'
  BY <1>29 DEF KillBreaks, sessionVars, runVars, killVars
<1>24. CASE UNCHANGED vars
  BY SMTT(30), <1>24 DEF vars
<1>. QED
  BY <1>1, <1>2, <1>3, <1>4, <1>5, <1>6, <1>7, <1>8, <1>9, <1>10, <1>11, <1>12, <1>13, <1>14, <1>15, <1>16, <1>17, <1>18, <1>19, <1>20, <1>21, <1>22, <1>23, <1>24, <1>25, <1>26, <1>27, <1>28, <1>29 DEF Next, RunStep, KillStep

LEMMA SuccessStep ==
  ASSUME TypeOK, QueueInv, DeliveryInv, CutInv, StepInv, SuccessIsComplete, [Next]_vars
  PROVE  SuccessIsComplete'
<1>. USE ExecutionAssumption DEF TypeOK, QueueInv, DeliveryInv, StepInv, RowsDone, SuccessIsComplete, Status, Live, Final, OutputKey, JobState, CallerPc, RunPc, KillPc, StepStatus, NoRows, NoCut
<1>1. ASSUME NEW s \in Session, CreateCheck(s) PROVE SuccessIsComplete'
  BY SMTT(30), <1>1 DEF CreateCheck, sessionVars, runVars, killVars
<1>2. ASSUME NEW s \in Session, CreateSession(s) PROVE SuccessIsComplete'
  BY <1>2 DEF CreateSession, sessionVars, runVars, killVars
<1>3. ASSUME NEW s \in Session, Enqueue(s) PROVE SuccessIsComplete'
  BY <1>3 DEF Enqueue, sessionVars, runVars, killVars
<1>4. ASSUME NEW s \in Session, Claim(s) PROVE SuccessIsComplete'
  BY SMTT(30), <1>4 DEF Claim, sessionVars, runVars, killVars
<1>5. ASSUME NEW s \in Session, Start(s) PROVE SuccessIsComplete'
  BY SMTT(30), <1>5 DEF Start, sessionVars, runVars, killVars
<1>6. ASSUME NEW s \in Session, CheckCancelled(s) PROVE SuccessIsComplete'
  BY <1>6 DEF CheckCancelled, isCancelled, sessionVars, runVars, killVars
<1>7. ASSUME NEW s \in Session, TimeOut(s) PROVE SuccessIsComplete'
  BY SMTT(30), <1>7 DEF TimeOut, sessionVars, runVars, killVars
<1>8. ASSUME NEW s \in Session, CreateStep(s) PROVE SuccessIsComplete'
  <2>1. /\ run[s] = "admit" /\ status' = status
        /\ SetStep(s, started[s] + 1, "RUNNING") /\ "RUNNING" \in StepStatus
    BY <1>8 DEF CreateStep, sessionVars
  <2>2. started[s] + 1 \in 1 .. NSteps
    BY <1>8, <2>1, RowInRange
  <2>6. RowWritten(s, started[s] + 1, "RUNNING")
    BY <1>8, <2>1, <2>2, SetStepEffect
  <2>3. \A r \in Session \ {s} : steps'[r] = steps[r]
    BY <2>6 DEF RowWritten
  <2>4. status[s] # "SUCCEEDED"
    BY <1>8, <2>1
  <2>5. ASSUME NEW r \in Session, status'[r] = "SUCCEEDED"
        PROVE  \A i \in 1 .. NSteps : steps'[r][i] = "SUCCEEDED"
    <3>1. status[r] = "SUCCEEDED" /\ r # s
      BY <2>1, <2>4, <2>5
    <3>2. steps'[r] = steps[r]
      BY <2>3, <3>1
    <3>3. \A i \in 1 .. NSteps : steps[r][i] = "SUCCEEDED"
      BY <2>5, <3>1
    <3>. QED
      BY <3>2, <3>3
  <2>. QED
    BY <2>5
<1>9. ASSUME NEW s \in Session, StepSucceeds(s) PROVE SuccessIsComplete'
  BY SMTT(30), <1>9 DEF StepSucceeds, SetStep, sessionVars, runVars, killVars
<1>10. ASSUME NEW s \in Session, StepFails(s) PROVE SuccessIsComplete'
  <2>1. /\ run[s] = "step" /\ status' = status
        /\ SetStep(s, started[s], "FAILED") /\ "FAILED" \in StepStatus
    BY <1>10 DEF StepFails, sessionVars
  <2>2. started[s] \in 1 .. NSteps
    BY <1>10, <2>1, RowInRange
  <2>6. RowWritten(s, started[s], "FAILED")
    BY <1>10, <2>1, <2>2, SetStepEffect
  <2>3. \A r \in Session \ {s} : steps'[r] = steps[r]
    BY <2>6 DEF RowWritten
  <2>4. status[s] # "SUCCEEDED"
    BY <1>10, <2>1
  <2>5. ASSUME NEW r \in Session, status'[r] = "SUCCEEDED"
        PROVE  \A i \in 1 .. NSteps : steps'[r][i] = "SUCCEEDED"
    <3>1. status[r] = "SUCCEEDED" /\ r # s
      BY <2>1, <2>4, <2>5
    <3>2. steps'[r] = steps[r]
      BY <2>3, <3>1
    <3>3. \A i \in 1 .. NSteps : steps[r][i] = "SUCCEEDED"
      BY <2>5, <3>1
    <3>. QED
      BY <3>2, <3>3
  <2>. QED
    BY <2>5
<1>11. ASSUME NEW s \in Session, Finish(s) PROVE SuccessIsComplete'
  BY SMTT(30), <1>11 DEF Finish, sessionVars, runVars, killVars
<1>12. ASSUME NEW s \in Session, CatchRead(s) PROVE SuccessIsComplete'
  BY SMTT(30), <1>12 DEF CatchRead, sessionVars, runVars, killVars
<1>13. ASSUME NEW s \in Session, markSessionFailed(s) PROVE SuccessIsComplete'
  BY SMTT(30), <1>13 DEF markSessionFailed, sessionVars, runVars, killVars
<1>14. ASSUME NEW s \in Session, EndJob(s) PROVE SuccessIsComplete'
  BY SMTT(30), <1>14 DEF EndJob, sessionVars, runVars, killVars
<1>15. ASSUME NEW s \in Session, Crash(s) PROVE SuccessIsComplete'
  BY SMTT(30), <1>15 DEF Crash, sessionVars, runVars, killVars
<1>16. ASSUME NEW s \in Session, RecoverStalled(s) PROVE SuccessIsComplete'
  BY SMTT(30), <1>16 DEF RecoverStalled, sessionVars, runVars, killVars
<1>17. ASSUME NEW k \in Killer, KillCas(k) PROVE SuccessIsComplete'
  BY SMTT(30), <1>17 DEF KillCas, sessionVars, runVars, killVars
<1>18. ASSUME NEW k \in Killer, KillMerge(k) PROVE SuccessIsComplete'
  BY <1>18 DEF KillMerge, sessionVars, runVars, killVars
<1>19. ASSUME NEW k \in Killer, KillGetState(k) PROVE SuccessIsComplete'
  BY SMTT(30), <1>19 DEF KillGetState, sessionVars, runVars, killVars
<1>20. ASSUME NEW k \in Killer, KillRemove(k) PROVE SuccessIsComplete'
  BY SMTT(30), <1>20 DEF KillRemove, sessionVars, runVars, killVars
<1>21. ASSUME NEW k \in Killer, KillFlagRead(k) PROVE SuccessIsComplete'
  BY SMTT(30), <1>21 DEF KillFlagRead, sessionVars, runVars, killVars
<1>22. ASSUME NEW k \in Killer, KillFlagWrite(k) PROVE SuccessIsComplete'
  BY <1>22 DEF KillFlagWrite, sessionVars, runVars, killVars
<1>23. ASSUME NEW k \in Killer, NEW s \in Session, KillRead(k, s) PROVE SuccessIsComplete'
  BY SMTT(30), <1>23 DEF KillRead, sessionVars, runVars, killVars
<1>25. ASSUME NEW s \in Session, LoadSession(s) PROVE SuccessIsComplete'
  BY <1>25 DEF LoadSession, sessionVars, runVars, killVars
<1>26. ASSUME NEW s \in Session, ReportDone(s) PROVE SuccessIsComplete'
  BY <1>26 DEF ReportDone, sessionVars, runVars, killVars
<1>27. ASSUME NEW s \in Session, Throws(s) PROVE SuccessIsComplete'
  BY <1>27 DEF Throws, sessionVars, runVars, killVars
<1>28. ASSUME NEW s \in Session, Rejects(s) PROVE SuccessIsComplete'
  BY <1>28 DEF Rejects, sessionVars, runVars, killVars
<1>29. ASSUME NEW k \in Killer, KillBreaks(k) PROVE SuccessIsComplete'
  BY <1>29 DEF KillBreaks, sessionVars, runVars, killVars
<1>24. CASE UNCHANGED vars
  BY <1>24 DEF vars
<1>. QED
  BY SMTT(30), <1>1, <1>2, <1>3, <1>4, <1>5, <1>6, <1>7, <1>8, <1>9, <1>10, <1>11, <1>12, <1>13, <1>14, <1>15, <1>16, <1>17, <1>18, <1>19, <1>20, <1>21, <1>22, <1>23, <1>24, <1>25, <1>26, <1>27, <1>28, <1>29 DEF Next, RunStep, KillStep

LEMMA InitIInv == Init => IInv
  BY ExecutionAssumption
     DEF Init, IInv, TypeOK, QueueInv, DeliveryInv, KillInv, CutInv, StepInv, RowsDone,
         CaughtInQueue, SuccessIsComplete, FinishedInv, Status, OutputKey, JobState,
         CallerPc, RunPc, KillPc, StepStatus, NoRows, NoCut

\* IInv is inductive.
THEOREM Invariance == Spec => []IInv
<1>1. IInv /\ [Next]_vars => IInv'
  BY TypeStep, QueueStep, DeliveryStep, KillInvStep, CutStep, StepStep, CaughtStep,
     SuccessStep, FinishedStep DEF IInv
<1>. QED
  BY InitIInv, <1>1, PTL DEF Spec

\* Every variable keeps its type.
THEOREM TypeCorrect == Spec => []TypeOK
<1>1. IInv => TypeOK
  BY DEF IInv
<1>. QED
  BY <1>1, Invariance, PTL

\* After a kill cancelled a run in progress, at most one more of its steps starts.
THEOREM KillSwitchStops == Spec => []CancelStopsRun
<1>1. IInv => CancelStopsRun
  BY DEF IInv, CutInv, CancelStopsRun
<1>. QED
  BY <1>1, Invariance, PTL

\* A kill that removed the job before any delivery is final.
THEOREM KillInQueueIsFinal == Spec => []CaughtInQueue
<1>1. IInv => CaughtInQueue
  BY DEF IInv
<1>. QED
  BY <1>1, Invariance, PTL

\* A SUCCEEDED session has all its step rows, all succeeded.
THEOREM SucceededIsComplete == Spec => []SuccessIsComplete
<1>1. IInv => SuccessIsComplete
  BY DEF IInv
<1>. QED
  BY <1>1, Invariance, PTL

\* What one step may do to a settled session.
Keep == \A s \in Session : status[s] \in {"SUCCEEDED", "FAILED"} /\ status'[s] # status[s] =>
          \/ crashes[s] > 0 /\ run[s] = "start" /\ status'[s] = "RUNNING"
          \/ status[s] = "SUCCEEDED" /\ run[s] = "fail" /\ status'[s] = "FAILED"

LEMMA KeepStep ==
  ASSUME IInv, [Next]_vars
  PROVE  Keep
<1>. USE ExecutionAssumption DEF IInv, TypeOK, QueueInv, DeliveryInv, KillInv, StepInv, RowsDone, FinishedInv, Keep, Status, Live, Final, OutputKey, JobState, CallerPc, RunPc, KillPc, StepStatus, NoRows, NoCut
<1>1. ASSUME NEW s \in Session, CreateCheck(s) PROVE Keep
  BY <1>1 DEF CreateCheck, sessionVars, runVars, killVars
<1>2. ASSUME NEW s \in Session, CreateSession(s) PROVE Keep
  BY <1>2 DEF CreateSession, sessionVars, runVars, killVars
<1>3. ASSUME NEW s \in Session, Enqueue(s) PROVE Keep
  BY <1>3 DEF Enqueue, sessionVars, runVars, killVars
<1>4. ASSUME NEW s \in Session, Claim(s) PROVE Keep
  BY <1>4 DEF Claim, sessionVars, runVars, killVars
<1>5. ASSUME NEW s \in Session, Start(s) PROVE Keep
  BY <1>5 DEF Start, sessionVars, runVars, killVars
<1>6. ASSUME NEW s \in Session, CheckCancelled(s) PROVE Keep
  BY <1>6 DEF CheckCancelled, isCancelled, sessionVars, runVars, killVars
<1>7. ASSUME NEW s \in Session, TimeOut(s) PROVE Keep
  <2>1. run[s] = "admit"
    BY <1>7 DEF TimeOut
  <2>2. \A r \in Session \ {s} : status'[r] = status[r]
    BY <1>7 DEF TimeOut
  <2>3. status[s] \notin {"SUCCEEDED", "FAILED"}
    BY <2>1
  <2>. QED
    BY <2>2, <2>3
<1>8. ASSUME NEW s \in Session, CreateStep(s) PROVE Keep
  BY <1>8 DEF CreateStep, SetStep, sessionVars, runVars, killVars
<1>9. ASSUME NEW s \in Session, StepSucceeds(s) PROVE Keep
  BY <1>9 DEF StepSucceeds, SetStep, sessionVars, runVars, killVars
<1>10. ASSUME NEW s \in Session, StepFails(s) PROVE Keep
  BY <1>10 DEF StepFails, SetStep, sessionVars, runVars, killVars
<1>11. ASSUME NEW s \in Session, Finish(s) PROVE Keep
  <2>1. run[s] = "check"
    BY <1>11 DEF Finish
  <2>2. \A r \in Session \ {s} : status'[r] = status[r]
    BY <1>11 DEF Finish
  <2>3. status[s] \notin {"SUCCEEDED", "FAILED"}
    BY <2>1
  <2>. QED
    BY <2>2, <2>3
<1>12. ASSUME NEW s \in Session, CatchRead(s) PROVE Keep
  BY <1>12 DEF CatchRead, sessionVars, runVars, killVars
<1>13. ASSUME NEW s \in Session, markSessionFailed(s) PROVE Keep
  <2>1. run[s] = "fail"
    BY <1>13 DEF markSessionFailed
  <2>2. \A r \in Session \ {s} : status'[r] = status[r]
    BY <1>13 DEF markSessionFailed
  <2>3. status'[s] = "FAILED"
    BY <1>13 DEF markSessionFailed
  <2>. QED
    BY <2>1, <2>2, <2>3
<1>14. ASSUME NEW s \in Session, EndJob(s) PROVE Keep
  BY <1>14 DEF EndJob, sessionVars, runVars, killVars
<1>15. ASSUME NEW s \in Session, Crash(s) PROVE Keep
  BY <1>15 DEF Crash, sessionVars, runVars, killVars
<1>16. ASSUME NEW s \in Session, RecoverStalled(s) PROVE Keep
  BY <1>16 DEF RecoverStalled, sessionVars, runVars, killVars
<1>17. ASSUME NEW k \in Killer, KillCas(k) PROVE Keep
  BY <1>17 DEF KillCas, sessionVars, runVars, killVars
<1>18. ASSUME NEW k \in Killer, KillMerge(k) PROVE Keep
  BY <1>18 DEF KillMerge, sessionVars, runVars, killVars
<1>19. ASSUME NEW k \in Killer, KillGetState(k) PROVE Keep
  BY <1>19 DEF KillGetState, sessionVars, runVars, killVars
<1>20. ASSUME NEW k \in Killer, KillRemove(k) PROVE Keep
  BY <1>20 DEF KillRemove, sessionVars, runVars, killVars
<1>21. ASSUME NEW k \in Killer, KillFlagRead(k) PROVE Keep
  BY <1>21 DEF KillFlagRead, sessionVars, runVars, killVars
<1>22. ASSUME NEW k \in Killer, KillFlagWrite(k) PROVE Keep
  BY <1>22 DEF KillFlagWrite, sessionVars, runVars, killVars
<1>23. ASSUME NEW k \in Killer, NEW s \in Session, KillRead(k, s) PROVE Keep
  BY <1>23 DEF KillRead, sessionVars, runVars, killVars
<1>25. ASSUME NEW s \in Session, LoadSession(s) PROVE Keep
  BY <1>25 DEF LoadSession, sessionVars, runVars, killVars
<1>26. ASSUME NEW s \in Session, ReportDone(s) PROVE Keep
  BY <1>26 DEF ReportDone, sessionVars, runVars, killVars
<1>27. ASSUME NEW s \in Session, Throws(s) PROVE Keep
  BY <1>27 DEF Throws, sessionVars, runVars, killVars
<1>28. ASSUME NEW s \in Session, Rejects(s) PROVE Keep
  BY <1>28 DEF Rejects, sessionVars, runVars, killVars
<1>29. ASSUME NEW k \in Killer, KillBreaks(k) PROVE Keep
  BY <1>29 DEF KillBreaks, sessionVars, runVars, killVars
<1>24. CASE UNCHANGED vars
  BY <1>24 DEF vars
<1>. QED
  BY <1>1, <1>2, <1>3, <1>4, <1>5, <1>6, <1>7, <1>8, <1>9, <1>10, <1>11, <1>12, <1>13, <1>14, <1>15, <1>16, <1>17, <1>18, <1>19, <1>20, <1>21, <1>22, <1>23, <1>24, <1>25, <1>26, <1>27, <1>28, <1>29 DEF Next, RunStep, KillStep

\* A settled session changes only by a delivery that begins after a death, and
\* by the catch block of the delivery that wrote SUCCEEDED.
THEOREM FinishedStaysFinished == Spec => FinishedIsFinal
<1>1. IInv /\ [Next]_vars => [Keep]_vars
  BY KeepStep
<1>. QED
  BY <1>1, Invariance, PTL DEF Spec, FinishedIsFinal, Keep

\* How a run that returns or throws leaves its session, before its job ends; and
\* whose mark a cancellation is.  A kill call that has not begun has no target.
EndedInv ==
  /\ \A k \in Killer : kpc[k] = "idle" => ktarget[k] = None
  /\ \A s \in Session :
       /\ status[s] = "CANCELLED" \/ "flag" \in output[s] => Killed(s)
       /\ crashes[s] = 0 /\ s \notin strayed /\ (run[s] = "throw" \/ job[s] = "failed")
            => status[s] \in {"FAILED", "CANCELLED"}
       /\ (run[s] \in {"report", "return"} \/ job[s] = "completed") /\ ~Killed(s)
            => status[s] = "SUCCEEDED"

LEMMA KilledStays ==
  ASSUME TypeOK, EndedInv, [Next]_vars
  PROVE  /\ \A s \in Session : Killed(s) => Killed(s)'
         /\ \A k \in Killer : kpc'[k] = "idle" => ktarget'[k] = None
<1>. USE ExecutionAssumption DEF TypeOK, EndedInv, Killed
<1>1. CASE UNCHANGED killVars
  BY <1>1 DEF killVars
<1>2. ASSUME NEW k \in Killer, KillStep(k)
      PROVE  /\ \A s \in Session : Killed(s) => Killed(s)'
             /\ \A j \in Killer : kpc'[j] = "idle" => ktarget'[j] = None
  <2>1. ktarget' = ktarget /\ \A j \in Killer \ {k} : kpc'[j] = kpc[j]
    BY <1>2 DEF KillStep, KillCas, KillMerge, KillGetState, KillRemove, KillFlagRead, KillFlagWrite, KillBreaks
  <2>2. kpc[k] # "idle" /\ kpc'[k] # "idle" /\ (kpc[k] \notin {"cas", "refused"} => kpc'[k] \notin {"cas", "refused"})
    <3>1. CASE KillCas(k)
      BY <3>1 DEF KillCas
    <3>2. CASE KillMerge(k) \/ KillGetState(k) \/ KillRemove(k) \/ KillFlagRead(k) \/ KillFlagWrite(k) \/ KillBreaks(k)
      BY <3>2 DEF KillMerge, KillGetState, KillRemove, KillFlagRead, KillFlagWrite, KillBreaks
    <3>. QED
      BY <1>2, <3>1, <3>2 DEF KillStep
  <2>. QED
    BY <2>1, <2>2
<1>3. ASSUME NEW k \in Killer, NEW r \in Session, KillRead(k, r)
      PROVE  /\ \A s \in Session : Killed(s) => Killed(s)'
             /\ \A j \in Killer : kpc'[j] = "idle" => ktarget'[j] = None
  <2>1. \A s \in Session : ktarget[k] # s
    BY <1>3 DEF KillRead
  <2>. QED
    BY <1>3, <2>1 DEF KillRead
<1>4. ASSUME NEW s \in Session, RunStep(s) PROVE UNCHANGED killVars
  BY <1>4 DEF RunStep, Claim, Start, LoadSession, ReportDone, CheckCancelled, TimeOut, CreateStep, StepSucceeds, StepFails,
     Finish, CatchRead, markSessionFailed, EndJob, RecoverStalled
<1>5. ASSUME NEW s \in Session, CreateCheck(s) \/ CreateSession(s) \/ Enqueue(s) \/ Crash(s) \/ Throws(s) \/ Rejects(s)
      PROVE  UNCHANGED killVars
  BY <1>5 DEF CreateCheck, CreateSession, Enqueue, Crash, Throws, Rejects
<1>6. CASE UNCHANGED vars
  BY <1>1, <1>6 DEF vars, killVars
<1>. QED
  BY <1>1, <1>2, <1>3, <1>4, <1>5, <1>6 DEF Next

LEMMA EndedStep ==
  ASSUME TypeOK, QueueInv, DeliveryInv, KillInv, EndedInv, [Next]_vars
  PROVE  EndedInv'
<1>. USE ExecutionAssumption DEF TypeOK, QueueInv, EndedInv, Status, Live, Final
<1>0. /\ \A s \in Session : Killed(s) => Killed(s)'
      /\ \A k \in Killer : kpc'[k] = "idle" => ktarget'[k] = None
  BY KilledStays
<1>1. ASSUME NEW s \in Session, CreateCheck(s) PROVE EndedInv'
  BY <1>0, <1>1 DEF CreateCheck, sessionVars, runVars, killVars
<1>2. ASSUME NEW s \in Session, CreateSession(s) PROVE EndedInv'
  BY <1>0, <1>2 DEF CreateSession, sessionVars, runVars, killVars
<1>3. ASSUME NEW s \in Session, Enqueue(s) PROVE EndedInv'
  BY <1>0, <1>3 DEF Enqueue, sessionVars, runVars, killVars
<1>4. ASSUME NEW s \in Session, Claim(s) PROVE EndedInv'
  BY <1>0, <1>4 DEF Claim, sessionVars, runVars, killVars
<1>5. ASSUME NEW s \in Session, Start(s) PROVE EndedInv'
  BY <1>0, <1>5 DEF Start, sessionVars, runVars, killVars
<1>6. ASSUME NEW s \in Session, CheckCancelled(s) PROVE EndedInv'
  BY <1>0, <1>6 DEF CheckCancelled, isCancelled, sessionVars, runVars, killVars
<1>7. ASSUME NEW s \in Session, TimeOut(s) PROVE EndedInv'
  BY <1>0, <1>7 DEF TimeOut, sessionVars, runVars, killVars
<1>8. ASSUME NEW s \in Session, CreateStep(s) PROVE EndedInv'
  BY <1>0, <1>8 DEF CreateStep, SetStep, sessionVars, runVars, killVars
<1>9. ASSUME NEW s \in Session, StepSucceeds(s) PROVE EndedInv'
  BY <1>0, <1>9 DEF StepSucceeds, SetStep, sessionVars, runVars, killVars
<1>10. ASSUME NEW s \in Session, StepFails(s) PROVE EndedInv'
  BY <1>0, <1>10 DEF StepFails, SetStep, sessionVars, runVars, killVars
<1>11. ASSUME NEW s \in Session, Finish(s) PROVE EndedInv'
  BY <1>0, <1>11 DEF Finish, sessionVars, runVars, killVars
<1>12. ASSUME NEW s \in Session, CatchRead(s) PROVE EndedInv'
  BY <1>0, <1>12 DEF CatchRead, sessionVars, runVars, killVars
<1>13. ASSUME NEW s \in Session, markSessionFailed(s) PROVE EndedInv'
  BY <1>0, <1>13 DEF markSessionFailed, sessionVars, runVars, killVars
<1>14. ASSUME NEW s \in Session, EndJob(s) PROVE EndedInv'
  BY <1>0, <1>14 DEF EndJob, sessionVars, runVars, killVars
<1>15. ASSUME NEW s \in Session, Crash(s) PROVE EndedInv'
  BY <1>0, <1>15 DEF Crash, DeliveryInv, sessionVars, runVars, killVars
<1>16. ASSUME NEW s \in Session, RecoverStalled(s) PROVE EndedInv'
  BY SMTT(30), <1>0, <1>16 DEF RecoverStalled, DeliveryInv, sessionVars, runVars, killVars
<1>17. ASSUME NEW k \in Killer, KillCas(k) PROVE EndedInv'
  <2>1. CASE status[ktarget[k]] \in Live
    <3>1. ktarget[k] \in Session /\ Killed(ktarget[k])'
      BY <1>17, <2>1 DEF KillCas, KillInv, Killed
    <3>. QED
      BY <1>0, <1>17, <2>1, <3>1 DEF KillCas, runVars
  <2>2. CASE status[ktarget[k]] \notin Live
    BY <1>0, <1>17, <2>2 DEF KillCas, runVars
  <2>. QED
    BY <2>1, <2>2
<1>18. ASSUME NEW k \in Killer, KillMerge(k) PROVE EndedInv'
  <2>1. ktarget[k] \in Session /\ Killed(ktarget[k])'
    BY <1>18 DEF KillMerge, KillInv, Killed
  <2>. QED
    BY <1>0, <1>18, <2>1 DEF KillMerge, sessionVars, runVars
<1>19. ASSUME NEW k \in Killer, KillGetState(k) PROVE EndedInv'
  BY <1>0, <1>19 DEF KillGetState, KillInv, sessionVars, runVars
<1>20. ASSUME NEW k \in Killer, KillRemove(k) PROVE EndedInv'
  BY <1>0, <1>20 DEF KillRemove, KillInv, sessionVars, runVars
<1>21. ASSUME NEW k \in Killer, KillFlagRead(k) PROVE EndedInv'
  BY <1>0, <1>21 DEF KillFlagRead, KillInv, sessionVars, runVars
<1>22. ASSUME NEW k \in Killer, KillFlagWrite(k) PROVE EndedInv'
  <2>1. ktarget[k] \in Session /\ Killed(ktarget[k])'
    BY <1>22 DEF KillFlagWrite, KillInv, Killed
  <2>. QED
    BY <1>0, <1>22, <2>1 DEF KillFlagWrite, sessionVars, runVars
<1>23. ASSUME NEW k \in Killer, NEW s \in Session, KillRead(k, s) PROVE EndedInv'
  BY <1>0, <1>23 DEF KillRead, sessionVars, runVars
<1>25. ASSUME NEW s \in Session, LoadSession(s) PROVE EndedInv'
  BY <1>0, <1>25 DEF LoadSession, sessionVars, runVars, killVars
<1>26. ASSUME NEW s \in Session, ReportDone(s) PROVE EndedInv'
  BY <1>0, <1>26 DEF ReportDone, sessionVars, runVars, killVars
<1>27. ASSUME NEW s \in Session, Throws(s) PROVE EndedInv'
  BY <1>0, <1>27 DEF Throws, sessionVars, runVars, killVars
<1>28. ASSUME NEW s \in Session, Rejects(s) PROVE EndedInv'
  BY <1>0, <1>28 DEF Rejects, sessionVars, runVars, killVars
<1>29. ASSUME NEW k \in Killer, KillBreaks(k) PROVE EndedInv'
  BY <1>0, <1>29 DEF KillBreaks, sessionVars, runVars, killVars
<1>24. CASE UNCHANGED vars
  BY <1>0, <1>24 DEF vars, Killed
<1>. QED
  BY <1>1, <1>2, <1>3, <1>4, <1>5, <1>6, <1>7, <1>8, <1>9, <1>10, <1>11, <1>12, <1>13, <1>14, <1>15, <1>16, <1>17, <1>18, <1>19, <1>20, <1>21, <1>22, <1>23, <1>24, <1>25, <1>26, <1>27, <1>28, <1>29 DEF Next, RunStep, KillStep

\* How a job ended agrees with its session: one that completed and was not killed
\* left SUCCEEDED; one that failed, on a worker that did not die and without a
\* failing call outside the try, left FAILED or CANCELLED.
THEOREM JobsAgreeWithSessions == Spec => []EndedJobIsRecorded
<1>1. Init => EndedInv
  BY DEF Init, EndedInv
<1>2. IInv /\ EndedInv /\ [Next]_vars => EndedInv'
  BY EndedStep DEF IInv
<1>3. EndedInv => EndedJobIsRecorded
  BY DEF EndedInv, EndedJobIsRecorded
<1>. QED
  BY <1>1, <1>2, <1>3, Invariance, PTL DEF Spec

\* What a heard kill leaves behind: a job that is out of the queue, the flag, or
\* what a run wrote over it when it settled the session.
Told(s) ==
  \/ job[s] \in {"removed", "completed", "failed"}
  \/ "flag" \in output[s] \/ "result" \in output[s] \/ "error" \in output[s]

HeardInv == \A k \in Killer : Heard(k) /\ ~Meddled(k) => Told(ktarget[k])

\* No step of the API's create or of the worker takes it away.
LEMMA RunKeepsTold ==
  ASSUME TypeOK, QueueInv, NEW r \in Session,
         \/ CreateCheck(r) \/ CreateSession(r) \/ Enqueue(r)
         \/ RunStep(r) \/ Throws(r) \/ Rejects(r) \/ Crash(r)
  PROVE  /\ UNCHANGED killVars
         /\ \A s \in Session : Told(s) => Told(s)'
<1>. USE DEF TypeOK, QueueInv, Told
<1>1. CASE CreateCheck(r) \/ CreateSession(r)
  BY <1>1 DEF CreateCheck, CreateSession, sessionVars
<1>2. CASE Enqueue(r)
  BY <1>2 DEF Enqueue, sessionVars
<1>3. CASE Claim(r)
  BY <1>3 DEF Claim, sessionVars
<1>4. CASE Start(r) \/ LoadSession(r) \/ CheckCancelled(r) \/ CreateStep(r) \/ StepSucceeds(r)
             \/ StepFails(r) \/ ReportDone(r) \/ CatchRead(r)
  BY <1>4 DEF Start, LoadSession, CheckCancelled, CreateStep, StepSucceeds, StepFails,
              ReportDone, CatchRead, sessionVars
<1>5. CASE TimeOut(r) \/ markSessionFailed(r) \/ Finish(r)
  <2>1. UNCHANGED killVars /\ job' = job
    BY <1>5 DEF TimeOut, markSessionFailed, Finish
  <2>2. \A s \in Session \ {r} : output'[s] = output[s]
    BY <1>5 DEF TimeOut, markSessionFailed, Finish
  <2>3. "error" \in output'[r] \/ "result" \in output'[r]
    BY <1>5 DEF TimeOut, markSessionFailed, Finish
  <2>. QED
    BY <2>1, <2>2, <2>3
<1>6. CASE EndJob(r) \/ RecoverStalled(r)
  <2>1. job[r] = "active" /\ output' = output /\ UNCHANGED killVars
    BY <1>6 DEF EndJob, RecoverStalled, sessionVars
  <2>2. \A s \in Session \ {r} : job'[s] = job[s]
    BY <1>6 DEF EndJob, RecoverStalled
  <2>3. \/ job'[r] \in {"completed", "failed"}
        \/ job'[r] = "waiting"
    BY <1>6 DEF EndJob, RecoverStalled
  <2>. QED
    BY <2>1, <2>2, <2>3
<1>7. CASE Throws(r) \/ Rejects(r) \/ Crash(r)
  BY <1>7 DEF Throws, Rejects, Crash, sessionVars
<1>. QED
  BY <1>1, <1>2, <1>3, <1>4, <1>5, <1>6, <1>7 DEF RunStep

\* A step of a kill call takes it away only from kills it meddles with.
LEMMA KillKeepsTold ==
  ASSUME TypeOK, KillInv, HeardInv, NEW j \in Killer, KillStep(j)
  PROVE  HeardInv'
<1>. DEFINE s == ktarget[j]
<1>. USE DEF TypeOK
<1>0. /\ ktarget' = ktarget /\ s \in Session /\ j \notin missed
      /\ kpc[j] \in {"cas", "merge", "getState", "remove", "flagRead", "flagWrite"}
      /\ \A i \in Killer \ {j} : kpc'[i] = kpc[i]
      /\ missed \subseteq missed' /\ missed' \subseteq missed \cup {j}
  BY DEF KillInv, KillStep, KillCas, KillMerge, KillGetState, KillRemove, KillFlagRead,
         KillFlagWrite, KillBreaks
<1>1. \A r \in Session \ {s} : Told(r) => Told(r)'
  BY DEF Told, KillStep, KillCas, KillMerge, KillGetState, KillRemove, KillFlagRead,
         KillFlagWrite, KillBreaks, sessionVars
<1>2. \/ Told(s)'
      \/ (Told(s) => Told(s)') /\ kpc[j] \notin {"getState", "remove", "flagRead", "flagWrite"}
                               /\ kpc'[j] # "done" /\ missed' = missed
      \/ kpc'[j] \in {"getState", "remove", "flagRead", "flagWrite"}
      \/ j \in missed'
  <2>1. CASE KillCas(j)
    BY <2>1 DEF KillCas, Told
  <2>2. CASE KillMerge(j) \/ KillFlagRead(j)
    BY <2>2 DEF KillMerge, KillFlagRead
  <2>3. CASE KillGetState(j)
    <3>1. CASE job[s] \in {"waiting", "active", "none"}
      BY <2>3, <3>1 DEF KillGetState
    <3>2. CASE job[s] \in {"removed", "completed", "failed"}
      BY <2>3, <3>2 DEF KillGetState, Told
    <3>. QED
      BY <1>0, <3>1, <3>2 DEF JobState
  <2>4. CASE KillRemove(j)
    BY <1>0, <2>4 DEF KillRemove, Told
  <2>5. CASE KillFlagWrite(j)
    BY <1>0, <2>5 DEF KillFlagWrite, Told
  <2>6. CASE KillBreaks(j)
    BY <2>6 DEF KillBreaks, Told, sessionVars
  <2>. QED
    BY <2>1, <2>2, <2>3, <2>4, <2>5, <2>6 DEF KillStep
<1>3. SUFFICES ASSUME NEW k \in Killer, Heard(k)', ~Meddled(k)'
               PROVE  Told(ktarget[k])'
  BY <1>0 DEF HeardInv
<1>. HIDE DEF TypeOK, s
<1>4. ktarget'[k] = ktarget[k]
  BY <1>0
<1>5. CASE k = j
  BY <1>0, <1>2, <1>3, <1>5 DEF Heard, s
<1>6. CASE k # j /\ ktarget[k] # s
  <2>1. Heard(k) /\ ktarget[k] \in Session
    BY <1>0, <1>3, <1>6 DEF Heard, KillInv
  <2>2. ~Meddled(k)
    BY <1>0, <1>3, <1>6 DEF Meddled, s
  <2>. QED
    BY <1>1, <1>4, <1>6, <2>1, <2>2 DEF HeardInv, Told
<1>7. CASE k # j /\ ktarget[k] = s
  <2>1. Heard(k)
    BY <1>0, <1>3, <1>7 DEF Heard
  <2>2. j \notin missed' /\ kpc'[j] \notin {"getState", "remove", "flagRead", "flagWrite"}
    BY <1>0, <1>3, <1>7 DEF Meddled, s
  <2>3. CASE Told(s)'
    BY <1>0, <1>7, <2>3 DEF s, Told
  <2>4. CASE /\ Told(s) => Told(s)'
             /\ kpc[j] \notin {"getState", "remove", "flagRead", "flagWrite"}
             /\ missed' = missed
    <3>1. ~Meddled(k)
      BY <1>0, <1>3, <2>4 DEF Meddled
    <3>2. Told(s)
      BY <1>7, <2>1, <3>1 DEF HeardInv, s
    <3>. QED
      BY <1>0, <1>7, <2>4, <3>2 DEF s, Told
  <2>. QED
    BY <1>2, <2>2, <2>3, <2>4
<1>. QED
  BY <1>5, <1>6, <1>7

LEMMA HeardStep ==
  ASSUME TypeOK, QueueInv, KillInv, HeardInv, [Next]_vars
  PROVE  HeardInv'
<1>1. ASSUME UNCHANGED killVars, \A s \in Session : Told(s) => Told(s)'
      PROVE  HeardInv'
  <2>1. UNCHANGED <<kpc, ktarget, missed>>
    BY <1>1 DEF killVars
  <2>. QED
    BY <1>1, <2>1 DEF HeardInv, Heard, Meddled, KillInv
<1>2. ASSUME NEW r \in Session,
             \/ CreateCheck(r) \/ CreateSession(r) \/ Enqueue(r)
             \/ RunStep(r) \/ Throws(r) \/ Rejects(r) \/ Crash(r)
      PROVE  HeardInv'
  BY <1>1, <1>2, RunKeepsTold
<1>3. ASSUME NEW j \in Killer, KillStep(j) PROVE HeardInv'
  BY <1>3, KillKeepsTold
<1>4. ASSUME NEW j \in Killer, NEW r \in Session, KillRead(j, r) PROVE HeardInv'
  <2>1. /\ kpc[j] = "idle" /\ kpc'[j] = "cas" /\ ktarget'[j] = r
        /\ \A i \in Killer \ {j} : kpc'[i] = kpc[i] /\ ktarget'[i] = ktarget[i]
        /\ UNCHANGED <<output, job, missed>> /\ j \notin missed
    BY <1>4 DEF KillRead, KillInv, TypeOK, sessionVars
  <2>2. \A k \in Killer : Heard(k)' => k # j /\ Heard(k) /\ ktarget'[k] = ktarget[k]
    BY <2>1 DEF Heard
  <2>3. \A k \in Killer : k # j /\ Meddled(k) => Meddled(k)'
    BY <2>1 DEF Meddled
  <2>. QED
    BY <2>1, <2>2, <2>3 DEF HeardInv, Told
<1>5. CASE UNCHANGED vars
  BY <1>1, <1>5 DEF vars, killVars, Told
<1>. QED
  BY <1>2, <1>3, <1>4, <1>5 DEF Next

\* A kill that went through, and that no other kill of the session meddles with,
\* leaves no job in the queue that would run on uncancelled.
THEOREM KillsAreHeard == Spec => []KillIsHeard
<1>1. Init => HeardInv
  BY DEF Init, HeardInv, Heard
<1>2. IInv /\ HeardInv /\ [Next]_vars => HeardInv'
  BY HeardStep DEF IInv
<1>3. HeardInv => KillIsHeard
  BY DEF HeardInv, KillIsHeard, Told, isCancelled
<1>. QED
  BY <1>1, <1>2, <1>3, Invariance, PTL DEF Spec

=============================================================================
