----------------------------- MODULE Execution -----------------------------
(***************************************************************************)
(* The execution runtime: the API's ExecutionService.create and .kill, the *)
(* BullMQ queue between the two processes, and the worker's runExecution.  *)
(* Every database or queue call is one atomic step; everything else a      *)
(* process does between two calls is local to it.  All sessions belong to  *)
(* one tenant and one pack installation, the ones whose requests meet.     *)
(***************************************************************************)
EXTENDS Integers, FiniteSets

CONSTANTS
  Session,          \* execution sessions a client may create
  Killer,           \* calls of the kill endpoint (each is made once)
  NSteps,           \* steps of a run (resolveSteps gives 3 or 5)
  MaxConcurrency,   \* manifest.runtime.maxConcurrency of the installation
  MaxStalled,       \* stalls after which BullMQ gives a job up (external)
  MaxCrashes,       \* bound: worker deaths in the middle of one session
  None              \* no session

ASSUME ExecutionAssumption ==
  /\ NSteps \in Nat \ {0}
  /\ MaxConcurrency \in Nat \ {0}
  /\ MaxStalled \in Nat
  /\ MaxCrashes \in Nat
  /\ None \notin Session

Live == {"QUEUED", "RUNNING"}
Final == {"SUCCEEDED", "FAILED", "CANCELLED"}
Status == {"absent"} \cup Live \cup Final

\* outputJson, by the keys the properties tell apart: the cancellation info,
\* _cancellationRequested, stepsCompleted/totalSteps, and error.
OutputKey == {"cancelInfo", "flag", "result", "error"}

JobState == {"none", "waiting", "active", "removed", "completed", "failed"}
CallerPc == {"idle", "admitted", "enqueue", "done"}
RunPc == {"idle", "start", "begun", "check", "admit", "step", "report", "catch",
          "fail", "return", "throw", "dead"}
KillPc == {"idle", "cas", "merge", "getState", "remove", "flagRead",
           "flagWrite", "done", "refused", "broken"}
StepStatus == {"absent", "RUNNING", "SUCCEEDED", "FAILED"}

NoRows == [i \in 1 .. NSteps |-> "absent"]
NoCut == NSteps + 1

VARIABLES
  status,   \* ExecutionSession.status
  output,   \* the keys present in ExecutionSession.outputJson
  steps,    \* status of the ExecutionStep rows of the current delivery; those of
            \* earlier deliveries stay in the table, and no one reads them
  job,      \* state of the BullMQ job exec-<id>
  caller,   \* where the create call that makes the session stands
  run,      \* where the worker's runExecution stands
  attempt,  \* deliveries of the job that began (0 before the first)
  started,  \* step rows created by the current delivery
  crashes,  \* times the job stalled
  kpc,      \* where each kill call stands
  ktarget,  \* the session it names
  ksnap,    \* the outputJson it read and has yet to write back
  cut,      \* history: rows the delivery had when a kill cancelled it
  missed,   \* history: kills that neither removed nor flagged a job still to run
  strayed   \* history: sessions of which a call outside runExecution's try failed

sessionVars == <<status, output>>
runVars == <<run, attempt, started, steps>>
killVars == <<kpc, ktarget, ksnap, missed>>
vars == <<status, output, steps, job, caller, run, attempt, started, crashes,
          kpc, ktarget, ksnap, cut, missed, strayed>>

TypeOK ==
  /\ status \in [Session -> Status]
  /\ output \in [Session -> SUBSET OutputKey]
  /\ steps \in [Session -> [1 .. NSteps -> StepStatus]]
  /\ job \in [Session -> JobState]
  /\ caller \in [Session -> CallerPc]
  /\ run \in [Session -> RunPc]
  /\ attempt \in [Session -> 0 .. (MaxStalled + 1)]
  /\ started \in [Session -> 0 .. NSteps]
  /\ crashes \in [Session -> 0 .. (MaxStalled + 1)]
  /\ kpc \in [Killer -> KillPc]
  /\ ktarget \in [Killer -> Session \cup {None}]
  /\ ksnap \in [Killer -> SUBSET OutputKey]
  /\ cut \in [Session -> 0 .. NoCut]
  /\ missed \subseteq Killer
  /\ strayed \subseteq Session

Init ==
  /\ status = [s \in Session |-> "absent"]
  /\ output = [s \in Session |-> {}]
  /\ steps = [s \in Session |-> NoRows]
  /\ job = [s \in Session |-> "none"]
  /\ caller = [s \in Session |-> "idle"]
  /\ run = [s \in Session |-> "idle"]
  /\ attempt = [s \in Session |-> 0]
  /\ started = [s \in Session |-> 0]
  /\ crashes = [s \in Session |-> 0]
  /\ kpc = [k \in Killer |-> "idle"]
  /\ ktarget = [k \in Killer |-> None]
  /\ ksnap = [k \in Killer |-> {}]
  /\ cut = [s \in Session |-> NoCut]
  /\ missed = {}
  /\ strayed = {}

-----------------------------------------------------------------------------
\* Mutated actions: plausible slips in the code, each of which some property
\* below must notice.  The specification uses none of them.

\* The where clause of kill forgets the status.
KillCasUnconditional(k) ==
  /\ kpc[k] = "cas"
  /\ status' = [status EXCEPT ![ktarget[k]] = "CANCELLED"]
  /\ kpc' = [kpc EXCEPT ![k] = "merge"]
  /\ cut' = [cut EXCEPT ![ktarget[k]] = IF @ = NoCut THEN started[ktarget[k]] ELSE @]
  /\ UNCHANGED <<output, runVars, job, caller, crashes, ktarget, ksnap, missed, strayed>>

\* An active job is not flagged.
KillGetStateWaitingOnly(k) ==
  /\ kpc[k] = "getState"
  /\ kpc' = [kpc EXCEPT ![k] = IF job[ktarget[k]] = "waiting" THEN "remove" ELSE "done"]
  /\ missed' = IF job[ktarget[k]] = "none" THEN missed \cup {k} ELSE missed
  /\ UNCHANGED <<sessionVars, runVars, job, caller, crashes, ktarget, ksnap, cut, strayed>>

\* The worker looks at the flag and not at the status.
isCancelledFlagOnly(s) == "flag" \in output[s]

\* The cancellation check loops instead of returning.
CheckCancelledWaits(s) ==
  /\ run[s] = "check"
  /\ started[s] < NSteps
  /\ status[s] # "CANCELLED" /\ "flag" \notin output[s]
  /\ run' = [run EXCEPT ![s] = "admit"]
  /\ UNCHANGED <<sessionVars, killVars, steps, attempt, started, job, caller, crashes, cut, strayed>>

\* A failed step is recorded and not rethrown.
StepFailsSwallowed(s) ==
  /\ run[s] = "step"
  /\ steps' = [steps EXCEPT ![s][started[s]] = "FAILED"]
  /\ run' = [run EXCEPT ![s] = "check"]
  /\ UNCHANGED <<sessionVars, killVars, attempt, started, job, caller, crashes, cut, strayed>>

\* The catch block rethrows without marking the session.
CatchReadRethrows(s) ==
  /\ run[s] = "catch"
  /\ run' = [run EXCEPT ![s] = "throw"]
  /\ UNCHANGED <<sessionVars, killVars, steps, attempt, started, job, caller, crashes, cut, strayed>>

-----------------------------------------------------------------------------
\* ExecutionService.create

Running == {s \in Session : status[s] = "RUNNING"}

\* Count the RUNNING sessions of the installation, refuse at the limit.
CreateCheck(s) ==
  /\ caller[s] = "idle"
  /\ Cardinality(Running) < MaxConcurrency
  /\ caller' = [caller EXCEPT ![s] = "admitted"]
  /\ UNCHANGED <<sessionVars, runVars, killVars, job, crashes, cut, strayed>>

\* Insert the session, QUEUED (the policy pre-check passed).
CreateSession(s) ==
  /\ caller[s] = "admitted"
  /\ caller' = [caller EXCEPT ![s] = "enqueue"]
  /\ status' = [status EXCEPT ![s] = "QUEUED"]
  /\ UNCHANGED <<output, runVars, killVars, job, crashes, cut, strayed>>

\* queue.add: the job waits; or the call rejects (or the process dies) and
\* the row stays behind with no job.
Enqueue(s) ==
  /\ caller[s] = "enqueue"
  /\ caller' = [caller EXCEPT ![s] = "done"]
  /\ job' \in {job, [job EXCEPT ![s] = "waiting"]}
  /\ UNCHANGED <<sessionVars, runVars, killVars, crashes, cut, strayed>>

-----------------------------------------------------------------------------
\* ExecutionService.kill

KillRead(k, s) ==
  /\ kpc[k] = "idle"
  /\ status[s] \in Live
  /\ kpc' = [kpc EXCEPT ![k] = "cas"]
  /\ ktarget' = [ktarget EXCEPT ![k] = s]
  /\ ksnap' = [ksnap EXCEPT ![k] = output[s]]
  /\ UNCHANGED <<sessionVars, runVars, job, caller, crashes, cut, missed, strayed>>

\* updateMany with the status in the where clause; count 0 is an error.
KillCas(k) ==
  LET s == ktarget[k] IN
  /\ kpc[k] = "cas"
  /\ UNCHANGED <<output, runVars, job, caller, crashes, ktarget, ksnap, missed, strayed>>
  /\ \/ /\ status[s] \in Live
        /\ status' = [status EXCEPT ![s] = "CANCELLED"]
        /\ kpc' = [kpc EXCEPT ![k] = "merge"]
        /\ cut' = [cut EXCEPT ![s] = IF @ = NoCut THEN started[s] ELSE @]
     \/ /\ status[s] \notin Live
        /\ kpc' = [kpc EXCEPT ![k] = "refused"]
        /\ UNCHANGED <<status, cut>>

\* outputJson becomes what was read at the start plus the cancellation info.
KillMerge(k) ==
  /\ kpc[k] = "merge"
  /\ output' = [output EXCEPT ![ktarget[k]] = ksnap[k] \cup {"cancelInfo"}]
  /\ kpc' = [kpc EXCEPT ![k] = "getState"]
  /\ ksnap' = [ksnap EXCEPT ![k] = {}]
  /\ UNCHANGED <<status, runVars, job, caller, crashes, ktarget, cut, missed, strayed>>

\* getJob and getState: what to do depends on a state read from Redis.  A job
\* that is not in the queue yet is not found, and the call goes on.
KillGetState(k) ==
  /\ kpc[k] = "getState"
  /\ kpc' = [kpc EXCEPT ![k] =
       CASE job[ktarget[k]] = "waiting" -> "remove"
         [] job[ktarget[k]] = "active" -> "flagRead"
         [] OTHER -> "done"]
  /\ missed' = IF job[ktarget[k]] = "none" THEN missed \cup {k} ELSE missed
  /\ UNCHANGED <<sessionVars, runVars, job, caller, crashes, ktarget, ksnap, cut, strayed>>

\* job.remove: throws, and is only logged, when a worker holds the job by now.
KillRemove(k) ==
  LET s == ktarget[k] IN
  /\ kpc[k] = "remove"
  /\ kpc' = [kpc EXCEPT ![k] = "done"]
  /\ \/ /\ job[s] = "waiting"
        /\ job' = [job EXCEPT ![s] = "removed"]
        /\ missed' = missed
     \/ /\ job[s] # "waiting"
        /\ job' = job
        /\ missed' = missed \cup {k}
  /\ UNCHANGED <<sessionVars, runVars, caller, crashes, ktarget, ksnap, cut, strayed>>

\* setCancellationFlag: read outputJson, then write it back with the flag.
KillFlagRead(k) ==
  /\ kpc[k] = "flagRead"
  /\ ksnap' = [ksnap EXCEPT ![k] = output[ktarget[k]]]
  /\ kpc' = [kpc EXCEPT ![k] = "flagWrite"]
  /\ UNCHANGED <<sessionVars, runVars, job, caller, crashes, ktarget, cut, missed, strayed>>

KillFlagWrite(k) ==
  /\ kpc[k] = "flagWrite"
  /\ output' = [output EXCEPT ![ktarget[k]] = ksnap[k] \cup {"flag"}]
  /\ kpc' = [kpc EXCEPT ![k] = "done"]
  /\ ksnap' = [ksnap EXCEPT ![k] = {}]
  /\ UNCHANGED <<status, runVars, job, caller, crashes, ktarget, cut, missed, strayed>>

\* A call of kill fails: before the job is looked for the client is told, from
\* then on it is only logged.
KillBreaks(k) ==
  /\ \/ /\ kpc[k] = "merge"
        /\ kpc' = [kpc EXCEPT ![k] = "broken"]
        /\ missed' = missed
     \/ /\ kpc[k] \in {"getState", "remove", "flagRead", "flagWrite"}
        /\ kpc' = [kpc EXCEPT ![k] = "done"]
        /\ missed' = missed \cup {k}
  /\ ksnap' = [ksnap EXCEPT ![k] = {}]
  /\ UNCHANGED <<sessionVars, runVars, job, caller, crashes, ktarget, cut, strayed>>

KillStep(k) ==
  \/ KillCas(k) \/ KillMerge(k) \/ KillGetState(k)
  \/ KillRemove(k) \/ KillFlagRead(k) \/ KillFlagWrite(k) \/ KillBreaks(k)

-----------------------------------------------------------------------------
\* runExecution, in the worker

\* BullMQ hands the waiting job to a free slot of the worker.
Claim(s) ==
  /\ job[s] = "waiting"
  /\ job' = [job EXCEPT ![s] = "active"]
  /\ run' = [run EXCEPT ![s] = "start"]
  /\ UNCHANGED <<sessionVars, killVars, steps, caller, attempt, started, crashes, cut, strayed>>

\* The first update sets RUNNING whatever the status is.
Start(s) ==
  /\ run[s] = "start"
  /\ status' = [status EXCEPT ![s] = "RUNNING"]
  /\ run' = [run EXCEPT ![s] = "begun"]
  /\ attempt' = [attempt EXCEPT ![s] = @ + 1]
  /\ started' = [started EXCEPT ![s] = 0]
  /\ cut' = [cut EXCEPT ![s] = NoCut]
  /\ steps' = [steps EXCEPT ![s] = NoRows]
  /\ UNCHANGED <<output, killVars, job, caller, crashes, strayed>>

\* The first progress report and the load of the session.
LoadSession(s) ==
  /\ run[s] = "begun"
  /\ run' = [run EXCEPT ![s] = "check"]
  /\ UNCHANGED <<sessionVars, killVars, steps, attempt, started, job, caller, crashes, cut, strayed>>

isCancelled(s) == status[s] = "CANCELLED" \/ "flag" \in output[s]

\* Before each step: return when cancelled, without touching the session.
CheckCancelled(s) ==
  /\ run[s] = "check"
  /\ started[s] < NSteps
  /\ run' = [run EXCEPT ![s] = IF isCancelled(s) THEN "return" ELSE "admit"]
  /\ UNCHANGED <<sessionVars, killVars, steps, attempt, started, job, caller, crashes, cut, strayed>>

\* Beyond timeoutMs: markSessionFailed, then throw.
TimeOut(s) ==
  /\ run[s] = "admit"
  /\ status' = [status EXCEPT ![s] = "FAILED"]
  /\ output' = [output EXCEPT ![s] = {"error"}]
  /\ run' = [run EXCEPT ![s] = "catch"]
  /\ UNCHANGED <<killVars, steps, attempt, started, job, caller, crashes, cut, strayed>>

SetStep(s, i, st) == steps' = [steps EXCEPT ![s][i] = st]

CreateStep(s) ==
  /\ run[s] = "admit"
  /\ started' = [started EXCEPT ![s] = @ + 1]
  /\ SetStep(s, started[s] + 1, "RUNNING")
  /\ run' = [run EXCEPT ![s] = "step"]
  /\ UNCHANGED <<sessionVars, killVars, attempt, job, caller, crashes, cut, strayed>>

\* The handler resolves and the row is updated; or something in the step
\* throws and the error is recorded in the row and rethrown.
StepSucceeds(s) ==
  /\ run[s] = "step"
  /\ SetStep(s, started[s], "SUCCEEDED")
  /\ run' = [run EXCEPT ![s] = "check"]
  /\ UNCHANGED <<sessionVars, killVars, attempt, started, job, caller, crashes, cut, strayed>>

StepFails(s) ==
  /\ run[s] = "step"
  /\ SetStep(s, started[s], "FAILED")
  /\ run' = [run EXCEPT ![s] = "catch"]
  /\ UNCHANGED <<sessionVars, killVars, attempt, started, job, caller, crashes, cut, strayed>>

\* After the last step: SUCCEEDED whatever the status is, outputJson replaced;
\* the last progress report follows, still within the try.
Finish(s) ==
  /\ run[s] = "check"
  /\ started[s] = NSteps
  /\ status' = [status EXCEPT ![s] = "SUCCEEDED"]
  /\ output' = [output EXCEPT ![s] = {"result"}]
  /\ run' = [run EXCEPT ![s] = "report"]
  /\ UNCHANGED <<killVars, steps, attempt, started, job, caller, crashes, cut, strayed>>

ReportDone(s) ==
  /\ run[s] = "report"
  /\ run' = [run EXCEPT ![s] = "return"]
  /\ UNCHANGED <<sessionVars, killVars, steps, attempt, started, job, caller, crashes, cut, strayed>>

\* A call within the try fails and changes nothing: the catch block goes on.
Throws(s) ==
  /\ run[s] \in {"check", "admit", "step", "report"}
  /\ run' = [run EXCEPT ![s] = "catch"]
  /\ UNCHANGED <<sessionVars, killVars, steps, attempt, started, job, caller, crashes, cut, strayed>>

\* The catch block reads the status ...
CatchRead(s) ==
  /\ run[s] = "catch"
  /\ run' = [run EXCEPT ![s] = IF status[s] = "CANCELLED" THEN "throw" ELSE "fail"]
  /\ UNCHANGED <<sessionVars, killVars, steps, attempt, started, job, caller, crashes, cut, strayed>>

\* ... and marks the session FAILED in a later call.
markSessionFailed(s) ==
  /\ run[s] = "fail"
  /\ status' = [status EXCEPT ![s] = "FAILED"]
  /\ output' = [output EXCEPT ![s] = {"error"}]
  /\ run' = [run EXCEPT ![s] = "throw"]
  /\ UNCHANGED <<killVars, steps, attempt, started, job, caller, crashes, cut, strayed>>

\* A call before the try, or one of the catch block, fails: the run rejects and
\* leaves the session as it is.
Rejects(s) ==
  /\ run[s] \in {"start", "begun", "catch", "fail"}
  /\ run' = [run EXCEPT ![s] = "throw"]
  /\ strayed' = strayed \cup {s}
  /\ UNCHANGED <<sessionVars, killVars, steps, attempt, started, job, caller, crashes, cut>>

\* The processor's promise settles and BullMQ ends the job (attempts: 1).  The
\* audit row of a run that returned is written unguarded.
EndJob(s) ==
  /\ \/ /\ run[s] = "return"
        /\ job' = [job EXCEPT ![s] = "completed"]
        /\ strayed' = strayed
     \/ /\ run[s] = "return"
        /\ job' = [job EXCEPT ![s] = "failed"]
        /\ strayed' = strayed \cup {s}
     \/ /\ run[s] = "throw"
        /\ job' = [job EXCEPT ![s] = "failed"]
        /\ strayed' = strayed
  /\ run' = [run EXCEPT ![s] = "idle"]
  /\ UNCHANGED <<sessionVars, killVars, steps, attempt, started, caller, crashes, cut>>

\* The worker process dies between two calls; the job stays active until
\* BullMQ's stall check finds its lock expired.
Crash(s) ==
  /\ run[s] \notin {"idle", "dead"}
  /\ crashes[s] < MaxCrashes
  /\ crashes[s] <= MaxStalled
  /\ crashes' = [crashes EXCEPT ![s] = @ + 1]
  /\ run' = [run EXCEPT ![s] = "dead"]
  /\ UNCHANGED <<sessionVars, killVars, steps, attempt, started, job, caller, cut, strayed>>

RecoverStalled(s) ==
  /\ run[s] = "dead"
  /\ run' = [run EXCEPT ![s] = "idle"]
  /\ job' = [job EXCEPT ![s] = IF crashes[s] > MaxStalled THEN "failed" ELSE "waiting"]
  /\ UNCHANGED <<sessionVars, killVars, steps, attempt, started, caller, crashes, cut, strayed>>

RunStep(s) ==
  \/ Claim(s) \/ Start(s) \/ LoadSession(s) \/ CheckCancelled(s) \/ TimeOut(s)
  \/ CreateStep(s) \/ StepSucceeds(s) \/ StepFails(s) \/ Finish(s) \/ ReportDone(s)
  \/ CatchRead(s) \/ markSessionFailed(s) \/ EndJob(s) \/ RecoverStalled(s)

Next ==
  \/ \E s \in Session :
       \/ CreateCheck(s) \/ CreateSession(s) \/ Enqueue(s)
       \/ RunStep(s) \/ Throws(s) \/ Rejects(s) \/ Crash(s)
  \/ \E k \in Killer : KillStep(k) \/ \E s \in Session : KillRead(k, s)

Spec == Init /\ [][Next]_vars

\* The worker's event loop and BullMQ's stall timer keep going: a run that
\* can take its next call takes it.  Nothing is assumed of the API's clients.
FairSpec == Spec /\ \A s \in Session : WF_vars(RunStep(s))

-----------------------------------------------------------------------------
\* Properties

\* A kill that cancels a run in progress stops it: at most the one step whose
\* cancellation check had already passed is still started (CheckCancelled
\* before each step of runExecution).
CancelStopsRun == \A s \in Session : started[s] <= cut[s] + 1

\* A kill that takes the job out of the queue before any delivery is final:
\* the session is CANCELLED and stays so, nothing having overwritten it.
CaughtInQueue ==
  \A s \in Session : job[s] = "removed" /\ attempt[s] = 0 => status[s] = "CANCELLED"

\* SUCCEEDED is only ever written over a complete run: every step row of the
\* delivery that wrote it has succeeded.
SuccessIsComplete ==
  \A s \in Session : status[s] = "SUCCEEDED" =>
    \A i \in 1 .. NSteps : steps[s][i] = "SUCCEEDED"

\* A kill whose call went through is heard: unless another kill of the session
\* is on its way or missed it, or the run had settled the session before, a job
\* that is still to run meets a session it takes for cancelled, whatever starts,
\* deaths and redeliveries came in between (kill, setCancellationFlag, isCancelled).
Heard(k) == kpc[k] = "done" /\ k \notin missed

Meddled(k) == \E j \in Killer \ {k} :
  /\ ktarget[j] = ktarget[k]
  /\ j \in missed \/ kpc[j] \in {"getState", "remove", "flagRead", "flagWrite"}

KillIsHeard ==
  \A k \in Killer : Heard(k) /\ ~Meddled(k) =>
    LET s == ktarget[k] IN
      job[s] \in {"waiting", "active"} /\ output[s] \cap {"result", "error"} = {}
        => isCancelled(s)

\* How a job ended agrees with the session, although any call may fail: one that
\* completed and was never killed left SUCCEEDED; one that failed left FAILED or
\* CANCELLED, unless the worker died or the call that failed was outside the try.
Killed(s) == \E k \in Killer : ktarget[k] = s /\ kpc[k] \notin {"cas", "refused"}

EndedJobIsRecorded == \A s \in Session :
  /\ job[s] = "completed" /\ ~Killed(s) => status[s] = "SUCCEEDED"
  /\ job[s] = "failed" /\ crashes[s] = 0 /\ s \notin strayed
       => status[s] \in {"FAILED", "CANCELLED"}

\* What settled a session is not overwritten but by the worker itself: by a
\* delivery after a death, which begins anew, and by the catch block of the run
\* that wrote SUCCEEDED, when its last progress report fails.  A late kill never
\* does (the status test in kill and its where clause).
FinishedIsFinal ==
  [][\A s \in Session : status[s] \in {"SUCCEEDED", "FAILED"} /\ status'[s] # status[s] =>
       \/ crashes[s] > 0 /\ run[s] = "start" /\ status'[s] = "RUNNING"
       \/ status[s] = "SUCCEEDED" /\ run[s] = "fail" /\ status'[s] = "FAILED"]_vars

\* A job handed to the queue leaves it, whatever kills, deaths and failing calls
\* happen, and settles a session that nobody kills, on a worker that does not die
\* and whose calls fail only where the run catches it.
JobsDrain ==
  \A s \in Session :
    /\ job[s] = "waiting" ~> job[s] \in {"removed", "completed", "failed"}
    /\ job[s] = "waiting" ~>
         (status[s] \in {"SUCCEEDED", "FAILED"} \/ Killed(s) \/ crashes[s] > 0 \/ s \in strayed)

=============================================================================
