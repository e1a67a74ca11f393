------------------------------- MODULE Replay -------------------------------
(***************************************************************************)
(* One replay run: ReplayService.startRun inserts it and queues its job,   *)
(* the worker's runReplayProcessor judges the cases of the dataset one by  *)
(* one and writes the totals, the catch of the worker's main.ts marks what *)
(* it throws, and PromotionService.promote copies the run, as it is by     *)
(* then, into the record of a promotion.  Each step is one call to the     *)
(* database or to Redis.                                                   *)
(***************************************************************************)
EXTENDS Naturals

CONSTANTS
  NCases,        \* cases of the dataset, startRun refuses an empty one
  MaxRunFaults   \* bound: calls that fail outside the try of a case

ASSUME ReplayAssumption == NCases \in Nat \ {0} /\ MaxRunFaults \in Nat

Case == 1 .. NCases

\* The processor counts PASS and IMPROVEMENT as passed, FAIL and REGRESSION as
\* failed.
Verdict == {"passed", "failed", "error"}
Nothing == [v \in Verdict |-> 0]

VARIABLES
  request,   \* where the call of startRun stands
  run,       \* ReplayRun.status, "none" before the insert
  totals,    \* passedCases, failedCases and errorCases of the row
  rows,      \* ReplayCaseResult rows of each case, by verdict
  rpc,       \* where the delivery stands
  next,      \* its next case
  tally,     \* what it has counted
  rjob, rthrown, rstalled,
  cited,     \* evaluationSummary of the promotion that names the run
  runFaults

replayJob == <<rjob, rthrown, rstalled>>
replayVars == <<request, run, totals, rows, rpc, next, tally, replayJob, cited, runFaults>>

\* Mutants: forms of the definitions below with a plausible mistake, which a run
\* below must notice.  The specification uses none of them.

\* The queue's usual second attempt, for a processor that appends rows.
TwoAttempts == 2

\* The run fails when all cases failed, and not when all were errors.
OutcomeOfFailed == IF tally["failed"] = NCases THEN "FAILED" ELSE "COMPLETED"

-----------------------------------------------------------------------------
ReplayAttempts == 1

RunJob == INSTANCE QueuedJob WITH
  job <- rjob, thrown <- rthrown, stalled <- rstalled, Attempts <- ReplayAttempts

Summary == [status : {"PENDING", "RUNNING", "COMPLETED", "FAILED"}, totals : [Verdict -> 0 .. NCases]]

ReplayTypeOK ==
  /\ RunJob!JobTypeOK
  /\ request \in {"idle", "add", "done"}
  /\ run \in {"none", "PENDING", "RUNNING", "COMPLETED", "FAILED"}
  /\ totals \in [Verdict -> 0 .. NCases] /\ tally \in [Verdict -> 0 .. NCases]
  /\ rows \in [Case -> [Verdict -> 0 .. 2]]
  /\ rpc \in {"idle", "mark", "cases", "report", "broken"} /\ next \in 1 .. NCases + 1
  /\ cited \in Summary \cup {[status |-> "none"]}
  /\ runFaults \in 0 .. MaxRunFaults

ReplayInit ==
  /\ RunJob!JobInit
  /\ request = "idle" /\ run = "none" /\ rpc = "idle" /\ next = 1
  /\ totals = Nothing /\ tally = Nothing /\ rows = [c \in Case |-> Nothing]
  /\ cited = [status |-> "none"] /\ runFaults = 0

RunFault == runFaults < MaxRunFaults /\ runFaults' = runFaults + 1

StartRun ==
  /\ request = "idle"
  /\ request' = "add" /\ run' = "PENDING"
  /\ UNCHANGED <<totals, rows, rpc, next, tally, replayJob, cited, runFaults>>

\* When queue.add fails the row stays, and startRun throws.
EnqueueRun ==
  /\ request = "add" /\ request' = "done"
  /\ \/ RunJob!Add /\ UNCHANGED runFaults
     \/ RunFault /\ UNCHANGED replayJob
  /\ UNCHANGED <<run, totals, rows, rpc, next, tally, cited>>

TakeRun ==
  /\ rpc = "idle" /\ RunJob!Take
  /\ rpc' = "mark" /\ next' = 1 /\ tally' = Nothing
  /\ UNCHANGED <<request, run, totals, rows, cited, runFaults>>

\* Mutant: a delivery that finds the run begun leaves it to the other one.
MarkPendingOnly ==
  /\ rpc = "mark"
  /\ IF run = "PENDING" THEN rpc' = "cases" /\ run' = "RUNNING" /\ UNCHANGED replayJob
     ELSE rpc' = "idle" /\ RunJob!Complete /\ UNCHANGED run
  /\ UNCHANGED <<request, totals, rows, next, tally, cited, runFaults>>

MarkRunning ==
  /\ rpc = "mark" /\ rpc' = "cases"
  /\ run' = "RUNNING"
  /\ UNCHANGED <<request, totals, rows, next, tally, replayJob, cited, runFaults>>

\* One case: the row of its verdict, or of the error that judging it threw.
JudgeCase(v) ==
  /\ rpc = "cases" /\ next \in Case
  /\ rows' = [rows EXCEPT ![next][v] = @ + 1]
  /\ tally' = [tally EXCEPT ![v] = @ + 1]
  /\ next' = next + 1
  /\ UNCHANGED <<request, run, totals, rpc, replayJob, cited, runFaults>>

Outcome == IF tally["error"] = NCases THEN "FAILED" ELSE "COMPLETED"

WriteTotals ==
  /\ rpc = "cases" /\ next > NCases /\ rpc' = "report"
  /\ run' = Outcome /\ totals' = tally
  /\ UNCHANGED <<request, rows, next, tally, replayJob, cited, runFaults>>

\* The last updateProgress, and the return.
ReportRun ==
  /\ rpc = "report" /\ rpc' = "idle" /\ RunJob!Complete
  /\ UNCHANGED <<request, run, totals, rows, next, tally, cited, runFaults>>

\* A call outside the try of a case fails, or the row of an error does.
RunBreaks ==
  /\ rpc \in {"mark", "cases", "report"} /\ RunFault
  /\ rpc' = "broken"
  /\ UNCHANGED <<request, run, totals, rows, next, tally, replayJob, cited>>

\* main.ts marks the run whatever it has become; a failure to do so is lost.
MarkRunFailed ==
  /\ rpc = "broken" /\ rpc' = "idle" /\ RunJob!Throw
  /\ \/ run' = "FAILED" /\ UNCHANGED runFaults
     \/ RunFault /\ UNCHANGED run
  /\ UNCHANGED <<request, totals, rows, next, tally, cited>>

\* promote copies the run it is given, whatever its status.
Promote ==
  /\ run # "none" /\ cited.status = "none"
  /\ cited' = [status |-> run, totals |-> totals]
  /\ UNCHANGED <<request, run, totals, rows, rpc, next, tally, replayJob, runFaults>>

\* What the death of the worker leaves of the run.
RunIsCutOff ==
  /\ rpc' = "idle"
  /\ IF rpc = "idle" THEN UNCHANGED replayJob ELSE RunJob!Stall
  /\ UNCHANGED <<request, run, totals, rows, next, tally, cited, runFaults>>

RunWorks ==
  \/ TakeRun \/ MarkRunning \/ WriteTotals \/ ReportRun \/ MarkRunFailed
  \/ \E v \in Verdict : JudgeCase(v)

ReplayNext == StartRun \/ EnqueueRun \/ RunWorks \/ RunBreaks \/ Promote

\* A run by itself, with a worker that may die at any time.
ReplaySpec == ReplayInit /\ [][ReplayNext \/ RunIsCutOff]_replayVars

-----------------------------------------------------------------------------
\* Properties

RowsWith(v) == {c \in Case : rows[c][v] > 0}

\* The totals of a COMPLETED run cover every case and are those of its rows: a
\* case has one row, unless the worker died and the rows of two deliveries add
\* up, and then no verdict is counted that has no row.
CompletedIsCounted ==
  run = "COMPLETED" =>
    /\ totals["passed"] + totals["failed"] + totals["error"] = NCases
    /\ totals["error"] < NCases
    /\ \A v \in Verdict : totals[v] > 0 => RowsWith(v) # {}
    /\ rstalled = 0 => \A c \in Case : \E v \in Verdict : rows[c] = [Nothing EXCEPT ![v] = 1]

\* A promotion that cites a COMPLETED replay goes on citing the totals of that
\* run unless the worker died, and its status unless a call failed too.
EvidenceStands ==
  cited.status = "COMPLETED" /\ rstalled = 0 =>
    /\ totals = cited.totals
    /\ run = "COMPLETED" \/ runFaults > 0

\* A queued run is settled, unless calls fail or the worker dies twice in it.
RunSettles ==
  rjob = "waiting" ~> (run \in {"COMPLETED", "FAILED"} \/ runFaults > 0 \/ rstalled > 1)

=============================================================================
