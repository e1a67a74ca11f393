# Metis.AI in TLA+

Metis.AI runs agent workflows for tenants: a NestJS API (`apps/api`), a worker
process (`apps/worker`) that takes jobs from BullMQ queues in Redis, PostgreSQL
behind Prisma, and a web client. API and worker share no memory: they meet in
database rows and in jobs, and neither of them locks a row. Nearly every
handler reads a row, decides, and writes the row by its id, often after other
calls. What is correct about this program is therefore about interleavings, and
that is what these modules are about.

In all modules **one action is one database or queue call** of one process, with
what the code computes before its next call. A guard `pc[p] = "x"` is where the
process stands in its handler; a local variable is what it read earlier and
still uses.

## 1. The parts of the system

| part | state | operations | hard behaviours | modules |
|---|---|---|---|---|
| Execution (`execution.service`, `execution-processor`) | session status and output, step rows, one job per session | create, kill; run with cancellation checks between steps | kill against start, steps and the end of the run; flag in `outputJson` merged from an old read; worker death and redelivery | `Execution` |
| Canary releases (`canary.service`, `canary-evaluator`) | deployment status, traffic and window, gate results, promotion rows, delayed jobs by id | create, start, evaluate, promote, rollback; evaluation by job | manual calls against the job, retries of a window, late jobs, worker death | `Canary` |
| Pack lifecycle (`pack-import-pipeline`, `pack.service`, `certification.service`) | version status, certifications, checksum, installations, import job | import in stages with retries and a timeout per stage; transition, certify, revoke, install, uninstall | a stage that goes on after its timeout, retry from the first stage, administrator against pipeline | `PackDomain`, `PackStates`, `PackLifecycle` |
| Workflow persistence (`workflow-persistence.service`) | workflow row with version, node and edge rows, published snapshots | create, update, restore, publish, archive, remove | version check before the transaction, READ COMMITTED statements of two transactions, unique keys | `WorkflowHistory`, `WorkflowStore` |
| Connector call gates (`connector-runtime`, `connector.service`) | token bucket, windows, circuit, by connector | invoke; configure | answers after the circuit opened, concurrent trials, traces that fail, restart of the API | `CallGates` |
| Connector processes (`connector-runtime`, `connector.service`) | MCP client and its server, restart timers and counts, the row's status | start, stop, restart, delete, health check, invoke; close event | close event after stop, start while connecting, a timer that outlives what armed it | `ConnectorLifecycle` |
| Workflow runner, missions, bus (`workflow-runner`, `node-router`, `mission.service`, `bus.service`) | session, plan of levels, mission status, stored messages and stream | run by levels; start, pause, resume, complete | nodes of a level together; user and run change one mission; three writes per operation, each may fail | `GraphExecution`, `WorkflowRuns` |
| Node pipeline (`pipeline-engine`, `workflow-nodes.controller`) | session, node results, map of streams | execute, execute-sync, stream | retry in place, events before the client subscribes, a process that dies | `Pipeline` |
| Execution bridge and builder run (`workflow.service`, `builder/page.tsx`) | what the page shows | execute-draft, then pipeline, then local simulation | a lost answer of a run that goes on | `BuilderRun` |
| Replay, promotion records (`replay.service`, `replay-processor`, `promotion.service`) | run, totals, case rows, what a promotion cites | startRun, the job, promote | redelivery over rows of the first delivery, a promotion in the middle of it | `QueuedJob`, `Replay` |
| Autonomous operations (`autonomous-ops.service`, `autonomous-ops-processor`) | action status, effect on the connector, messages to the mission | execute by job, verify, revert | job against revert, two reverts, retry of what was done | `QueuedJob`, `AutoAction` |
| Builder page as an editor (`builder/page.tsx`) | nodes shown, known version, URL, session and local storage | edit, clear, load, save, publish | version known of nodes not seen, late load answers, fallback to the browser's storage | `DraftSaving` |
| Harness (`builder-harness.ts`, `builder-validation.service`, `builder-eval.service`) | nodes of a draft; plan, validation, evaluation, repairs of a request | validate, evaluate, repair, save | repairs that need repairs, conversions that drop what a repair wrote, evaluation of an older plan | `Harness`, `HarnessDraft`, `BuilderRequest` |
| AP agent (`ap-agent.service`) | invoice row: status, parsed fields, matching result, marks of the decision | create, parse, match, approve, reject | a recognition that ends after the invoice was decided, two deciders | `Invoice` |
| Shadow, executors, events, FDS, FinOps, registries, governance, auth, other pages | | | single handlers, arithmetic on reals, text, I/O | not modelled, section 6 |

They interact in four ways. The API adds jobs that the worker takes (`exec-<id>`,
`canary-eval-<id>-w<n>`, pack imports, replays, actions); both write the same rows; the API
removes jobs (`kill`); and one calls another: the page calls the bridge, the
bridge the runner, the runner missions and the bus (composed in `BuilderRun`), a
promotion copies a replay run (in `Replay`), a quarantine changes a connector
(in `ConnectorLifecycle`). An execution reads the installation of its pack only when it is
created, and shares nothing with it afterwards.

What makes each part correct, in words: a killed run stops and stays
killed, a successful run did all its steps, and every job comes to an end
(execution); traffic is earned by gates, and an
active canary is not forgotten (canary); one thread works on a version and it
moves along the table of transitions (packs); a version number names one
definition, and history is never rewritten (workflows); no node runs before what it
needs, and the mission, its messages and who waits are told what the session
says (engines); evidence stays what was cited, VERIFIED was done, a stopped
connector stays down (services); nobody's nodes are overwritten unseen, and a
repair repairs (builder); an invoice is decided once (AP agent).

## 2. The modules

### Execution (`Execution.tla`, `ExecutionProofs.tla`)

| code | actions |
|---|---|
| `ExecutionService.create` | `CreateCheck`, `CreateSession`, `Enqueue` |
| `ExecutionService.kill`, `setCancellationFlag` | `KillRead`, `KillCas`, `KillMerge`, `KillGetState`, `KillRemove`, `KillFlagRead`, `KillFlagWrite`; `KillBreaks` |
| BullMQ | `Claim`, `EndJob`, `Crash`, `RecoverStalled` (external) |
| `runExecution` | `Start`, `LoadSession`, `CheckCancelled`, `TimeOut`, `CreateStep`, `StepSucceeds`, `StepFails`, `Finish`, `ReportDone`, `CatchRead`, `markSessionFailed`; a call that fails: `Throws` inside the try, `Rejects` outside it |

`status` and `output` are the session's row; `output` keeps which keys
`outputJson` has, because `kill` writes back a copy it read earlier. `steps` has
the rows of the current delivery: those of earlier ones stay in the table, and
nobody reads them. The step results, latency and cost are not
kept. Any call of the run or of a kill may fail: what a failure inside the try does (the catch
block marks the session, over a SUCCEEDED too if the last progress report is what failed), what one
outside of it leaves (a job that failed and a session QUEUED or RUNNING), and the audit row
after a run that returned (`EndJob`: a failed job of a SUCCEEDED session).
Three history variables: `cut`, how many steps the run had started when a
kill won; `missed`, the kills that neither removed nor flagged a job still to run; `strayed`,
the sessions of which a call outside the try failed.

Not modelled: audit and trace rows, which nobody reads; the number of worker slots.

### Canary (`Canary.tla`, `CanaryProofs.tla`)

| code | actions |
|---|---|
| `CanaryService.create`, `start` | `CreateCheck`, `CreateInsert`; `StartRead`, `StartWrite`, `AddJob` |
| `evaluateGate` | `EvaluateRead`, `RecordGate`, `Pause`, `Advance` |
| `promote`, `rollback` | `Decide`, `Promote`, `Rollback`, `Refuse`, `RecordPromotion` |
| `runCanaryEvaluator` | `TakeJob`, `LoadDeployment`, `Defer`, `RecordGate`, `Pause`, `Advance`, `Promote`, `Rollback`, `RecordPromotion`, `AddJob`, `EndJob` |

A process is a call of the API or a slot of the worker; both share the actions where the
code does the same thing twice, and the guards tell where the two differ: the
API's promotion and rollback are conditional updates, the worker's are not. Jobs
are kept per deployment, window and try, since a queue ignores an
`add` whose job id it has. The verdict of a gate is any of `Verdicts`: metrics
and rules are a pure function of data outside the model. `Defer` has no limit of its own in the code: without
traffic a window is put off for good, and `MaxRetry` is where the model stops following that. `revived` is a history variable: canaries
that a start, which had read PENDING, made ACTIVE again after they were decided or paused.

### Packs (`PackDomain.tla`, `PackStates.tla`, `PackLifecycle.tla`, `PackProofs.tla`)

`PackDomain` is the table of transitions and of the roles that may make them, and
`canTransition`. `PackStates` is the abstract life of a version. `PackLifecycle`
has the pipeline stage by stage (`FetchAndParse`, `FindPack`, `FindVersion`,
`CreatePack`, `CreateVersion`, `Validate`, `ValidationFails`, `Scan`,
`CreateCert`, `Certify`, `Sign`, `Publish`, `RecordImport`), the queue
(`Deliver`, `Retry`, `Fail`, `StageTimeout`) and the API's calls
(`TransitionRead`/`Write`, `CertifyRead`/`Create`/`Write`,
`RevokeRead`/`Delete`/`Count`/`Demote`, `InstallRead`/`Find`/`Create`, `Uninstall`).
A thread is an import or one of `Late`, the places for stages that outlived their timeout: the pipeline races a stage
against a timer and does not stop it, so every attempt may leave one behind (`StageTimeout`). What manifests and scans accept is a
choice between going on and failing. The install stage is left out, as the API
never asks for it.

### Workflows (`WorkflowHistory.tla`, `WorkflowStore.tla`, `WorkflowProofs.tla`)

`WorkflowHistory` is what clients may rely on. In `WorkflowStore` a call is a
check followed by a transaction. Transactions run at PostgreSQL's READ COMMITTED
level, the default that nothing in the repository changes. `DeleteSees` and
`DeleteRows` are the two halves of one DELETE: it looks for rows
when it starts, waits for those another transaction is deleting, and deletes what is
left of them. `InsertRows` waits for a key another transaction has not
committed and fails on one that is there. `Commit` is the update of the workflow's
row, by id alone, and the end. `Rollback` is any failure in between. A node row keeps the
save it comes from, so two saves with the same keys can be told apart. `crossed` is a history variable: a DELETE has
started inside another transaction that replaces the nodes, the one order in which READ COMMITTED mixes two saves. Edges are replaced in
the same way and the nodes stand for both; `duplicate` is a
`create` of another workflow.

### Connector calls (`CallGates.tla`, `CallGatesProofs.tla`)

| code | actions |
|---|---|
| `ConnectorService.invoke` | `Dispatch`, `DispatchUngated`, `Refuse`; `Answer`; `TraceWritten`, `TraceFails` |
| `RateLimiter` | `RateAllows`, `RestartWindows`, `Refilled` |
| `CircuitBreaker` | `CanExecute`, `LetThrough`, `RecordSuccess`, `RecordFailure` |
| `create`, `startConnector` | `Configure` (`FreshBucket`, `FreshCircuit`) |
| API process, clock | `Reboot`, `Tick` |

One connector: the maps are keyed by its id. Both gates run without an `await` between, so one
step passes both and takes the token. Time is ticks, kept as ages (`since`,
`waited`) that stop growing where the code stops telling them apart. A bucket counts
fractions of a token, `Minute` to the token, which makes its refill whole. A refill
at each tick is the refill of the elapsed time at the next check. `known` is FALSE in a process that
has configured nothing since it started, where calls pass ungated.
`failureCount` is followed up to its threshold. `age` and `sent` are a history: an
interval that may begin at any tick and the calls dispatched in it. Dispatch to MCP, REST or
webhook is a success or a failure; the connector row's status, the limits a later
`update` writes and the call log are left out.

### Runs of graphs, missions and messages (`GraphExecution.tla`, `WorkflowRuns.tla`, `EnginesProofs.tla`)

| code | actions |
|---|---|
| `WorkflowRunnerService.run` | `CreateSession`, `CreateSessionFails`, `CreateMission`, `Created`, `StartMission`, `BeginLevel`, `EndLevel`, `NoLevelLeft`, `Finish`, `FinishFails`, `CompleteMission`, `MissionCallFails` |
| `planExecutionLevels` | `PlanLevel`, `PlanEnds`, one level a step |
| `WorkflowNodeRouter.execute`, `dispatch` | `NodeThrows`, `NodeSucceeds`, `NodeFails`, `NodeAsks`, `NodeIsAnswered`, `HumanPauses`, `HumanPaused`, `NodeIsCutOff` |
| `MissionService.start`, `resume`, `pauseForHuman`, `complete` | `Begin`, `Check`, `Set`, `Write`; `WriteStarted`, `Started`, `StartRefused`, `Completed` |
| `MissionController` | `UserBegins`, `UserStep` |
| `A2ABusService.publish` | `Publish`: the row, then the stream |

A node is a position of the input with where it stands; what it computes is a
choice of success and failure. A node whose input mapping does not `resolves` (a reference that is no string: the
builder makes none, a client of the API may) throws outside the node's try, and the run rejects with its session RUNNING
(`NodeThrows`). A node that asks a connector, an adapter or an agent waits in `"working"`, and nothing bounds for how long. A mission operation writes the status and then
says so; `told` and `aired` are the last status that stored messages and stream announce.
`GraphExecution` is what any scheduler of a graph promises; the run
implements it under a mapping of the nodes' places to sets of started, done and failed.

### The pipeline (`Pipeline.tla`) and the page that runs a draft (`BuilderRun.tla`, `EnginesProofs.tla`)

`Post` is the three entrances of the controller, `CreateRun`, `Execute`, `Record`,
`Retry`, `NextNode`, `FinishRun` and `Announce` are `PipelineEngine.execute` call by call;
`Open`, `Hear`, `Disconnect` and `Finalize` the event stream, which
replays nothing and whose entry is gone when the execution has ended. `BuilderRun` composes runner and pipeline:
`ExecuteDraft`, `DraftAnswered`, `DraftFails`, `DraftIsCut`, `FallBack` and
`PipelineAnswered` are `runPipeline` of the page, whose mappings resolve, `CallRun`, `CallPipeline` and `UserActs`
other clients, and `ProcessDies` ends both engines, which are one process.

### Jobs of the worker (`QueuedJob.tla`, `Replay.tla`, `AutoAction.tla`)

`QueuedJob` is a BullMQ job as the code uses one; both modules take it with
`INSTANCE` and conjoin its actions to theirs. `Replay`: `StartRun`, `EnqueueRun`
in the API; `TakeRun`, `MarkRunning`, `JudgeCase`, `WriteTotals`, `ReportRun` in the processor,
`MarkRunFailed` in the worker's catch; `Promote` of the promotion service. `AutoAction`:
`CreateAction`, `TellMission`, `QueueAction`; `TakeAction`, `Apply`, `ApplyThrows`,
`WriteOutcome`, `ReportAction`; `Verify`, `CheckRevert`, `WriteRevert`, `TellRevert` of
operators. `RunBreaks` and `ActionBreaks` are calls that fail, `RunIsCutOff` and
`ActionIsCutOff` the death of the worker.

### Connector processes (`ConnectorLifecycle.tla`)

A client is a number, a call (`Begin` to `WriteRow`) does one of start,
stop, restart, delete, invoke and health check. `Spawn`, `StopClient`, `Connects`,
`GivesUp` and `Closes` are what `MCPClient` and `LifecycleManager` do with the server,
`Arms` and `TimerFires` the restarts. `mine` is the client in the manager's
map: a server whose client is not there has no owner. `ApiCrashes` forgets map
and timers and leaves the row; servers close when their pipe does.

### Builder (`DraftSaving.tla`, `Harness.tla`, `HarnessDraft.tla`, `BuilderRequest.tla`, `HarnessProofs.tla`)

| code | actions |
|---|---|
| `handleServerSave`, `handleFloSaveLocal` | `Save`, `Search`, `Saved`, `SaveLocally`, `LoseCall`; on the server `CheckVersion`, `WriteNodes`, `Create` |
| `handlePublish` | `AskPublish`, `Published`; on the server `WriteVersion` |
| effects that load, restore and keep the draft | `ReadWorkflow`, `ShowWorkflow`, `Remount` |
| `handleUpdateNode` and its like, `handleClear` | `MakeEdit`, `Clear` |
| `handleAddNode`, `handleDeleteNode`, `handleApplyRepair`, `handleAutoRepairAll` | the same names |
| `validate`, `evalPreview`, `repair`, `save` of the API | `Validate`; `EvalPreview`, `WriteEval`; `RepairRead`, `WritePlan`, `RecordRepair`; `SaveRequest`; `WriteStatus` of each; `HandlerThrows`, a write of any of them that fails |

In `DraftSaving` a content is the number of the edit that made it. The page
keeps the version it knows apart from the nodes it shows, as the code does (`serverWorkflow`
and `nodes`). On the server a call is two steps here, `WorkflowStore` has its
statements. `Harness` is `validateStructure` and `applyRepair`, which page and API each have
a copy of; a node keeps what they ask of it. `Lacking(w, l)` is what one check of
`validateStructure` says of `w`: the ids of the nodes at fault, or 0 for the workflow. A repair is
of one check and of some of its nodes; `AllRepaired` does those of all checks (`Redo`) in the order of
their issues, errors first, each on what the ones before it left. `ToPage` is the conversion back,
which keeps settings only. Node types are a parameter, `NodeType`: the checks name some of them; a node of
another type that goes to `metis-audit` is one that audits (`Audited`).

### Invoices (`Invoice.tla`)

Each call of `APAgentService` is its read and check (`CreateInvoice`, `ParseInvoice`, `RunMatching`,
`Approve`, `Reject`, all by `ReadInvoice`) and its write, or a failure of it (`CallThrows`). Of the
row the status is kept and whether `parsedJson`, `matchingResult`, `approvedByUserId` and `rejectedReason`
are set; a rejection need not give a reason, as nothing checks the body of the request (`WriteRejected`). `behind` are the
calls in progress at a decision and `overturned` tells whether one of them wrote over it: a history. Nothing writes PARSING, EXCEPTION or PAID: `runMatching` passes no order and no receipt.

### Composition (`Services.tla`, `ServicesProofs.tla`)

The replay run, the autonomous action, the connector, the page, its harness, the
request and the invoice share at most the worker process: `Services` takes one of them at a time, `WorkerDies`
cuts off both jobs. It is a sum and shows nothing about their interplay beyond that.

## 3. What is checked

Each passing run explores without deadlock checking: a finished system
stops, as every call is made a bounded number of times.

| run | instance | properties |
|---|---|---|
| `execution` | 1 session, 2 kills, 2 steps, redelivered once, up to 2 deaths; fair | `CancelStopsRun`: a cancelled run starts at most one more step; `KillIsHeard`: after a kill that went through, a job still to run meets a cancelled session; `SuccessIsComplete`: SUCCEEDED is of a delivery all of whose steps succeeded; `EndedJobIsRecorded`: how a job ended agrees with its session; `FinishedIsFinal`: a late kill overwrites no outcome; `JobsDrain`: jobs end, and settle their sessions |
| `canary` | 1 deployment, 2 calls, 2 slots, 2 windows, 2 gates, 1 fault | `TrafficEarned`, `DecisionIsRecorded`, `ActiveIsEvaluated` |
| `canary_live` | 3 windows, 1 slot, 1 retry, no fault; fair | `CanaryEnds` |
| `canary_rollback` | 1 call, 1 slot | refutes `RolledBackIsFinal` |
| `pack_pipeline` | 2 imports of a version, 3 attempts, 2 late stages; fair | `OneDriver`, `FollowsLifecycle` (refinement of `PackStates`), `ImportsEnd` |
| `pack_both` | 1 import, 2 calls | `BlockStands`: what is blocked while nothing is under way stays blocked and is not installed |
| `pack_blocked` | 1 import, 1 call | refutes `BlockedIsFinal` |
| `workflow` | 2 clients, 2 keys, 3 saves, 5 versions | `FollowsHistory` (refinement of `WorkflowHistory`), `SavesStayWhole`: nodes and published versions are of one save unless two replacements crossed |
| `workflow_merge` | 2 clients, 2 keys | refutes `ReplacementIsAtomic` |
| `call_gates` | 2 calls; minute of 1 tick, hour of 3; 3 in either, bucket of 2; threshold 2, timeout 2; fair | `RateBound`, `TripsExactly`, `OpenIsQuiet`, `Recovers` |
| `engines` | 6 graphs, 1 user with 2 operations, 1 fault, 1 outage, 2 retries; fair | `FollowsGraph` (refinement of `GraphExecution`), `MissionAgrees`, `HistoryTellsStatus`, `PipelineOutcome`, `ToldIsTrue`, `RerunNeedsFault`, `EveryWaitEnds` |
| `services` | 2 cases; 2 operators; 2 calls, 3 clients, 1 restart, 2 timers; 2 deaths, 2 faults of each kind; drafts of 2 edits and 3 versions; 31 drafts of up to 2 nodes; 2 clients and 5 calls on a request; 2 clerks and 6 calls on an invoice; fair | `TypeOK`, `CompletedIsCounted`, `EvidenceStands`, `VerifiedWasApplied`, `RevertsAreCounted`, `ServersAreOwned`, `StoppedStaysDown`, `OverwritesAreSeen`, `LocalHasCause`, `RepairsSettle`, `SerialCallsAreSound`, `DecisionStands`, `AllEnds` |

Several properties name their exceptions (`trouble`, `overlap`, `replaced`,
`crossing`, ...). These history variables are the result as much as the property is: each
exception was needed, since TLC shows a behaviour for it, and the property says that
nothing else breaks the promise; what it excepts is not checked, and each hazard in `PROJECT.json` says so where
its own case is an exception. Every property has been seen to fail on a
mutated definition, listed in `PROJECT.json`.

**Bounds.** Two kills are enough for every race of kills: a third meets
the same session states. Two steps give a step before and after a
cancellation check; three deliveries of a job are two redeliveries, one past the
limit. One deployment suffices because canaries share nothing after
`CreateCheck`; two calls make two starts, or a start and a decision, that overlap, and
two windows and two gates an overlap of a manual and a scheduled evaluation, traffic that
reaches the maximum and traffic that does not. Two slots are the worker's `concurrency`. Two imports of a version meet in
`normalize`; two late stages let one of each import, or of two attempts of one, outlive its timeout, and the code
would let all of the three attempts leave one behind: `PackProofs` has any number of them. Two
clients make every pairwise overlap of transactions, two keys definitions that
collide and that do not. Two calls make an answer that arrives after another
call opened the circuit or began a trial; an hour of three ticks is long enough for its
window, and not the bucket, to be what limits it. The six graphs are a
chain, two branches with a human, two humans of a level before a node, an id given twice, a mapping that does not resolve and a
cycle behind a node that runs: what the planner tells apart; two operations of a user are one that
meets the run's and one that meets the first. Two cases give totals that differ by
their order, two deaths a job that is given up. Three clients are one,
its replacement, and the one of a timer; one restart is the limit and one
beyond it. Two edits and three versions are a save, another's save or publish,
and the save that meets it. A draft of two nodes with one more added or deleted has every
issue there is except where three nodes are asked for, which repairs add. Five calls on
a request are validate, repair, validate again, evaluate and save, in any order and two at a time; the plans are
the one template the planner has nodes for, and none. Six calls on an
invoice are the four that decide it and two that overlap them. The bounds `MaxCrashes`, `MaxFaults`, `MaxGates`,
`MaxWindow`, `MaxSaves`, `MaxVersion`, `MaxSpan`, `MaxOps`,
`MaxOutages`, `MaxRunFaults`, `MaxActFaults`, `MaxDeaths`, `MaxClients`, `MaxCalls`,
`MaxTimers`, `MaxEdits`, `MaxLosses`, `MaxNodes`, `MaxTouches`, `MaxHandled` and `MaxRequests` only cut
behaviours short, and so does the number of `Late` places. `MaxRetry` does more: the code defers a window as often as traffic
is short of the minimum, so what ends with the bound does not end there, and `CanaryEnds` excepts a canary that has
used it up (`Starved`). Symmetry is used on interchangeable processes and keys, and not in runs
that check liveness.

**Fairness.** A process that is alive goes on with what it has: weak fairness of `RunStep(s)`,
of the canary's `Step` and `SlotStep`, of `ImportStep(i)`, of the runner and its nodes, the pipeline and its client, of `RunWorks` and
`ActionWorks`, of each call on a connector, and of connection attempts, which are answered or
time out after 30 s. The answer to a node that asks a connector, an adapter or an agent has no fairness: local handlers,
adapters and webhooks have no timeout, and that of a REST agent ends with the first byte of the answer
(`dispatcher.service.ts:157-223`). `EveryWaitEnds` therefore excepts a run that waits for such an
answer for good (`Hangs`), and whoever waits for that run. Executors of the pipeline are assumed to answer: their requests go through
`fetch`, whose defaults end headers and body after 300 s each, their commands have a timeout, and mail has
its socket's. Nothing is assumed of users, failures, deaths and
timeouts: they may always happen and never must. The liveness results
are about what the code does when nobody interferes further. `CanaryEnds` is without
faults and without WARN, after which the worker schedules no further evaluation, and speaks of
canaries that get traffic.
`Recovers` assumes that time passes, calls keep coming and dispatches are answered,
which the code does not guarantee of a stream or a body that is cut (a trial that hangs
blocks no other), and that from some point on nothing fails.

## 4. What is proved

With TLAPS, for every value of the constants that satisfies the module's ASSUME:

| module | theorems | argument |
|---|---|---|
| `ExecutionProofs` | `TypeCorrect`, `KillSwitchStops`, `KillsAreHeard`, `KillInQueueIsFinal`, `SucceededIsComplete`, `JobsAgreeWithSessions`, `FinishedStaysFinished` | `IInv` adds where a job and its run may stand (`QueueInv`, `DeliveryInv`), what a kill has done so far (`KillInv`), how many steps a run past its check may start (`CutInv`), which rows a run has finished (`StepInv`, `FinishedInv`), and what a job that ended says of its session (`EndedInv`) |
| `CanaryProofs` | `TypeCorrect`, `TrafficIsEarned`, `DecisionsAreRecorded`, `ActiveStaysEvaluated` | where a process stands bounds what it works on (`LocalInv`), and its snapshot is worth at most what the recorded passes earn, which only grows (`SnapshotInv`). For the evaluation, as long as no call has failed (`FlowInv`): one process carries the chain of a deployment (`AloneInv`, `HoldInv`), the chain goes on from where it stands (`ChainInv`), and no job id that it is going to add was used before (`UntouchedInv`, `WorkInv`, `RetryInv`, `FollowedInv`) |
| `PackProofs` | `TypeCorrect`, `VersionHasOneDriver`, `BlocksStand`, `CompletedImportsPublish`, `PipelineFollowsLifecycle`, `CallsFollowLifecycle` | drivers come only from the insert of a unique version (`AbsentInv`, `OneDriver`), so the driver's stage determines the status (`StageInv`, `CompletedInv`); the two refinements assume no API calls, and at most one call and no import |
| `WorkflowProofs` | `TypeCorrect`, `WorkflowFollowsHistory`, `SerialUpdatesAreSeen`, `ApartSavesStayWhole` | published numbers are `1 .. active` and a number a client holds is at most the next (`NumbersInv`), so the unique index refuses every stale publish; without overlap what a call read is still so when it writes (`CallInv`) |
| `CallGatesProofs` | `TypeCorrect`, `BucketBoundsCalls`, `WindowsBoundCalls`, `CallsAreBounded`, `HealthyIsClosed`, `CircuitTripsExactly`, `OpenCircuitIsQuiet` | what the bucket holds and what was sent are covered by a full bucket and the interval's refills; calls a window forgot were at most its limit (`BucketInv`); a closed circuit counts the failures in a row (`CircuitInv`); calls alone leave one failure, which the next answer clears (`AloneInv`) |
| `EnginesProofs` | `PipelineTypeCorrect`, `OutcomeIsOfNodes`, `ClientIsToldTheTruth` | inside the loop the nodes before the current one have results and those behind it none (`LoopInv`), `hasFailed` is of a node that is not tried again (`FailedInv`), and what is on its way to the client is true (`ClientInv`) |
| | `RunFollowsGraph` | the levels planned hold a node once and behind what it needs (`LevelsInv`), a node has been reached only in the levels done and the one in progress (`ReachInv`), and a failure ends the run behind its level (`VerdictInv`): so each step of the run is one of `GraphExecution` or none |
| | `MissionsAgree`, `MessagesTellStatus`, `RerunsHaveCause` | what the operations in progress are about to write to the mission (`MissionInv`) and to say of it (`TellInv`); which engine the page has given its nodes to (`PageInv`) |
| `ServicesProofs` | `AutoTypeCorrect`, `VerifiedRemediationWasApplied`, `RevertsAreOfOneAction` | a delivery past the adapter changed the connector once (`EffectInv`); operators who may still revert or have yet to tell are counted against what was reverted and told (`RevertInv`), and those who do not meet revert an action that is not reverted (`AloneInv`) |
| | `ReplayTypeCorrect`, `CompletedRunsAreCounted`, `CitedEvidenceStands` | the rows a delivery may have written by the case it is at, and what its tally counts (`CountInv`); what the first delivery alone has written (`FirstInv`) |
| | `LifeTypeCorrect`, `ServersHaveOwners`, `StoppedHasNoClient` | which client each call awaits (`AwaitInv`), that calls which do not overlap are alone (`Alone`), and which steps may still bring a client back (`DownInv`) |
| | `SavesReplaceWhatWasSeen`, `LocalDraftsHaveCause` | the page, the answers on their way to it and the save it has begun know no version whose nodes they have not seen, but for the exceptions (`SeenInv`); without trouble a save goes through (`QuietInv`) |
| | `InvoiceTypeCorrect`, `DecisionsStand` | what the check of a call in progress read lasts, and a call beside a decision was `behind` it (`Checked`), the fields go with the status (`Matched`), and the marks of a decision with its own status until a call that was `behind` it writes (`Marked`) |
| | `ServicesTypeCorrect` | a step of one service leaves the variables of the others, and a death of the worker is a step of both jobs |
| `HarnessProofs` | `HarnessTypeCorrect`, `RepairsSettleDrafts` | a repair keeps what the repairs before it brought (`Kept`) and settles its own (`Settled`), so all of them in their order settle all; that the id of an added node is new takes the bound of a sequence's ids (`FreshId`) |
| | `RequestTypeCorrect`, `SerialCallsRepairAndSave` | while calls do not cross, one is in progress and what it is about to write is of the rows as they are (`StageInv`), an issue on record stays settled (`MendedIs`), and a validation and evaluation called fresh are those of the plan (`SerialInv`) |

The invariants as stated are not inductive: `CancelStopsRun`, for instance, says nothing
of a run that has passed its check, which may start one more step; `CutInv` says
how many are left to it from each place of the loop. Each proof has one step per
action, over lemmas for what the actions share (`WriteInv`, `BeginInv`,
`ProceedEffect`, `ThrowEffect`, `RepairKeeps` and others).

What the constants are assumed to be is stated beside them (`ExecutionAssumption`, `PackAssumption`,
...): bounds are natural numbers, processes that are counted are finitely many. `Given` says of the drafts, plans
and nodes a workflow begins with that their nodes go by different ids, none above `LastId`;
`BuilderAssumption` and `RunsAssumption` say what the graphs and inputs of a run are. Where a fact about
all sequences needs an induction, it is by the least counterexample: that a set of
natural numbers has a least element (`LeastNumber`) follows from the well-founded order of
`WellFoundedInduction`, without an operator as a parameter.

Proved and not run: type correctness of the modules above other than `Services`, `CaughtInQueue`,
`CompletedIsPublished`, `LostUpdateNeedsOverlap`, `BurstBound`, `WindowBound` and
`HealthyStaysClosed`. TLC confirmed each of them before it was proved, and so it did the
inductive invariants.

Every invariant and every action property of a passing run is a theorem, and so are its refinements.
Only model-checked is liveness, which is beyond the prover: `JobsDrain`, `CanaryEnds`, `ImportsEnd`,
`Recovers`, `EveryWaitEnds` and `AllEnds`. A theorem about a part of a composition is stated of the part's own
specification.

## 5. What the models refute

* A rolled back canary may end PROMOTED (`canary_rollback`).
* A version blocked during its import ends PUBLISHED (`pack_blocked`).
* Two updates with one `expectedVersion` both succeed, and the nodes of the workflow may be
  those of both (`workflow_merge`).

The models reach more, and the properties that pass name it among their exceptions:

* Execution: a run that sees only the flag ends its job and leaves its session RUNNING
  (`execution-processor.ts:83`); a run whose last progress report fails turns SUCCEEDED into FAILED
  (line 177), and one whose first update, progress report or load fails leaves QUEUED or RUNNING under a failed job (lines 48 to 75);
  an audit row that cannot be written fails the job of a SUCCEEDED session (`main.ts:114`); a worker's first update replaces CANCELLED and the run goes
  on until it meets the flag; `kill` writes its older copy of `outputJson` over the results of a run
  and over the flag of another kill;
  concurrent creates exceed `maxConcurrency`.
* Canary and packs: two creates make two live canaries of a pack; a start that had read PENDING makes
  a promoted, rolled back or paused canary ACTIVE again, and as the id of its first job is used
  nothing evaluates it any more; after WARN the API schedules the next window
  (`canary.service.ts:264`) and the worker does not, although its comment says that it continues
  (`canary-evaluator.ts:271`), and a canary without traffic is deferred for good; `certify` and `revoke` in
  progress together leave CERTIFIED without a certification.
* Connectors: traces that cannot be written open the circuit of a healthy connector when
  calls overlap; a half-open circuit admits any number of trials, since
  `halfOpenAttempts` is never incremented, and closes after one success if an earlier trial
  period had one; after a restart of the API a connector is called without limits until it is
  started again. `stop` sends SIGTERM, the close event has no exit code 0 and arms a
  restart: a stopped connector comes back, also after `delete`, whose comment
  (`connector.service.ts:165`) says the process is stopped first.
* Workflows: a removed workflow becomes PUBLISHED by a publish that had read it before.
* Runner and missions: a graph that cannot be planned leaves its session RUNNING, and so does a mapping that does not resolve
  (`node-router.service.ts:73` and `219`); after the first of them the page runs its nodes in the pipeline, which does not look at dependencies; resuming a mission makes it
  RUNNING although nothing continues the run; missions leave FAILED, which
  `prisma/schema.prisma:1023` calls terminal; trace rows of the bus always fail, as there is no
  user `system-bus`; unacknowledged stream entries have no reader.
* Pipeline: the step rows of a node stay FAILED after a retry that succeeded; a failure with
  `continue` still fails the run, and one whose retries are exhausted does not stop it.
* Page and bridge: every rejection of execute-draft falls back to the pipeline
  (`page.tsx:2549`), a timeout of a run that goes on included, and the nodes run twice.
* Invoices: a recognition that ends after the invoice was decided puts it back into matching, and a
  second decision leaves it approved and rejected at once. The traces of every transition are
  written to a session `ap-agent-session` that nothing creates, and fail. Reading the rest of the
  part showed two more: the page asks for statuses that are none (`inbox`, `completed`; `workspaces/ap/page.tsx:90`), and
  the tolerance of 1 % for amounts (`ap-matching.ts:100`) is one of 0.01 %.
* Autonomous operations: a quarantine whose update failed is VERIFIED; reverting undoes
  nothing on the connector.
* Builder: every rejection of a save goes to the browser's storage and is shown as
  saved, although the comment (`page.tsx:3295`) speaks of a server that is unavailable: a version
  conflict too, and a title that mixes Hangul and Latin, whose key the API refuses. A publish
  tells the page a version of nodes it has not seen, and clearing the page keeps it linked: in
  both cases the next save replaces nodes of others. After a first save the page loads the
  workflow again and edits made meanwhile are gone.
* Harness: a new condition node has its expression under a name the validator does not
  look for, so it blocks at once; a repair that adds retries never sticks on the page; in the API an
  evaluation without validation says that the request can be saved, and `save` trusts an
  evaluation of an older plan although it is to "block if blocking errors exist"
  (`builder-eval.service.ts:213`).

## 6. Not modelled, and why

* Rows that calls read and write without a promise about their order: FinOps, fraud alerts (resolving
  and escalating write whatever the status is), capability and agent registries, governance, auth,
  notifications; and scores, predictions and optimisations, which are arithmetic on real numbers.
* Events: an in-memory fan-out and a ring buffer; only the administrator's test endpoint publishes.
* Shadow evaluation: `createPair` and `shouldShadow` have no caller, so no pair ever exists.
* `executePipelineAsync` of the API service, `subscribeToTenantChannel` and the CANCELLED that the
  replay job polls for: no caller, no writer.
* Node executors: files, mail, LLM and HTTP calls; their outcome is a choice.
* The SSE transport of connectors, which has no process to lose; remediations of a connector's
  `configJson`, a read and a write that only overlap with a manual update.
* Of the page: generating nodes from a prompt, the schedule timer, simulated results; of the builder
  API: intents, parameters, connector gaps, scores and simulation, by which no call decides.
* The other pages: they send the requests the modules take as inputs.

Payloads, prompts, metrics and costs are abstracted everywhere.

## 7. Plan

1. The liveness properties in two steps: the variants that decrease, as action properties the prover can
   take, and TLC for the fairness that makes them decrease.
2. `DraftSaving` over the statements of `WorkflowStore` instead of two steps a call, and two pages of
   one kind instead of one page and what others do; both are then instances of one refinement.
3. The engines and the execution runtime over the same sessions, of which each has its own.
