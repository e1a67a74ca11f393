------------------------------ MODULE Services ------------------------------
(***************************************************************************)
(* What runs beside the engines: the replay runs and the autonomous        *)
(* actions of the worker, the MCP connectors of the API, and of the        *)
(* builder a page that saves and publishes a draft, the harness that       *)
(* repairs one, and the requests of its API; and an invoice.  They share   *)
(* no state but the worker process, so each is taken with the others at    *)
(* rest; what an autonomous action does to a connector is an action of     *)
(* ConnectorLifecycle.                                                     *)
(***************************************************************************)
EXTENDS Replay, AutoAction, ConnectorLifecycle, DraftSaving, HarnessDraft, BuilderRequest, Invoice

CONSTANT MaxDeaths   \* bound: deaths of the worker

ASSUME ServicesAssumption == MaxDeaths \in Nat

VARIABLES
  busy,    \* the service in use
  deaths

serviceVars == <<replayVars, autoVars, lifeVars>>
builderVars == <<draftVars, harnessVars, requestVars>>
servicesVars == <<serviceVars, builderVars, invoiceVars, busy, deaths>>

Service == {"replay", "auto-actions", "connector", "draft", "harness", "request", "invoice"}

TypeOK ==
  /\ ReplayTypeOK /\ AutoTypeOK /\ LifeTypeOK
  /\ DraftTypeOK /\ HarnessTypeOK /\ RequestTypeOK /\ InvoiceTypeOK
  /\ busy \in Service /\ deaths \in 0 .. MaxDeaths

Init ==
  /\ ReplayInit /\ AutoInit /\ LifeInit /\ DraftInit /\ HarnessInit /\ RequestInit
  /\ InvoiceInit
  /\ busy \in Service /\ deaths = 0
  /\ busy = "connector" \/ row = "PENDING"
  /\ busy = "draft" \/ (version = 0 /\ keyed)
  /\ busy = "harness" \/ draft = << >>
  /\ busy = "request" \/ plan = << >>

\* BullMQ notices and delivers again; a second time it gives the job up.
WorkerDies ==
  /\ deaths < MaxDeaths /\ deaths' = deaths + 1
  /\ rpc # "idle" \/ apc # "idle"
  /\ RunIsCutOff /\ ActionIsCutOff
  /\ UNCHANGED <<lifeVars, builderVars, invoiceVars, busy>>

InReplay(A) == busy = "replay" /\ A /\ UNCHANGED <<autoVars, lifeVars, builderVars, invoiceVars, busy, deaths>>
InActions(A) == busy = "auto-actions" /\ A /\ UNCHANGED <<replayVars, lifeVars, builderVars, invoiceVars, busy, deaths>>
InConnector(A) == busy = "connector" /\ A /\ UNCHANGED <<replayVars, autoVars, builderVars, invoiceVars, busy, deaths>>
InDraft(A) == busy = "draft" /\ A /\ UNCHANGED <<serviceVars, harnessVars, requestVars, invoiceVars, busy, deaths>>
InHarness(A) == busy = "harness" /\ A /\ UNCHANGED <<serviceVars, draftVars, requestVars, invoiceVars, busy, deaths>>
InRequest(A) == busy = "request" /\ A /\ UNCHANGED <<serviceVars, draftVars, harnessVars, invoiceVars, busy, deaths>>
InInvoice(A) == busy = "invoice" /\ A /\ UNCHANGED <<serviceVars, builderVars, busy, deaths>>

Next ==
  \/ InReplay(ReplayNext) \/ InActions(AutoNext) \/ InConnector(LifeNext)
  \/ InDraft(DraftNext) \/ InHarness(HarnessNext) \/ InRequest(RequestNext)
  \/ InInvoice(InvoiceNext)
  \/ WorkerDies

\* The worker takes its jobs up and goes on with them; a call of the API goes
\* on, and a connection attempt is answered or times out.
Spec ==
  /\ Init /\ [][Next]_servicesVars
  /\ WF_servicesVars(InReplay(RunWorks))
  /\ WF_servicesVars(InActions(ActionWorks))
  /\ \A k \in Call : WF_servicesVars(InConnector(CallStep(k)))
  /\ \A c \in Client : WF_servicesVars(InConnector(Settles(c)))

-----------------------------------------------------------------------------
\* Properties

\* What is queued or called ends, after a death of the worker too: a replay run
\* settles, an autonomous action gets an outcome, and a call on a connector
\* returns.
AllEnds == RunSettles /\ ActionSettles /\ CallsEnd

=============================================================================
