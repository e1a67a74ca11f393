------------------------------ MODULE Pipeline ------------------------------
(***************************************************************************)
(* The node pipeline: PipelineEngine.execute runs nodes one after the      *)
(* other for a client that waits for the answer (execute-sync) or follows  *)
(* the progress over server-sent events (execute, then stream).  The       *)
(* stream is an rxjs Subject in a map of the API process: it replays       *)
(* nothing, and its entry is gone once the execution has ended.            *)
(***************************************************************************)
EXTENDS Naturals, Sequences

CONSTANTS
  Batch,       \* the inputs of execute: sequences of nodes [onFailure]
  Retries,     \* retryCount of a node, 2 unless set
  MaxOutages   \* bound: database calls that fail, connections and processes lost

ASSUME PipelineAssumption ==
  /\ Batch \subseteq Seq([onFailure : {"stop", "continue", "retry"}]) \ {<< >>}
  /\ Retries \in Nat \ {0} /\ MaxOutages \in Nat

VARIABLES
  batch, via,      \* the input, and how the client waits
  ppc, pos,          \* where execute stands, and the node it is at
  result,          \* nodeResults, by position
  again,           \* retries made of the current node
  hasFailed, psession,
  stream,          \* executionStreams has the entry
  client,          \* where the client stands
  mail,            \* the last event on its way to the client
  heard,           \* what the client was told of the end
  late,            \* history: it asked for the stream after the end
  outages

inputVars == <<batch, via>>
engineVars == <<ppc, pos, result, again, hasFailed, psession>>
clientVars == <<client, heard, late>>
pipeVars == <<inputVars, engineVars, stream, mail, clientVars, outages>>

Outcome == {"SUCCEEDED", "FAILED"}

PipeTypeOK ==
  /\ batch \in {<< >>} \cup Batch /\ via \in {"answer", "events"}
  /\ ppc \in {"idle", "create", "node", "record", "next", "retry", "finish",
              "announce", "ended", "dead"}
  /\ pos \in 1 .. Len(batch) + 1
  /\ result \in [DOMAIN batch -> {"none", "ok", "bad"}]
  /\ again \in 0 .. Retries
  /\ hasFailed \in BOOLEAN /\ psession \in {"none", "RUNNING"} \cup Outcome
  /\ stream \in BOOLEAN
  /\ client \in {"idle", "posted", "open", "closed"}
  /\ mail \in {"none", "error"} \cup Outcome
  /\ heard \in {"none", "error"} \cup Outcome
  /\ late \in BOOLEAN /\ outages \in 0 .. MaxOutages

PipeInit ==
  /\ batch = << >> /\ via = "answer"
  /\ ppc = "idle" /\ pos = 1 /\ result = << >> /\ again = 0
  /\ hasFailed = FALSE /\ psession = "none"
  /\ stream = FALSE /\ mail = "none"
  /\ client = "idle" /\ heard = "none" /\ late = FALSE
  /\ outages = 0

Outage == outages < MaxOutages /\ outages' = outages + 1

-----------------------------------------------------------------------------
\* Mutated definitions: plausible slips in the code, each of which some property
\* below must notice.  The specification uses none of them.

\* A failure that does not stop the pipeline does not count.
FinalStatusOfFlag == IF hasFailed THEN "FAILED" ELSE "SUCCEEDED"

\* The progress callback reports the loop's flag.
AnnounceFlag ==
  /\ ppc = "announce"
  /\ mail' = IF client \in {"open", "posted"} THEN FinalStatusOfFlag ELSE mail
  /\ stream' = FALSE
  /\ ppc' = "ended"
  /\ UNCHANGED <<inputVars, pos, result, again, hasFailed, psession, clientVars, outages>>

-----------------------------------------------------------------------------
\* PipelineEngine.execute

\* execute starts in the handler and registers the stream before it answers.
Post(b, how) ==
  /\ ppc = "idle"
  /\ batch' = b /\ via' = how
  /\ ppc' = "create"
  /\ result' = [p \in DOMAIN b |-> "none"]
  /\ stream' = (how = "events")
  /\ client' = "posted"
  /\ UNCHANGED <<pos, again, hasFailed, psession, mail, heard, late, outages>>

CreateRun ==
  /\ ppc = "create"
  /\ psession' = "RUNNING" /\ ppc' = "node"
  /\ UNCHANGED <<inputVars, pos, result, again, hasFailed, stream, mail, clientVars, outages>>

\* executor.execute: what it throws is a failed result.
Execute(r) ==
  /\ ppc = "node" /\ pos <= Len(batch)
  /\ result' = [result EXCEPT ![pos] = r]
  /\ ppc' = "record"
  /\ UNCHANGED <<inputVars, pos, again, hasFailed, psession, stream, mail, clientVars, outages>>

\* The step row, and what to do about a failure.
Record ==
  /\ ppc = "record"
  /\ LET todo == IF result[pos] = "ok" THEN "continue" ELSE batch[pos].onFailure IN
     /\ hasFailed' = (hasFailed \/ todo = "stop")
     /\ ppc' = CASE todo = "continue" -> "next"
                 [] todo = "stop" -> "finish"
                 [] todo = "retry" -> "retry"
  /\ UNCHANGED <<inputVars, pos, result, again, psession, stream, mail, clientVars, outages>>

\* A node whose retries all failed fails the run, which goes on.
Retry(r) ==
  /\ ppc = "retry"
  /\ again' = again + 1
  /\ result' = [result EXCEPT ![pos] = r]
  /\ hasFailed' = (hasFailed \/ (r = "bad" /\ again' = Retries))
  /\ ppc' = IF r = "ok" \/ again' = Retries THEN "next" ELSE "retry"
  /\ UNCHANGED <<inputVars, pos, psession, stream, mail, clientVars, outages>>

NextNode ==
  /\ ppc = "next"
  /\ pos' = pos + 1 /\ again' = 0
  /\ ppc' = IF pos = Len(batch) THEN "finish" ELSE "node"
  /\ UNCHANGED <<inputVars, result, hasFailed, psession, stream, mail, clientVars, outages>>

FinalStatus ==
  IF hasFailed \/ \E p \in DOMAIN batch : result[p] = "bad"
  THEN "FAILED" ELSE "SUCCEEDED"

FinishRun ==
  /\ ppc = "finish"
  /\ psession' = FinalStatus /\ ppc' = "announce"
  /\ UNCHANGED <<inputVars, pos, result, again, hasFailed, stream, mail, clientVars, outages>>

\* The last event reaches a client that has the stream open, and closes it;
\* an answer reaches the client that waits for it.
Send(event) ==
  /\ mail' = IF client = (IF via = "events" THEN "open" ELSE "posted")
             THEN event ELSE mail
  /\ stream' = FALSE
  /\ ppc' = "ended"

Announce ==
  /\ ppc = "announce"
  /\ Send(psession)
  /\ UNCHANGED <<inputVars, pos, result, again, hasFailed, psession, clientVars, outages>>

\* Creating the session or a step, or updating the session, fails: execute
\* rejects, and the session stays as it is.
Throws ==
  /\ ppc \in {"create", "record", "finish"} /\ Outage
  /\ Send("error")
  /\ UNCHANGED <<inputVars, pos, result, again, hasFailed, psession, clientVars>>

EngineStep ==
  \/ CreateRun \/ Record \/ NextNode \/ FinishRun \/ Announce
  \/ \E r \in {"ok", "bad"} : Execute(r) \/ Retry(r)

-----------------------------------------------------------------------------
\* The client, and the stream it follows

\* The answer of execute has arrived and an EventSource opens.  A stream that
\* is not there says so and ends, which the client takes for a lost connection.
Open ==
  /\ client = "posted" /\ via = "events" /\ ppc # "dead"
  /\ client' = "open"
  /\ mail' = IF stream THEN mail ELSE "error"
  /\ late' = ~stream
  /\ UNCHANGED <<inputVars, engineVars, stream, heard, outages>>

\* The last event, or the answer: the client closes the stream.
Hear ==
  /\ client \in {"posted", "open"} /\ mail # "none"
  /\ heard' = mail /\ mail' = "none" /\ client' = "closed"
  /\ UNCHANGED <<inputVars, engineVars, stream, late, outages>>

\* The connection breaks: onerror, or a fetch that throws.  The server frees
\* the stream when it notices, and the execution goes on.
Disconnect ==
  /\ client \in {"posted", "open"} /\ Outage
  /\ heard' = "error" /\ mail' = "none" /\ client' = "closed"
  /\ UNCHANGED <<inputVars, engineVars, stream, late>>

Finalize ==
  /\ client = "closed" /\ stream
  /\ stream' = FALSE
  /\ UNCHANGED <<inputVars, engineVars, mail, clientVars, outages>>

\* The API process dies: its execution, its map and its connections with it.
PipeDies ==
  /\ ppc \notin {"idle", "ended", "dead"} /\ Outage
  /\ ppc' = "dead" /\ stream' = FALSE
  /\ heard' = IF client = "closed" THEN heard ELSE "error"
  /\ mail' = "none" /\ client' = "closed"
  /\ UNCHANGED <<inputVars, pos, result, again, hasFailed, psession, late>>

ClientStep == Open \/ Hear \/ Finalize

PipeOn == EngineStep \/ ClientStep \/ Throws \/ Disconnect

PipeNext ==
  \/ \E b \in Batch, how \in {"answer", "events"} : Post(b, how)
  \/ PipeOn \/ PipeDies

\* The executors answer, the process goes on, and what is sent arrives.
PipeFairness == WF_pipeVars(EngineStep) /\ WF_pipeVars(ClientStep)

PipeSpec == PipeInit /\ [][PipeNext]_pipeVars /\ PipeFairness

-----------------------------------------------------------------------------
\* Properties

\* The session ends as the last attempts at its nodes did: SUCCEEDED when every
\* node succeeded, FAILED when one of them failed; nodes are left out only
\* behind a failed one that stops the pipeline.
PipelineOutcome ==
  psession \in Outcome =>
    /\ psession = "FAILED" <=> \E p \in DOMAIN batch : result[p] = "bad"
    /\ \A p \in DOMAIN batch : result[p] = "none" =>
         \E q \in 1 .. p - 1 : result[q] = "bad" /\ batch[q].onFailure = "stop"

\* What a client is told is what the session says, and it is told of an error
\* only because something was lost on the way or it asked for the stream of an
\* execution that had ended.
ToldIsTrue ==
  /\ heard \in Outcome => heard = psession
  /\ heard = "error" => outages > 0 \/ late

\* A client that started an execution is told how it ended, and its stream is
\* freed.
ClientHears == client = "posted" ~> heard # "none" /\ ~stream

=============================================================================
