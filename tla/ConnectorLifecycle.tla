-------------------------- MODULE ConnectorLifecycle ------------------------
(***************************************************************************)
(* One MCP connector over stdio: the server process the API spawns for it, *)
(* the MCPClient that talks to it, the LifecycleManager that keeps one     *)
(* client per connector and restarts a server that closes, and the calls   *)
(* of ConnectorService that start, stop, restart, delete and use it.  The  *)
(* manager is memory of the API process; the connector's status is a row   *)
(* each call writes at its end.                                            *)
(***************************************************************************)
EXTENDS Naturals, FiniteSets

CONSTANTS
  Call,         \* calls of the API in progress at a time
  None,         \* no call
  MaxRestarts,  \* restarts of a server that closes again and again, 5
  MaxClients,   \* bound: clients that are ever made
  MaxCalls,     \* bound: calls that are ever begun
  MaxTimers     \* bound: restarts that wait at a time

ASSUME LifecycleAssumption ==
  /\ None \notin Call
  /\ MaxRestarts \in Nat /\ MaxClients \in Nat /\ MaxCalls \in Nat /\ MaxTimers \in Nat

Client == 1 .. MaxClients
Doing == {"start", "stop", "restart", "delete", "invoke", "health"}

VARIABLES
  row,        \* the connector's status, "gone" when it is deleted
  made,       \* how many clients were made
  mine,       \* the client in the manager's map, 0 when there is none
  status,     \* MCPClient.status
  connecting, \* the promise of connectStdio has not settled
  starter,    \* the call that awaits it, None for a restart timer
  server,     \* the spawned process
  restarts,   \* restartCounts
  timers,     \* restart timers that have not fired
  op,         \* what each call does and where it stands
  calls, crashes,
  replaced,   \* history: a start put a client in the place of one it did not end
  revived,    \* history: a restart timer fired when the map was empty
  quarantined, \* history: an autonomous action set the status
  overlap     \* history: two calls were in progress at once

clientVars == <<made, mine, status, connecting, starter, restarts>>
lifeVars == <<row, clientVars, server, timers, op, calls, crashes, replaced, revived, quarantined, overlap>>

Idle == [do |-> "none", at |-> "idle"]
Op == {Idle} \cup [do : Doing, at : {"act", "pause", "await", "use", "write", "fail"}]

LifeTypeOK ==
  /\ row \in {"PENDING", "ACTIVE", "INACTIVE", "ERROR", "gone"}
  /\ made \in 0 .. MaxClients /\ mine \in 0 .. made
  /\ status \in [Client -> {"none", "connecting", "connected", "error", "disconnected"}]
  /\ connecting \subseteq Client
  /\ starter \in [Client -> Call \cup {None}]
  /\ server \in [Client -> {"none", "up", "ending", "down"}]
  /\ restarts \in 0 .. MaxRestarts + 1 /\ timers \in 0 .. MaxTimers
  /\ op \in [Call -> Op]
  /\ calls \in 0 .. MaxCalls /\ crashes \in 0 .. 1
  /\ replaced \in BOOLEAN /\ revived \in BOOLEAN /\ quarantined \in BOOLEAN /\ overlap \in BOOLEAN

\* A connector that was just made, or one that was ACTIVE when the API started.
LifeInit ==
  /\ row \in {"PENDING", "ACTIVE"}
  /\ made = 0 /\ mine = 0
  /\ status = [c \in Client |-> "none"]
  /\ connecting = {} /\ starter = [c \in Client |-> None]
  /\ server = [c \in Client |-> "none"]
  /\ restarts = 0 /\ timers = 0
  /\ op = [k \in Call |-> Idle]
  /\ calls = 0 /\ crashes = 0
  /\ replaced = FALSE /\ revived = FALSE /\ quarantined = FALSE /\ overlap = FALSE

\* Every call in progress may still make a client.
Room == made + Cardinality({k \in Call : op[k] # Idle}) < MaxClients

-----------------------------------------------------------------------------
\* Mutants: forms of the definitions below with a plausible mistake, which a run
\* below must notice.  The specification uses none of them.

\* The count of restarts is not compared with its limit.
ArmsUncapped ==
  /\ restarts' = restarts + 1
  /\ timers' = timers + 1

\* stop forgets the client and does not signal its process.
StopForgets ==
  /\ mine' = 0 /\ restarts' = 0
  /\ UNCHANGED <<made, status, connecting, starter, server>>

\* stop disconnects the client and leaves it in the map.
StopKeepsEntry ==
  /\ restarts' = 0
  /\ IF mine = 0 THEN UNCHANGED <<status, server>>
     ELSE /\ status' = [status EXCEPT ![mine] = "disconnected"]
          /\ server' = [server EXCEPT ![mine] = IF @ = "up" THEN "ending" ELSE @]
  /\ UNCHANGED <<made, mine, connecting, starter>>

-----------------------------------------------------------------------------
\* LifecycleManager and MCPClient

Connected == mine # 0 /\ status[mine] = "connected"

\* start makes a new client unless the one in the map is connected; the old
\* one is neither disconnected nor awaited.
Spawn(k) ==
  /\ made < MaxClients
  /\ LET c == made + 1 IN
     /\ made' = c /\ mine' = c
     /\ status' = [status EXCEPT ![c] = "connecting"]
     /\ connecting' = connecting \cup {c}
     /\ starter' = [starter EXCEPT ![c] = k]
     /\ server' = [server EXCEPT ![c] = "up"]
  /\ replaced' = (replaced \/ (mine # 0 /\ server[mine] = "up"))
  /\ UNCHANGED restarts

\* stop disconnects the client in the map, whatever it is at: SIGTERM for its
\* process, and no word to those who wait for it.
StopClient ==
  IF mine = 0 THEN UNCHANGED <<clientVars, server>>
  ELSE /\ mine' = 0 /\ restarts' = 0
       /\ status' = [status EXCEPT ![mine] = "disconnected"]
       /\ server' = [server EXCEPT ![mine] = IF @ = "up" THEN "ending" ELSE @]
       /\ UNCHANGED <<made, connecting, starter>>

\* initialize and tools/list are answered.
Connects(c) ==
  /\ c \in connecting /\ status[c] = "connecting" /\ server[c] = "up"
  /\ status' = [status EXCEPT ![c] = "connected"]
  /\ connecting' = connecting \ {c}
  /\ restarts' = 0
  /\ op' = IF starter[c] = None THEN op
           ELSE [op EXCEPT ![starter[c]].at = IF @ = "await" /\ op[starter[c]].do = "invoke" THEN "use" ELSE "write"]
  /\ UNCHANGED <<row, made, mine, starter, server, timers, calls, crashes, replaced, revived, quarantined, overlap>>

\* An error, or 30 seconds without an answer, also of a server that is gone.
Unanswered(c) == c \in connecting /\ starter[c] # None

\* The call that started the client is told; the process is left alone.
GivesUp(c) ==
  /\ Unanswered(c)
  /\ status' = [status EXCEPT ![c] = "error"]
  /\ connecting' = connecting \ {c}
  /\ op' = [op EXCEPT ![starter[c]].at = IF op[starter[c]].do = "invoke" THEN "idle" ELSE "fail",
                      ![starter[c]].do = IF @ = "invoke" THEN "none" ELSE @]
  /\ UNCHANGED <<row, made, mine, starter, server, restarts, timers, calls, crashes, replaced, revived, quarantined, overlap>>

\* Nothing catches the start of a restart timer: the API process ends, its
\* calls with it, and is started again.  The servers lose their pipes only.
ApiCrashes(c) ==
  /\ c \in connecting /\ starter[c] = None
  /\ mine' = 0 /\ connecting' = {} /\ restarts' = 0 /\ timers' = 0
  /\ status' = [d \in Client |-> "none"]
  /\ starter' = [d \in Client |-> None]
  /\ op' = [k \in Call |-> Idle]
  /\ crashes' = 1
  /\ UNCHANGED <<row, made, server, calls, replaced, revived, quarantined, overlap>>

\* A restart is due, up to MaxRestarts in a row.
Arms ==
  IF restarts < MaxRestarts
    THEN restarts' = restarts + 1 /\ timers' = timers + 1
    ELSE restarts' = MaxRestarts + 1 /\ UNCHANGED timers

\* A server ends: by itself, or on SIGTERM, which ends it without an exit code
\* unless it handles the signal.  A close without code 0 arms a restart.
Closes(c, code) ==
  /\ server[c] \in {"up", "ending"}
  /\ server' = [server EXCEPT ![c] = "down"]
  /\ IF status[c] = "none"
       THEN UNCHANGED <<status, restarts, timers>>
       ELSE /\ status' = [status EXCEPT ![c] = "disconnected"]
            /\ IF code = 0 THEN UNCHANGED <<restarts, timers>> ELSE Arms
            /\ timers' <= MaxTimers
  /\ UNCHANGED <<row, made, mine, connecting, starter, op, calls, crashes, replaced, revived, quarantined, overlap>>

TimerFires ==
  /\ timers > 0 /\ timers' = timers - 1
  /\ Room
  /\ IF Connected THEN UNCHANGED <<clientVars, server, replaced>> ELSE Spawn(None)
  /\ revived' = (revived \/ mine = 0)
  /\ UNCHANGED <<row, op, calls, crashes, quarantined, overlap>>

-----------------------------------------------------------------------------
\* ConnectorService: each call reads the connector, acts, and writes its status

At(k, do, at) == op' = [op EXCEPT ![k] = [do |-> do, at |-> at]]

Begin(k, do) ==
  /\ op[k] = Idle /\ calls < MaxCalls /\ Room
  /\ row # "gone" /\ (do = "invoke" => row = "ACTIVE")
  /\ At(k, do, "act")
  /\ calls' = calls + 1
  /\ overlap' = (overlap \/ \E j \in Call : op[j] # Idle)
  /\ UNCHANGED <<row, clientVars, server, timers, crashes, replaced, revived, quarantined>>

\* What a call does once its client is there: write the status, or use it.
Then(k) == IF op[k].do = "invoke" THEN "use" ELSE "write"

\* startConnector, and invoke of a connector whose client is not connected.
StartNow(k) ==
  /\ op[k] # Idle
  /\ \/ op[k].at = "act" /\ op[k].do \in {"start", "invoke"}
     \/ op[k].at = "pause"
  /\ IF Connected
       THEN At(k, op[k].do, Then(k)) /\ UNCHANGED <<clientVars, server, replaced>>
       ELSE Spawn(k) /\ At(k, op[k].do, "await")
  /\ UNCHANGED <<row, timers, calls, crashes, revived, quarantined, overlap>>

\* stopConnector, restartConnector and delete; restart waits before it starts.
StopNow(k) ==
  /\ op[k].at = "act" /\ op[k].do \in {"stop", "restart", "delete"}
  /\ StopClient
  /\ At(k, op[k].do, IF op[k].do = "restart" THEN "pause" ELSE "write")
  /\ UNCHANGED <<row, timers, calls, crashes, replaced, revived, quarantined, overlap>>

\* healthCheck looks at the configuration, not at the server.
CheckHealth(k, healthy) ==
  /\ op[k].at = "act" /\ op[k].do = "health"
  /\ row' = IF row = "gone" THEN row ELSE IF healthy THEN "ACTIVE" ELSE "ERROR"
  /\ op' = [op EXCEPT ![k] = Idle]
  /\ UNCHANGED <<clientVars, server, timers, calls, crashes, replaced, revived, quarantined, overlap>>

\* callTool: the server answers, or the call times out.
ToolAnswers(k) ==
  /\ op[k].at = "use"
  /\ op' = [op EXCEPT ![k] = Idle]
  /\ UNCHANGED <<row, clientVars, server, timers, calls, crashes, replaced, revived, quarantined, overlap>>

Written(do) ==
  CASE do \in {"start", "restart"} -> "ACTIVE"
    [] do = "stop" -> "INACTIVE"
    [] do = "delete" -> "gone"

\* An update of a row that is gone fails.
WriteRow(k) ==
  /\ op[k].at \in {"write", "fail"}
  /\ row' = IF row = "gone" THEN row
            ELSE IF op[k].at = "fail" THEN "ERROR" ELSE Written(op[k].do)
  /\ op' = [op EXCEPT ![k] = Idle]
  /\ UNCHANGED <<clientVars, server, timers, calls, crashes, replaced, revived, quarantined, overlap>>

\* The worker's applyQuarantine writes the row; the API process is not told.
Quarantine ==
  /\ row # "gone" /\ ~quarantined
  /\ row' = "INACTIVE" /\ quarantined' = TRUE
  /\ UNCHANGED <<clientVars, server, timers, op, calls, crashes, replaced, revived, overlap>>

CallStep(k) ==
  \/ StartNow(k) \/ StopNow(k) \/ ToolAnswers(k) \/ WriteRow(k)
  \/ \E healthy \in BOOLEAN : CheckHealth(k, healthy)

Settles(c) == Connects(c) \/ GivesUp(c)

LifeNext ==
  \/ \E k \in Call : CallStep(k) \/ \E do \in Doing : Begin(k, do)
  \/ \E c \in Client : Settles(c) \/ ApiCrashes(c) \/ Closes(c, 0) \/ Closes(c, 1)
  \/ TimerFires \/ Quarantine

\* The connector by itself.
LifeSpec == LifeInit /\ [][LifeNext]_lifeVars

-----------------------------------------------------------------------------
\* Properties

\* A server that runs is the one of the client in the map, and no other call
\* of start, however often servers close and are restarted, leaves one without
\* an owner: unless a start replaced a client that was still connecting or had
\* failed, or the API died.
ServersAreOwned ==
  (\E c \in Client : server[c] = "up" /\ c # mine) => replaced \/ crashes > 0

\* With no call in progress, a connector that was stopped or deleted has no
\* client, unless a restart timer outlived the stop, two calls overlapped,
\* the API died, or a quarantine wrote INACTIVE: that stops nothing.
StoppedStaysDown ==
  row \in {"INACTIVE", "gone"} /\ (\A k \in Call : op[k] = Idle) =>
    mine = 0 \/ revived \/ overlap \/ crashes > 0 \/ (quarantined /\ row = "INACTIVE")

\* Whatever becomes of its client and its server, every call ends.
CallsEnd == \A k \in Call : op[k] # Idle ~> op[k] = Idle

=============================================================================
