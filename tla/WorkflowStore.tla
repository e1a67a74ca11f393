---------------------------- MODULE WorkflowStore ----------------------------
(***************************************************************************)
(* One saved workflow in WorkflowPersistenceService: calls of several      *)
(* clients, each a check followed by a transaction.  PostgreSQL runs the   *)
(* transactions at READ COMMITTED, so each statement sees what is          *)
(* committed when it starts and waits for the rows others have locked.     *)
(* Nodes and edges are replaced the same way; the nodes stand for both.    *)
(***************************************************************************)
EXTENDS Naturals

CONSTANTS
  Client,      \* clients, each with one call in progress at most
  Key,         \* node keys
  MaxSaves,    \* bound: definitions written
  MaxVersion   \* bound: Workflow.version

ASSUME StoreAssumption == MaxSaves \in Nat /\ MaxVersion \in Nat \ {0}

Status == {"absent", "DRAFT", "PUBLISHED", "ARCHIVED", "DELETED"}
Row == [key : Key, save : 0 .. MaxSaves]
Keys(R) == {r.key : r \in R}
Replacing == {"delete", "lock", "insert", "commit"}
Pc == {"idle", "create", "number", "publish", "remove", "archive"} \cup Replacing

VARIABLES
  status, version, deleted, active,  \* the Workflow row; active by version number
  rows,       \* committed WorkflowNodeDef rows
  published,  \* WorkflowVersion rows: versionNumber -> nodesSnapshot
  pc,         \* the next statement of each client's call
  seen,       \* the version the client loaded: its expectedVersion
  mine,       \* the rows a call is to insert, or the snapshot it publishes
  snap,       \* the rows its DELETE statement saw
  gone,       \* the rows it deleted and has not committed
  number,     \* the versionNumber it is to publish
  saves,      \* definitions written
  lost,       \* history: an update replaced a version its client had not seen
  overlap,    \* history: two calls that write were in progress together
  crossed     \* history: a DELETE started while another replacement had not committed

workflowVars == <<status, version, deleted, active, rows, published>>
callVars == <<seen, mine, snap, gone, number>>
historyVars == <<lost, overlap, crossed>>
vars == <<status, version, deleted, active, rows, published, pc, seen, mine,
          snap, gone, number, saves, lost, overlap, crossed>>

TypeOK ==
  /\ status \in Status /\ version \in 0 .. MaxVersion /\ active \in Nat
  /\ deleted \in BOOLEAN
  /\ lost \in BOOLEAN /\ overlap \in BOOLEAN /\ crossed \in BOOLEAN
  /\ rows \subseteq Row
  /\ DOMAIN published \subseteq Nat
  /\ \A n \in DOMAIN published : published[n] \subseteq Row
  /\ pc \in [Client -> Pc]
  /\ seen \in [Client -> 0 .. MaxVersion]
  /\ mine \in [Client -> SUBSET Row]
  /\ snap \in [Client -> SUBSET Row]
  /\ gone \in [Client -> SUBSET Row]
  /\ number \in [Client -> Nat]
  /\ saves \in 0 .. MaxSaves

Init ==
  /\ status = "absent" /\ version = 0 /\ deleted = FALSE /\ active = 0
  /\ rows = {} /\ published = << >>
  /\ pc = [c \in Client |-> "idle"]
  /\ seen = [c \in Client |-> 0]
  /\ mine = [c \in Client |-> {}]
  /\ snap = [c \in Client |-> {}]
  /\ gone = [c \in Client |-> {}]
  /\ number = [c \in Client |-> 0]
  /\ saves = 0 /\ lost = FALSE /\ overlap = FALSE /\ crossed = FALSE

\* findFirst with deletedAt: null
Found == status # "absent" /\ ~deleted

Begin(c, l) ==
  /\ pc[c] = "idle"
  /\ pc' = [pc EXCEPT ![c] = l]
  /\ overlap' = (overlap \/ \E d \in Client : pc[d] # "idle")
  /\ UNCHANGED <<workflowVars, lost, crossed>>

Goto(c, l) == pc' = [pc EXCEPT ![c] = l]

\* A call is over: it commits nothing further and holds no lock.
End(c) ==
  /\ Goto(c, "idle")
  /\ mine' = [mine EXCEPT ![c] = {}]
  /\ snap' = [snap EXCEPT ![c] = {}]
  /\ gone' = [gone EXCEPT ![c] = {}]
  /\ number' = [number EXCEPT ![c] = 0]

\* The nodes of a new definition, told apart by the save that wrote them.
Definition(K) == [key : K, save : {saves + 1}]

Take(c, R) == mine' = [mine EXCEPT ![c] = R]

-----------------------------------------------------------------------------
\* Mutated actions: plausible slips in the code, each of which some property
\* below must notice.  The specification uses none of them.

\* The version number is taken from Workflow.version.
ReadNumberOfWorkflow(c) ==
  /\ pc[c] = "number"
  /\ number' = [number EXCEPT ![c] = version]
  /\ Goto(c, "publish")
  /\ UNCHANGED <<workflowVars, seen, mine, snap, gone, saves, historyVars>>

\* The new nodes are added to the old ones.
DeleteNothing(c) ==
  /\ pc[c] = "lock"
  /\ Goto(c, "insert")
  /\ UNCHANGED <<workflowVars, seen, mine, snap, gone, number, saves, historyVars>>

-----------------------------------------------------------------------------
\* create; duplicate is a create of another workflow with nodes of this one

\* The key is free, as far as the client can see.
CreateCheck(c, K) ==
  /\ status = "absent" \/ deleted
  /\ K # {} /\ saves < MaxSaves
  /\ Begin(c, "create")
  /\ Take(c, Definition(K)) /\ saves' = saves + 1
  /\ UNCHANGED <<seen, snap, gone, number>>

\* The key is unique, also among deleted workflows.
CreateInsert(c) ==
  /\ pc[c] = "create"
  /\ IF status = "absent"
       THEN /\ status' = "DRAFT" /\ version' = 1 /\ rows' = mine[c]
            /\ seen' = [seen EXCEPT ![c] = 1]
       ELSE UNCHANGED <<status, version, rows, seen>>
  /\ End(c)
  /\ UNCHANGED <<deleted, active, published, saves, historyVars>>

-----------------------------------------------------------------------------
\* update and restoreVersion

\* findOne, by an editor that opens the workflow.
Load(c) ==
  /\ pc[c] = "idle" /\ Found
  /\ seen' = [seen EXCEPT ![c] = version]
  /\ UNCHANGED <<workflowVars, pc, mine, snap, gone, number, saves, historyVars>>

\* The version is compared before the transaction begins.
UpdateCheck(c) ==
  /\ Found /\ version = seen[c] /\ version < MaxVersion
  /\ \/ \E K \in SUBSET Key :
          /\ saves < MaxSaves
          /\ Begin(c, "delete") /\ Take(c, Definition(K)) /\ saves' = saves + 1
     \/ Begin(c, "commit") /\ UNCHANGED <<mine, saves>>      \* no nodes in the request
  /\ UNCHANGED <<seen, snap, gone, number>>

\* No version is compared; the client ends with the version it wrote.
RestoreCheck(c, n) ==
  /\ Found /\ n \in DOMAIN published /\ version < MaxVersion
  /\ Begin(c, "delete") /\ Take(c, published[n])
  /\ seen' = [seen EXCEPT ![c] = version]
  /\ UNCHANGED <<snap, gone, number, saves>>

\* A replacement whose transaction has begun and is to insert nodes.
Rewriting(d) == pc[d] \in {"lock", "insert", "commit"} /\ mine[d] # {}

\* DELETE sees the rows committed by now ...
DeleteSees(c) ==
  /\ pc[c] = "delete"
  /\ snap' = [snap EXCEPT ![c] = rows]
  /\ Goto(c, "lock")
  /\ crossed' = (crossed \/ (mine[c] # {} /\ \E d \in Client \ {c} : Rewriting(d)))
  /\ UNCHANGED <<workflowVars, seen, mine, gone, number, saves, lost, overlap>>

\* ... waits while another transaction is deleting one of them, and deletes
\* those that are still there: what was inserted meanwhile it never saw.
DeleteRows(c) ==
  /\ pc[c] = "lock"
  /\ \A d \in Client \ {c} : gone[d] \cap snap[c] = {}
  /\ gone' = [gone EXCEPT ![c] = snap[c] \cap rows]
  /\ Goto(c, "insert")
  /\ UNCHANGED <<workflowVars, seen, mine, snap, number, saves, historyVars>>

\* A node key is unique in the workflow.  INSERT waits for a transaction that
\* is deleting or has inserted the key, and fails on a key that is there.
Inserted(d) == IF pc[d] = "commit" THEN mine[d] ELSE {}

InsertRows(c) ==
  /\ pc[c] = "insert"
  /\ \A d \in Client \ {c} : Keys(mine[c]) \cap Keys(gone[d] \cup Inserted(d)) = {}
  /\ IF Keys(mine[c]) \cap Keys(rows \ gone[c]) = {}
       THEN Goto(c, "commit") /\ UNCHANGED <<mine, snap, gone, number>>
       ELSE End(c)
  /\ UNCHANGED <<workflowVars, seen, saves, historyVars>>

\* The workflow is updated by id alone and the transaction commits.
Replaced(c) == (rows \ gone[c]) \cup mine[c]

Commit(c) ==
  /\ pc[c] = "commit" /\ version < MaxVersion
  /\ version' = version + 1
  /\ rows' = Replaced(c)
  /\ lost' = (lost \/ version # seen[c])
  /\ seen' = [seen EXCEPT ![c] = version + 1]
  /\ End(c)
  /\ UNCHANGED <<status, deleted, active, published, saves, overlap, crossed>>

\* The transaction times out, deadlocks or loses its connection.
Rollback(c) ==
  /\ pc[c] \in Replacing
  /\ End(c)
  /\ UNCHANGED <<workflowVars, seen, saves, historyVars>>

-----------------------------------------------------------------------------
\* publish, archive and remove

PublishRead(c) ==
  /\ Found /\ rows # {} /\ version < MaxVersion
  /\ Begin(c, "number") /\ Take(c, rows)
  /\ UNCHANGED <<seen, snap, gone, number, saves>>

Latest(S) == IF S = {} THEN 0 ELSE CHOOSE n \in S : \A m \in S : m <= n

\* The last version is another query of the same findFirst.
ReadNumber(c) ==
  /\ pc[c] = "number"
  /\ number' = [number EXCEPT ![c] = Latest(DOMAIN published) + 1]
  /\ Goto(c, "publish")
  /\ UNCHANGED <<workflowVars, seen, mine, snap, gone, saves, historyVars>>

\* (workflowId, versionNumber) is unique.
Publish(c) ==
  /\ pc[c] = "publish" /\ version < MaxVersion
  /\ IF number[c] \in DOMAIN published
       THEN UNCHANGED workflowVars
       ELSE /\ published' = [n \in DOMAIN published \cup {number[c]} |->
                              IF n = number[c] THEN mine[c] ELSE published[n]]
            /\ active' = number[c] /\ status' = "PUBLISHED" /\ version' = version + 1
            /\ UNCHANGED <<deleted, rows>>
  /\ End(c)
  /\ UNCHANGED <<seen, saves, historyVars>>

ArchiveCheck(c) ==
  /\ Found /\ version < MaxVersion
  /\ Begin(c, "archive")
  /\ UNCHANGED <<callVars, saves>>

Archive(c) ==
  /\ pc[c] = "archive" /\ version < MaxVersion
  /\ status' = "ARCHIVED" /\ version' = version + 1
  /\ End(c)
  /\ UNCHANGED <<deleted, active, rows, published, seen, saves, historyVars>>

RemoveCheck(c) ==
  /\ Found
  /\ Begin(c, "remove")
  /\ UNCHANGED <<callVars, saves>>

Remove(c) ==
  /\ pc[c] = "remove"
  /\ status' = "DELETED" /\ deleted' = TRUE
  /\ End(c)
  /\ UNCHANGED <<version, active, rows, published, seen, saves, historyVars>>

CallStep(c) ==
  \/ \E K \in SUBSET Key : CreateCheck(c, K)
  \/ CreateInsert(c)
  \/ Load(c) \/ UpdateCheck(c)
  \/ \E n \in DOMAIN published : RestoreCheck(c, n)
  \/ DeleteSees(c) \/ DeleteRows(c) \/ InsertRows(c) \/ Commit(c) \/ Rollback(c)
  \/ PublishRead(c) \/ ReadNumber(c) \/ Publish(c)
  \/ ArchiveCheck(c) \/ Archive(c) \/ RemoveCheck(c) \/ Remove(c)

Next == \E c \in Client : CallStep(c)

Spec == Init /\ [][Next]_vars

-----------------------------------------------------------------------------
\* Properties

\* However calls overlap, the version counts the changes, published versions
\* are numbered without gaps and stay as they are, the active one is the last.
History == INSTANCE WorkflowHistory WITH
  version <- version, published <- published, active <- active
FollowsHistory == History!Spec

\* The nodes of the workflow and of each published version are those of a single
\* save, whatever calls overlap and whatever version checks came too early, unless
\* one replacement's DELETE started inside the transaction of another.
OneSave(R) == \A r1, r2 \in R : r1.save = r2.save

SavesStayWhole ==
  \/ crossed
  \/ OneSave(rows) /\ \A n \in DOMAIN published : OneSave(published[n])

\* Calls made one after the other keep the promise of the version check: no
\* update replaces a version its client has not seen ...
LostUpdateNeedsOverlap == lost => overlap

\* ... and a removed workflow keeps its status.
RemovedNeedsOverlap == deleted => status = "DELETED" \/ overlap

-----------------------------------------------------------------------------
\* What the code says of itself and the model refutes

\* update: "Use a transaction for atomic node/edge replacement".
ReplacementIsAtomic == OneSave(rows)

=============================================================================
