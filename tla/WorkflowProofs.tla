--------------------------- MODULE WorkflowProofs ---------------------------
(***************************************************************************)
(* Proofs about a saved workflow, for any clients, node keys, number of    *)
(* saves and of versions.                                                  *)
(***************************************************************************)
EXTENDS WorkflowStore, TLAPS

\* Published versions are numbered 1 .. active, and a number a client has
\* computed is at most the next one, however late it is used.
NumbersInv ==
  /\ DOMAIN published = 1 .. active
  /\ \A c \in Client : pc[c] = "publish" => number[c] \in 1 .. active + 1

\* Calls other than create are about a workflow that was created.
CreatedInv ==
  /\ status = "absent" => version = 0 /\ ~deleted
  /\ status # "absent" => version > 0
  /\ \A c \in Client : pc[c] \notin {"idle", "create"} => status # "absent"

IInv == TypeOK /\ NumbersInv /\ CreatedInv

-----------------------------------------------------------------------------
\* Lemmas

\* The last version of a gapless history is its length.
LEMMA LatestIsLast ==
  ASSUME NEW n \in Nat
  PROVE  Latest(1 .. n) = n
<1>1. CASE n = 0
  <2>. 1 .. n = {}
    BY <1>1
  <2>. QED
    BY <1>1 DEF Latest
<1>2. CASE n > 0
  <2>1. n \in 1 .. n /\ \A m \in 1 .. n : m <= n
    BY <1>2
  <2>2. Latest(1 .. n) \in 1 .. n /\ \A m \in 1 .. n : m <= Latest(1 .. n)
    BY <2>1 DEF Latest
  <2>. QED
    BY <2>1, <2>2
<1>. QED
  BY <1>1, <1>2

\* The rows a save writes.
LEMMA DefinitionType ==
  ASSUME TypeOK, saves < MaxSaves, NEW K \in SUBSET Key
  PROVE  Definition(K) \subseteq Row /\ saves + 1 \in 0 .. MaxSaves /\ OneSave(Definition(K))
<1>1. saves + 1 \in 0 .. MaxSaves
  BY StoreAssumption DEF TypeOK
<1>. QED
  BY <1>1 DEF Definition, Row, OneSave

\* The end of a call clears its variables.
LEMMA EndEffect ==
  ASSUME TypeOK, NEW c \in Client, End(c)
  PROVE  /\ pc' \in [Client -> Pc] /\ mine' \in [Client -> SUBSET Row]
         /\ snap' \in [Client -> SUBSET Row] /\ gone' \in [Client -> SUBSET Row]
         /\ number' \in [Client -> Nat]
         /\ pc'[c] = "idle" /\ mine'[c] = {}
         /\ \A d \in Client \ {c} :
              /\ pc'[d] = pc[d] /\ mine'[d] = mine[d] /\ number'[d] = number[d]
              /\ snap'[d] = snap[d] /\ gone'[d] = gone[d]
BY DEF TypeOK, End, Goto, Pc

\* The beginning of a call changes nothing of the workflow.
LEMMA BeginEffect ==
  ASSUME TypeOK, NEW c \in Client, NEW l \in Pc, Begin(c, l)
  PROVE  /\ pc' \in [Client -> Pc] /\ pc[c] = "idle" /\ pc'[c] = l
         /\ \A d \in Client \ {c} : pc'[d] = pc[d]
         /\ overlap' \in BOOLEAN /\ lost' = lost /\ crossed' = crossed
         /\ status' = status /\ version' = version /\ deleted' = deleted
         /\ active' = active /\ rows' = rows /\ published' = published
BY DEF TypeOK, Begin, workflowVars

\* So does the next statement of a call that has not come to its writes.
LEMMA GotoEffect ==
  ASSUME TypeOK, NEW c \in Client, NEW l \in Pc, Goto(c, l)
  PROVE  /\ pc' \in [Client -> Pc] /\ pc'[c] = l
         /\ \A d \in Client \ {c} : pc'[d] = pc[d]
BY DEF TypeOK, Goto

-----------------------------------------------------------------------------
\* The invariant

LEMMA InitInv == Init => IInv
<1>. SUFFICES ASSUME Init PROVE IInv
  OBVIOUS
<1>1. DOMAIN published = {}
  BY DEF Init
<1>2. TypeOK
  <2>1. /\ DOMAIN published \subseteq Nat
        /\ \A n \in DOMAIN published : published[n] \subseteq Row
    BY <1>1
  <2>2. version \in 0 .. MaxVersion /\ active \in Nat /\ saves \in 0 .. MaxSaves
    BY StoreAssumption DEF Init
  <2>4. /\ status \in Status /\ deleted \in BOOLEAN
        /\ lost \in BOOLEAN /\ overlap \in BOOLEAN /\ crossed \in BOOLEAN
    BY DEF Init, Status
  <2>5. rows \subseteq Row
    BY DEF Init
  <2>3. /\ pc \in [Client -> Pc]
        /\ seen \in [Client -> 0 .. MaxVersion]
        /\ mine \in [Client -> SUBSET Row]
        /\ snap \in [Client -> SUBSET Row]
        /\ gone \in [Client -> SUBSET Row]
        /\ number \in [Client -> Nat]
    BY StoreAssumption DEF Init, Pc
  <2>. QED
    BY <2>1, <2>2, <2>3, <2>4, <2>5 DEF TypeOK
<1>3. NumbersInv /\ CreatedInv
  BY <1>1 DEF Init, NumbersInv, CreatedInv
<1>. QED
  BY <1>2, <1>3 DEF IInv

\* A call that begins takes rows, and writes nothing of the workflow.
LEMMA BeginInv ==
  ASSUME IInv, NEW c \in Client, NEW l \in Pc \ {"publish"}, Begin(c, l),
         l = "create" \/ status # "absent",
         mine' \in [Client -> SUBSET Row], seen' \in [Client -> 0 .. MaxVersion],
         saves' \in 0 .. MaxSaves, snap' = snap, gone' = gone, number' = number
  PROVE  IInv'
<1>1. TypeOK
  BY DEF IInv
<1>2. /\ pc' \in [Client -> Pc] /\ pc'[c] = l
      /\ \A d \in Client \ {c} : pc'[d] = pc[d]
      /\ overlap' \in BOOLEAN /\ lost' = lost /\ crossed' = crossed
      /\ status' = status /\ version' = version /\ deleted' = deleted
      /\ active' = active /\ rows' = rows /\ published' = published
  BY <1>1, BeginEffect
<1>3. TypeOK'
  BY <1>1, <1>2 DEF TypeOK
<1>4. NumbersInv'
  BY <1>2 DEF IInv, NumbersInv
<1>5. CreatedInv'
  BY <1>2 DEF IInv, CreatedInv
<1>. QED
  BY <1>3, <1>4, <1>5 DEF IInv

\* A statement of a call that writes nothing of the workflow yet.
LEMMA StatementInv ==
  ASSUME IInv, NEW c \in Client, pc[c] \notin {"idle", "create"},
         pc' \in [Client -> Pc], pc'[c] # "create",
         \A d \in Client \ {c} : pc'[d] = pc[d] /\ number'[d] = number[d],
         pc'[c] = "publish" => number'[c] \in 1 .. active + 1,
         mine' \in [Client -> SUBSET Row], snap' \in [Client -> SUBSET Row],
         gone' \in [Client -> SUBSET Row], number' \in [Client -> Nat],
         UNCHANGED <<workflowVars, seen, saves, lost, overlap>>, crossed' \in BOOLEAN
  PROVE  IInv'
<1>1. /\ status' = status /\ version' = version /\ deleted' = deleted
      /\ active' = active /\ rows' = rows /\ published' = published
      /\ seen' = seen /\ saves' = saves /\ lost' = lost /\ overlap' = overlap
  BY DEF workflowVars
<1>2. TypeOK'
  BY <1>1 DEF IInv, TypeOK
<1>3. NumbersInv'
  BY <1>1 DEF IInv, NumbersInv
<1>4. CreatedInv'
  BY <1>1 DEF IInv, CreatedInv
<1>. QED
  BY <1>2, <1>3, <1>4 DEF IInv

\* The last statement of a call, which may write the row of the workflow.
LEMMA WriteInv ==
  ASSUME IInv, NEW c \in Client, End(c),
         status' \in Status, version' \in 0 .. MaxVersion, version' >= version,
         active' \in Nat, active' >= active, deleted' \in BOOLEAN, lost' \in BOOLEAN,
         rows' \subseteq Row, \A n \in DOMAIN published' : published'[n] \subseteq Row,
         DOMAIN published' = 1 .. active',
         seen' \in [Client -> 0 .. MaxVersion], saves' = saves, overlap' = overlap, crossed' = crossed,
         status # "absent" => status' # "absent",
         status' = "absent" => version' = 0 /\ ~deleted',
         status' # "absent" => version' > 0
  PROVE  IInv'
<1>1. TypeOK
  BY DEF IInv
<1>2. /\ pc' \in [Client -> Pc] /\ mine' \in [Client -> SUBSET Row]
      /\ snap' \in [Client -> SUBSET Row] /\ gone' \in [Client -> SUBSET Row]
      /\ number' \in [Client -> Nat] /\ pc'[c] = "idle"
      /\ \A d \in Client \ {c} : pc'[d] = pc[d] /\ number'[d] = number[d]
  BY <1>1, EndEffect
<1>3. TypeOK'
  BY <1>1, <1>2 DEF TypeOK
<1>4. NumbersInv'
  <2>1. SUFFICES ASSUME NEW d \in Client, pc'[d] = "publish"
                 PROVE  number'[d] \in 1 .. active' + 1
    BY DEF NumbersInv
  <2>2. d # c /\ number'[d] = number[d] /\ pc[d] = "publish"
    BY <1>2, <2>1
  <2>3. number[d] \in 1 .. active + 1
    BY <2>2 DEF IInv, NumbersInv
  <2>. QED
    BY SMTT(30), <1>1, <2>2, <2>3 DEF TypeOK
<1>5. CreatedInv'
  <2>1. SUFFICES ASSUME NEW d \in Client, pc'[d] \notin {"idle", "create"}
                 PROVE  status' # "absent"
    BY DEF CreatedInv
  <2>2. pc[d] \notin {"idle", "create"}
    BY <1>2, <2>1
  <2>. QED
    BY <2>2 DEF IInv, CreatedInv
<1>. QED
  BY <1>3, <1>4, <1>5 DEF IInv

\* What a status and a client's variables are after each step.
LEMMA StepInv ==
  ASSUME IInv, NEW c \in Client, CallStep(c)
  PROVE  IInv'
<1>. USE DEF Pc, Replacing, historyVars
<1>1. TypeOK /\ NumbersInv /\ CreatedInv /\ crossed \in BOOLEAN
  BY DEF IInv, TypeOK
<1>2. ASSUME NEW K \in SUBSET Key, CreateCheck(c, K)
      PROVE  IInv'
  <2>1. Definition(K) \subseteq Row /\ saves + 1 \in 0 .. MaxSaves
    BY <1>1, <1>2, DefinitionType DEF CreateCheck
  <2>2. mine' \in [Client -> SUBSET Row]
    BY <1>1, <1>2, <2>1 DEF CreateCheck, Take, TypeOK
  <2>. QED
    BY <1>1, <1>2, <2>1, <2>2, BeginInv DEF CreateCheck, TypeOK
<1>3. CASE CreateInsert(c)
  <2>1. /\ published' = published /\ active' = active /\ deleted' = deleted
        /\ lost' = lost /\ overlap' = overlap /\ crossed' = crossed /\ saves' = saves /\ End(c)
    BY <1>3 DEF CreateInsert, historyVars
  <2>2. /\ DOMAIN published' = 1 .. active' /\ active' >= active
        /\ \A n \in DOMAIN published' : published'[n] \subseteq Row
    BY <1>1, <2>1 DEF TypeOK, NumbersInv
  <2>3. CASE status = "absent"
    <3>1. status' = "DRAFT" /\ version' = 1 /\ rows' = mine[c] /\ seen' = [seen EXCEPT ![c] = 1]
      BY <1>3, <2>3 DEF CreateInsert
    <3>2. version' \in 0 .. MaxVersion /\ version' >= version /\ version' > 0
      BY <1>1, <2>3, <3>1, StoreAssumption DEF CreatedInv
    <3>3. seen' \in [Client -> 0 .. MaxVersion] /\ rows' \subseteq Row
      BY <1>1, <3>1, <3>2 DEF TypeOK
    <3>4. status' \in Status /\ status' # "absent"
      BY <3>1 DEF Status
    <3>. QED
      BY <1>1, <2>1, <2>2, <3>2, <3>3, <3>4, WriteInv DEF TypeOK
  <2>4. CASE status # "absent"
    <3>1. status' = status /\ version' = version /\ rows' = rows /\ seen' = seen
      BY <1>3, <2>4 DEF CreateInsert
    <3>2. version' >= version /\ version' > 0
      BY <1>1, <2>4, <3>1 DEF TypeOK, CreatedInv
    <3>. QED
      BY <1>1, <2>1, <2>2, <2>4, <3>1, <3>2, WriteInv DEF TypeOK
  <2>. QED
    BY <2>3, <2>4
<1>4. CASE Load(c)
  BY <1>1, <1>4 DEF Load, IInv, TypeOK, NumbersInv, CreatedInv, workflowVars, historyVars
<1>5. CASE UpdateCheck(c)
  <2>1. CASE \E K \in SUBSET Key :
               saves < MaxSaves /\ Begin(c, "delete") /\ Take(c, Definition(K)) /\ saves' = saves + 1
    <3>1. PICK K \in SUBSET Key :
               saves < MaxSaves /\ Begin(c, "delete") /\ Take(c, Definition(K)) /\ saves' = saves + 1
      BY <2>1
    <3>2. Definition(K) \subseteq Row /\ saves + 1 \in 0 .. MaxSaves
      BY <1>1, <3>1, DefinitionType
    <3>3. mine' \in [Client -> SUBSET Row]
      BY <1>1, <3>1, <3>2 DEF Take, TypeOK
    <3>. QED
      BY <1>1, <1>5, <3>1, <3>2, <3>3, BeginInv DEF UpdateCheck, Found, TypeOK
  <2>2. CASE Begin(c, "commit") /\ UNCHANGED <<mine, saves>>
    BY <1>1, <1>5, <2>2, BeginInv DEF UpdateCheck, Found, TypeOK
  <2>. QED
    BY <1>5, <2>1, <2>2 DEF UpdateCheck
<1>6. ASSUME NEW n \in DOMAIN published, RestoreCheck(c, n)
      PROVE  IInv'
  <2>1. mine' \in [Client -> SUBSET Row] /\ seen' \in [Client -> 0 .. MaxVersion]
    BY <1>1, <1>6 DEF RestoreCheck, Take, TypeOK
  <2>. QED
    BY <1>1, <1>6, <2>1, BeginInv DEF RestoreCheck, Found, TypeOK
<1>7. CASE DeleteSees(c)
  BY <1>1, <1>7, StatementInv DEF DeleteSees, Goto, TypeOK
<1>8. CASE DeleteRows(c)
  BY <1>1, <1>8, StatementInv DEF DeleteRows, Goto, TypeOK
<1>9. CASE InsertRows(c)
  <2>1. CASE Goto(c, "commit") /\ UNCHANGED <<mine, snap, gone, number>>
    BY <1>1, <1>9, <2>1, StatementInv DEF InsertRows, Goto, TypeOK
  <2>2. CASE End(c)
    BY <1>1, <1>9, <2>2, EndEffect, StatementInv DEF InsertRows
  <2>. QED
    BY <1>9, <2>1, <2>2 DEF InsertRows
<1>10. CASE Commit(c)
  <2>1. rows' \subseteq Row
    BY <1>1, <1>10 DEF Commit, Replaced, TypeOK
  <2>2. version' \in 0 .. MaxVersion /\ version' > version /\ status # "absent" /\ status' = status
    BY <1>1, <1>10, StoreAssumption DEF Commit, TypeOK, CreatedInv
  <2>3. seen' \in [Client -> 0 .. MaxVersion]
    BY <1>1, <1>10, <2>2 DEF Commit, TypeOK
  <2>4. version' > 0
    BY <1>1, <2>2 DEF TypeOK
  <2>. QED
    <3>1. /\ End(c) /\ UNCHANGED <<status, deleted, active, published, saves, overlap, crossed>>
      BY <1>10 DEF Commit
    <3>2. lost' \in BOOLEAN
      BY ZenonT(30), <1>10 DEF Commit
    <3>. QED
      <4>1. /\ status' \in Status /\ status' # "absent" /\ version' >= version
            /\ active' \in Nat /\ active' >= active /\ saves' = saves
            /\ DOMAIN published' = 1 .. active'
            /\ \A n \in DOMAIN published' : published'[n] \subseteq Row
        BY <1>1, <3>1, <2>2 DEF TypeOK, NumbersInv
      <4>2. deleted' \in BOOLEAN /\ overlap' = overlap /\ crossed' = crossed
        BY Zenon, <1>1, <3>1 DEF TypeOK
      <4>. QED
        BY <3>1, <3>2, <4>1, <4>2, <2>1, <2>2, <2>3, <2>4, WriteInv
<1>11. CASE Rollback(c)
  BY <1>1, <1>11, EndEffect, StatementInv DEF Rollback
<1>12. CASE PublishRead(c)
  <2>1. mine' \in [Client -> SUBSET Row]
    BY <1>1, <1>12 DEF PublishRead, Take, TypeOK
  <2>. QED
    BY <1>1, <1>12, <2>1, BeginInv DEF PublishRead, Found, TypeOK
<1>13. CASE ReadNumber(c)
  <2>1. Latest(DOMAIN published) = active
    BY <1>1, LatestIsLast DEF TypeOK, NumbersInv
  <2>4. number' = [number EXCEPT ![c] = Latest(DOMAIN published) + 1]
    BY <1>13 DEF ReadNumber
  <2>2. number' = [number EXCEPT ![c] = active + 1]
    BY <2>1, <2>4, Zenon
  <2>5. active + 1 \in Nat /\ active + 1 \in 1 .. active + 1
    BY <1>1 DEF TypeOK
  <2>3. number' \in [Client -> Nat] /\ number'[c] \in 1 .. active + 1
        /\ \A d \in Client \ {c} : number'[d] = number[d]
    BY <1>1, <2>2, <2>5 DEF TypeOK
  <2>. QED
    BY <1>1, <1>13, <2>3, StatementInv DEF ReadNumber, Goto, TypeOK
<1>14. CASE Publish(c)
  <2>1. /\ End(c) /\ seen' = seen /\ saves' = saves /\ lost' = lost /\ overlap' = overlap /\ crossed' = crossed
        /\ status # "absent"
    BY <1>1, <1>14 DEF Publish, historyVars, CreatedInv
  <2>2. CASE number[c] \in DOMAIN published
    <3>1. /\ status' = status /\ version' = version /\ deleted' = deleted
          /\ active' = active /\ rows' = rows /\ published' = published
      BY <1>14, <2>2 DEF Publish, workflowVars
    <3>2. version' > 0 /\ version' >= version /\ active' >= active
      BY <1>1, <2>1, <3>1 DEF TypeOK, CreatedInv
    <3>. QED
      BY <1>1, <2>1, <3>1, <3>2, WriteInv DEF TypeOK, NumbersInv
  <2>3. CASE number[c] \notin DOMAIN published
    <3>1. /\ published' = [n \in DOMAIN published \cup {number[c]} |->
                            IF n = number[c] THEN mine[c] ELSE published[n]]
          /\ active' = number[c] /\ status' = "PUBLISHED" /\ version' = version + 1
          /\ deleted' = deleted /\ rows' = rows /\ version < MaxVersion
      BY <1>14, <2>3 DEF Publish
    <3>2. number[c] = active + 1 /\ active' = active + 1 /\ active' \in Nat /\ active' >= active
      BY <1>1, <1>14, <2>3, <3>1 DEF Publish, TypeOK, NumbersInv
    <3>3. DOMAIN published' = DOMAIN published \cup {number[c]}
      BY <3>1
    <3>4. DOMAIN published' = 1 .. active'
      BY <1>1, <3>2, <3>3 DEF TypeOK, NumbersInv
    <3>5. \A n \in DOMAIN published' : published'[n] \subseteq Row
      BY <1>1, <3>1 DEF TypeOK
    <3>6. version' \in 0 .. MaxVersion /\ version' >= version /\ version' > 0
      BY <1>1, <3>1, StoreAssumption DEF TypeOK
    <3>7. status' \in Status /\ status' # "absent"
      BY <3>1 DEF Status
    <3>. QED
      BY <1>1, <2>1, <3>1, <3>2, <3>4, <3>5, <3>6, <3>7, WriteInv DEF TypeOK
  <2>. QED
    BY <2>2, <2>3
<1>15. CASE ArchiveCheck(c)
  BY <1>1, <1>15, BeginInv DEF ArchiveCheck, Found, TypeOK, callVars
<1>16. CASE Archive(c)
  <2>1. version' \in 0 .. MaxVersion /\ version' >= version /\ version' > 0
    BY <1>1, <1>16, StoreAssumption DEF Archive, TypeOK
  <2>2. status' \in Status /\ status' # "absent"
    BY <1>16 DEF Archive, Status
  <2>3. /\ deleted' = deleted /\ active' = active /\ rows' = rows /\ published' = published
        /\ seen' = seen /\ saves' = saves /\ lost' = lost /\ overlap' = overlap /\ crossed' = crossed /\ End(c)
    BY <1>16 DEF Archive, historyVars
  <2>4. active' >= active
    BY <1>1, <2>3 DEF TypeOK
  <2>. QED
    BY SMTT(30), <1>1, <2>1, <2>2, <2>3, <2>4, WriteInv DEF TypeOK, NumbersInv
<1>17. CASE RemoveCheck(c)
  BY <1>1, <1>17, BeginInv DEF RemoveCheck, Found, TypeOK, callVars
<1>18. CASE Remove(c)
  BY SMTT(30), <1>1, <1>18, WriteInv DEF Remove, TypeOK, Status, NumbersInv, CreatedInv, historyVars
<1>. QED
  BY <1>2, <1>3, <1>4, <1>5, <1>6, <1>7, <1>8, <1>9, <1>10, <1>11, <1>12, <1>13, <1>14, <1>15,
     <1>16, <1>17, <1>18 DEF CallStep

LEMMA NextInv == IInv /\ [Next]_vars => IInv'
<1>1. ASSUME IInv, UNCHANGED vars PROVE IInv'
  BY <1>1 DEF vars, IInv, TypeOK, NumbersInv, CreatedInv
<1>. QED
  BY <1>1, StepInv DEF Next

\* Every step of any number of clients keeps the invariant.
THEOREM Invariance == Spec => []IInv
  BY InitInv, NextInv, PTL DEF Spec

\* Every variable keeps its type, whatever the calls that overlap.
THEOREM TypeCorrect == Spec => []TypeOK
<1>1. IInv => TypeOK
  BY DEF IInv
<1>. QED
  BY <1>1, Invariance, PTL

-----------------------------------------------------------------------------
\* The history of the workflow

\* The actions that leave the history and the nodes as they are.
Quiet(c) ==
  \/ \E K \in SUBSET Key : CreateCheck(c, K)
  \/ Load(c) \/ UpdateCheck(c)
  \/ \E n \in DOMAIN published : RestoreCheck(c, n)
  \/ DeleteSees(c) \/ DeleteRows(c) \/ InsertRows(c) \/ Rollback(c)
  \/ PublishRead(c) \/ ReadNumber(c) \/ ArchiveCheck(c) \/ RemoveCheck(c) \/ Remove(c)

LEMMA QuietStep ==
  ASSUME NEW c \in Client, Quiet(c)
  PROVE  version' = version /\ published' = published /\ active' = active /\ rows' = rows
BY DEF Quiet, CreateCheck, Load, UpdateCheck, RestoreCheck, DeleteSees, DeleteRows, InsertRows,
       Rollback, PublishRead, ReadNumber, ArchiveCheck, RemoveCheck, Remove, Begin, workflowVars

LEMMA LoudStep ==
  ASSUME NEW c \in Client, CallStep(c)
  PROVE  Quiet(c) \/ CreateInsert(c) \/ Commit(c) \/ Publish(c) \/ Archive(c)
BY DEF CallStep, Quiet

\* A step of a call is a step of the history, or none.
LEMMA StepFollows ==
  ASSUME IInv, NEW c \in Client, CallStep(c)
  PROVE  [History!Next]_<<version, published, active>>
<1>. USE DEF History!Next, History!Create, History!Change, History!Publish
<1>1. TypeOK /\ NumbersInv /\ CreatedInv
  BY DEF IInv
<1>2. CASE Quiet(c)
  BY <1>2, QuietStep
<1>3. CASE CreateInsert(c)
  <2>1. published' = published /\ active' = active
    BY <1>3 DEF CreateInsert
  <2>2. CASE status = "absent"
    <3>1. version = 0 /\ version' = 1
      BY <1>1, <1>3, <2>2 DEF CreateInsert, CreatedInv
    <3>. QED
      BY <2>1, <3>1
  <2>3. CASE status # "absent"
    <3>1. version' = version
      BY <1>3, <2>3 DEF CreateInsert
    <3>. QED
      BY <2>1, <3>1
  <2>. QED
    BY <2>2, <2>3
<1>4. CASE Commit(c)
  <2>1. version > 0
    BY <1>1, <1>4 DEF Commit, CreatedInv
  <2>2. version' = version + 1 /\ published' = published /\ active' = active
    BY <1>4 DEF Commit
  <2>. QED
    BY <2>1, <2>2
<1>5. CASE Publish(c)
  <2>1. version > 0
    BY <1>1, <1>5 DEF Publish, CreatedInv
  <2>2. CASE number[c] \in DOMAIN published
    <3>1. version' = version /\ published' = published /\ active' = active
      BY <1>5, <2>2 DEF Publish, workflowVars
    <3>. QED
      BY <3>1
  <2>3. CASE number[c] \notin DOMAIN published
    <3>1. /\ published' = [n \in DOMAIN published \cup {number[c]} |->
                            IF n = number[c] THEN mine[c] ELSE published[n]]
          /\ active' = number[c] /\ version' = version + 1
      BY <1>5, <2>3 DEF Publish
    <3>2. number[c] = active + 1
      BY <1>1, <1>5, <2>3 DEF Publish, TypeOK, NumbersInv
    <3>3. DOMAIN published' = 1 .. active + 1
      BY <1>1, <3>1, <3>2 DEF TypeOK, NumbersInv
    <3>4. ASSUME NEW n \in 1 .. active PROVE published'[n] = published[n]
      BY <1>1, <3>1, <3>2 DEF TypeOK, NumbersInv
    <3>. QED
      BY <2>1, <3>1, <3>2, <3>3, <3>4
  <2>. QED
    BY <2>2, <2>3
<1>6. CASE Archive(c)
  <2>1. version > 0
    BY <1>1, <1>6 DEF Archive, CreatedInv
  <2>2. version' = version + 1 /\ published' = published /\ active' = active
    BY <1>6 DEF Archive
  <2>. QED
    BY <2>1, <2>2
<1>. QED
  BY <1>2, <1>3, <1>4, <1>5, <1>6, LoudStep

\* However calls overlap, the version of a workflow counts its changes, its
\* published versions are numbered 1, 2, 3 ... and stay as they are, and the
\* active one is the last published: two publishes that computed one number
\* never both commit.
THEOREM WorkflowFollowsHistory == Spec => FollowsHistory
<1>1. Init => History!Init
  BY DEF Init, History!Init
<1>2. IInv /\ [Next]_vars => [History!Next]_<<version, published, active>>
  <2>1. ASSUME UNCHANGED vars PROVE UNCHANGED <<version, published, active>>
    BY <2>1 DEF vars
  <2>. QED
    BY <2>1, StepFollows DEF Next
<1>. QED
  BY <1>1, <1>2, Invariance, PTL DEF Spec, FollowsHistory, History!Spec

-----------------------------------------------------------------------------
\* Calls one at a time

\* At most one call is in progress.
OneAtATime == \A c, d \in Client : pc[c] # "idle" /\ pc[d] # "idle" => c = d

\* What a call read is still so when it writes.
CallInv(c) ==
  /\ pc[c] \in Replacing => seen[c] = version
  /\ pc[c] \notin {"idle", "create"} => ~deleted

RemovedInv == deleted => status = "DELETED"

OneCallInv == OneAtATime /\ (\A c \in Client : CallInv(c)) /\ RemovedInv /\ ~lost

SerialInv == ~overlap => OneCallInv

\* A call that begins while no other is in progress.
LEMMA SerialBegin ==
  ASSUME IInv, SerialInv, NEW c \in Client, NEW l \in Pc \ {"idle"}, Begin(c, l), ~overlap',
         \A d \in Client \ {c} : seen'[d] = seen[d],
         l \in Replacing => seen'[c] = version,
         l # "create" => ~deleted
  PROVE  OneCallInv'
<1>1. TypeOK
  BY DEF IInv
<1>2. /\ pc[c] = "idle" /\ pc'[c] = l
      /\ \A d \in Client \ {c} : pc'[d] = pc[d]
      /\ lost' = lost /\ status' = status /\ version' = version /\ deleted' = deleted
  BY <1>1, BeginEffect
<1>3. ~overlap /\ \A d \in Client : pc[d] = "idle"
  BY DEF Begin
<1>4. OneCallInv
  BY <1>3 DEF SerialInv
<1>5. OneAtATime'
  BY <1>2, <1>3 DEF OneAtATime
<1>6. ASSUME NEW d \in Client PROVE CallInv(d)'
  <2>1. CASE d = c
    BY <1>2, <2>1 DEF CallInv
  <2>2. CASE d # c
    BY <1>2, <1>3, <1>4, <2>2 DEF CallInv, OneCallInv, Replacing
  <2>. QED
    BY <2>1, <2>2
<1>7. RemovedInv' /\ ~lost'
  BY <1>2, <1>4 DEF OneCallInv, RemovedInv
<1>. QED
  BY <1>5, <1>6, <1>7 DEF OneCallInv

\* The next statement of the only call.
LEMMA SerialStatement ==
  ASSUME IInv, SerialInv, NEW c \in Client, pc[c] \notin {"idle", "create"}, ~overlap',
         \A d \in Client \ {c} : pc'[d] = pc[d],
         pc'[c] \in Replacing => pc[c] \in Replacing, pc'[c] # "create",
         UNCHANGED <<workflowVars, seen, saves, lost, overlap>>
  PROVE  OneCallInv'
<1>1. /\ status' = status /\ version' = version /\ deleted' = deleted
      /\ seen' = seen /\ lost' = lost /\ overlap' = overlap
  BY DEF workflowVars
<1>2. OneCallInv
  BY <1>1 DEF SerialInv
<1>3. \A d \in Client \ {c} : pc[d] = "idle"
  BY <1>2 DEF OneCallInv, OneAtATime
<1>4. OneAtATime'
  BY <1>3 DEF OneAtATime
<1>5. ASSUME NEW d \in Client PROVE CallInv(d)'
  <2>1. CASE d = c
    BY <1>1, <1>2, <2>1 DEF CallInv, OneCallInv
  <2>2. CASE d # c
    BY <1>1, <1>2, <1>3, <2>2 DEF CallInv, OneCallInv, Replacing
  <2>. QED
    BY <2>1, <2>2
<1>6. RemovedInv' /\ ~lost'
  BY <1>1, <1>2 DEF OneCallInv, RemovedInv
<1>. QED
  BY <1>4, <1>5, <1>6 DEF OneCallInv

\* The last statement of the only call.
LEMMA SerialEnd ==
  ASSUME IInv, SerialInv, NEW c \in Client, pc[c] # "idle", ~overlap, End(c), RemovedInv', ~lost'
  PROVE  OneCallInv'
<1>1. OneCallInv /\ TypeOK
  BY DEF SerialInv, IInv
<1>2. pc'[c] = "idle" /\ \A d \in Client \ {c} : pc'[d] = pc[d]
  BY <1>1, EndEffect
<1>3. \A d \in Client : pc'[d] = "idle"
  BY <1>1, <1>2 DEF OneCallInv, OneAtATime
<1>4. OneAtATime' /\ \A d \in Client : CallInv(d)'
  BY <1>3 DEF OneAtATime, CallInv, Replacing
<1>. QED
  BY <1>4 DEF OneCallInv

LEMMA SerialInit == Init => SerialInv
  BY DEF Init, SerialInv, OneCallInv, OneAtATime, CallInv, RemovedInv, Replacing

LEMMA SerialStep ==
  ASSUME IInv, SerialInv, NEW c \in Client, CallStep(c)
  PROVE  SerialInv'
<1>. SUFFICES ASSUME ~overlap' PROVE OneCallInv'
  BY DEF SerialInv
<1>. USE DEF Pc, Replacing
<1>1. TypeOK /\ CreatedInv
  BY DEF IInv
<1>2. ASSUME NEW K \in SUBSET Key, CreateCheck(c, K)
      PROVE  OneCallInv'
  BY <1>2, SerialBegin DEF CreateCheck
<1>3. CASE CreateInsert(c)
  <2>1. /\ deleted' = deleted /\ lost' = lost /\ overlap' = overlap /\ End(c) /\ pc[c] = "create"
    BY <1>3 DEF CreateInsert, historyVars
  <2>2. OneCallInv
    BY <2>1 DEF SerialInv
  <2>3. RemovedInv'
    BY <1>1, <1>3, <2>1, <2>2 DEF CreateInsert, CreatedInv, OneCallInv, RemovedInv
  <2>. QED
    BY <2>1, <2>2, <2>3, SerialEnd DEF OneCallInv
<1>4. CASE Load(c)
  <2>1. /\ status' = status /\ version' = version /\ deleted' = deleted
        /\ pc' = pc /\ lost' = lost /\ overlap' = overlap /\ pc[c] = "idle"
        /\ \A d \in Client \ {c} : seen'[d] = seen[d]
    BY <1>1, <1>4 DEF Load, TypeOK, workflowVars, historyVars
  <2>2. OneCallInv
    BY <2>1 DEF SerialInv
  <2>3. OneAtATime' /\ RemovedInv' /\ ~lost'
    BY <2>1, <2>2 DEF OneCallInv, OneAtATime, RemovedInv
  <2>4. ASSUME NEW d \in Client PROVE CallInv(d)'
    BY <2>1, <2>2 DEF OneCallInv, CallInv
  <2>. QED
    BY <2>3, <2>4 DEF OneCallInv
<1>5. CASE UpdateCheck(c)
  BY <1>5, SerialBegin DEF UpdateCheck, Found
<1>6. ASSUME NEW n \in DOMAIN published, RestoreCheck(c, n)
      PROVE  OneCallInv'
  <2>1. Begin(c, "delete") /\ ~deleted
    BY <1>6 DEF RestoreCheck, Found
  <2>2. seen'[c] = version /\ \A d \in Client \ {c} : seen'[d] = seen[d]
    BY <1>1, <1>6 DEF RestoreCheck, TypeOK
  <2>. QED
    BY <2>1, <2>2, SerialBegin
<1>7. CASE DeleteSees(c) \/ DeleteRows(c) \/ ReadNumber(c)
  <2>1. /\ \/ pc[c] \in {"delete", "lock"} /\ pc'[c] \in {"lock", "insert"}
           \/ pc[c] = "number" /\ pc'[c] = "publish"
        /\ \A d \in Client \ {c} : pc'[d] = pc[d]
    BY <1>1, <1>7, GotoEffect DEF DeleteSees, DeleteRows, ReadNumber
  <2>2. UNCHANGED <<workflowVars, seen, saves, lost, overlap>>
    BY <1>7 DEF DeleteSees, DeleteRows, ReadNumber, historyVars
  <2>. QED
    BY <2>1, <2>2, SerialStatement
<1>8. CASE InsertRows(c) \/ Rollback(c)
  <2>1. /\ pc[c] \in Replacing /\ pc'[c] \in {"commit", "idle"}
        /\ \A d \in Client \ {c} : pc'[d] = pc[d]
    BY <1>1, <1>8, GotoEffect, EndEffect DEF InsertRows, Rollback
  <2>2. UNCHANGED <<workflowVars, seen, saves, lost, overlap>>
    BY <1>8 DEF InsertRows, Rollback, historyVars
  <2>. QED
    BY <2>1, <2>2, SerialStatement
<1>9. CASE Commit(c)
  <2>1. OneCallInv /\ pc[c] = "commit" /\ End(c) /\ ~overlap
    BY <1>9 DEF Commit, SerialInv
  <2>2. seen[c] = version
    BY <2>1 DEF OneCallInv, CallInv
  <2>3. ~lost' /\ RemovedInv'
    BY <1>9, <2>1, <2>2 DEF Commit, OneCallInv, RemovedInv
  <2>. QED
    BY <2>1, <2>3, SerialEnd
<1>10. CASE PublishRead(c) \/ ArchiveCheck(c) \/ RemoveCheck(c)
  <2>1. PICK l \in {"number", "archive", "remove"} : Begin(c, l)
    BY <1>10 DEF PublishRead, ArchiveCheck, RemoveCheck
  <2>2. ~deleted /\ seen' = seen
    BY <1>10 DEF PublishRead, ArchiveCheck, RemoveCheck, Found, callVars
  <2>. QED
    BY <2>1, <2>2, SerialBegin
<1>11. CASE Publish(c) \/ Archive(c) \/ Remove(c)
  <2>1. /\ End(c) /\ pc[c] \in {"publish", "archive", "remove"} /\ lost' = lost /\ overlap' = overlap
        /\ deleted' = deleted \/ status' = "DELETED"
    BY <1>11 DEF Publish, Archive, Remove, historyVars, workflowVars
  <2>2. OneCallInv /\ ~deleted
    BY <2>1 DEF SerialInv, OneCallInv, CallInv
  <2>. QED
    BY <2>1, <2>2, SerialEnd DEF OneCallInv, RemovedInv
<1>. QED
  BY <1>2, <1>3, <1>4, <1>5, <1>6, <1>7, <1>8, <1>9, <1>10, <1>11 DEF CallStep

LEMMA SerialNext == IInv /\ SerialInv /\ [Next]_vars => SerialInv'
<1>1. ASSUME SerialInv, UNCHANGED vars PROVE SerialInv'
  BY <1>1 DEF vars, SerialInv, OneCallInv, OneAtATime, CallInv, RemovedInv
<1>. QED
  BY <1>1, SerialStep DEF Next

LEMMA Serial == Spec => []SerialInv
  BY SerialInit, SerialNext, Invariance, PTL DEF Spec

\* While calls do not overlap, the version check keeps its promise, no update
\* replaces a version of the workflow its client has not seen, and a removed
\* workflow stays DELETED.
THEOREM SerialUpdatesAreSeen == Spec => [](LostUpdateNeedsOverlap /\ RemovedNeedsOverlap)
<1>1. SerialInv => LostUpdateNeedsOverlap /\ RemovedNeedsOverlap
  BY DEF SerialInv, OneCallInv, RemovedInv, LostUpdateNeedsOverlap, RemovedNeedsOverlap
<1>. QED
  BY <1>1, Serial, PTL

-----------------------------------------------------------------------------
\* Replacements that do not cross

\* Nodes that are kept or on their way come from one save.
SavesInv ==
  /\ OneSave(rows)
  /\ \A n \in DOMAIN published : OneSave(published[n])
  /\ \A c \in Client : OneSave(mine[c])

\* A replacement in its transaction is the only one, and deletes every row.
RewriteInv(c) ==
  /\ pc[c] = "idle" => mine[c] = {}
  /\ Rewriting(c) /\ pc[c] = "lock" => rows \subseteq snap[c]
  /\ Rewriting(c) /\ pc[c] # "lock" => rows \subseteq gone[c]

Apart ==
  /\ SavesInv
  /\ \A c \in Client : RewriteInv(c)
  /\ \A c, d \in Client : Rewriting(c) /\ Rewriting(d) => c = d

ApartInv == ~crossed => Apart

\* A step of c that writes no node.
LEMMA ApartStays ==
  ASSUME Apart, NEW c \in Client, rows' \subseteq rows,
         \A n \in DOMAIN published' : OneSave(published'[n]),
         \A d \in Client \ {c} : /\ pc'[d] = pc[d] /\ mine'[d] = mine[d]
                                 /\ snap'[d] = snap[d] /\ gone'[d] = gone[d],
         OneSave(mine'[c]), RewriteInv(c)',
         Rewriting(c)' => Rewriting(c) \/ ~ \E d \in Client \ {c} : Rewriting(d)
  PROVE  Apart'
<1>1. SavesInv'
  BY DEF Apart, SavesInv, OneSave
<1>2. \A d \in Client \ {c} : Rewriting(d)' <=> Rewriting(d)
  BY DEF Rewriting
<1>3. ASSUME NEW d \in Client PROVE RewriteInv(d)'
  BY <1>2 DEF Apart, RewriteInv
<1>4. ASSUME NEW d \in Client, NEW e \in Client, Rewriting(d)', Rewriting(e)'
      PROVE  d = e
  BY <1>2, <1>4 DEF Apart
<1>. QED
  BY <1>1, <1>3, <1>4 DEF Apart

\* A step of c that puts its nodes in the place of all others.
LEMMA ApartReplaced ==
  ASSUME Apart, TypeOK, NEW c \in Client, rows' = mine[c], published' = published, End(c),
         ~ \E d \in Client \ {c} : Rewriting(d)
  PROVE  Apart'
<1>1. /\ pc'[c] = "idle" /\ mine'[c] = {}
      /\ \A d \in Client \ {c} :
           /\ pc'[d] = pc[d] /\ mine'[d] = mine[d] /\ number'[d] = number[d]
           /\ snap'[d] = snap[d] /\ gone'[d] = gone[d]
  BY EndEffect
<1>2. SavesInv'
  BY <1>1 DEF Apart, SavesInv, OneSave
<1>3. ASSUME NEW d \in Client PROVE ~Rewriting(d)' /\ RewriteInv(d)'
  BY <1>1 DEF Apart, Rewriting, RewriteInv
<1>. QED
  BY <1>2, <1>3 DEF Apart

\* The end of a call that wrote no node.
LEMMA ApartEnds ==
  ASSUME Apart, TypeOK, NEW c \in Client, rows' \subseteq rows, End(c),
         \A n \in DOMAIN published' : OneSave(published'[n])
  PROVE  Apart'
<1>1. /\ pc'[c] = "idle" /\ mine'[c] = {}
      /\ \A d \in Client \ {c} :
           /\ pc'[d] = pc[d] /\ mine'[d] = mine[d] /\ number'[d] = number[d]
           /\ snap'[d] = snap[d] /\ gone'[d] = gone[d]
  BY EndEffect
<1>2. OneSave(mine'[c]) /\ ~Rewriting(c)' /\ RewriteInv(c)'
  BY <1>1 DEF OneSave, Rewriting, RewriteInv
<1>. QED
  BY <1>1, <1>2, ApartStays

\* A call that begins is not yet in its transaction, or has no nodes.
LEMMA ApartBegins ==
  ASSUME Apart, TypeOK, NEW c \in Client, NEW l \in Pc \ {"idle"}, Begin(c, l),
         l \in {"lock", "insert"} => FALSE, l = "commit" => mine'[c] = {},
         OneSave(mine'[c]), \A d \in Client \ {c} : mine'[d] = mine[d], snap' = snap, gone' = gone
  PROVE  Apart'
<1>1. /\ pc'[c] = l /\ rows' = rows /\ published' = published
      /\ \A d \in Client \ {c} : pc'[d] = pc[d]
  BY BeginEffect
<1>2. ~Rewriting(c)' /\ RewriteInv(c)'
  BY <1>1 DEF Rewriting, RewriteInv
<1>. QED
  BY <1>1, <1>2, ApartStays DEF Apart, SavesInv

LEMMA ApartInit == Init => ApartInv
<1>. SUFFICES ASSUME Init PROVE Apart
  BY DEF ApartInv
<1>1. DOMAIN published = {} /\ rows = {}
  BY DEF Init
<1>2. \A c \in Client : pc[c] = "idle" /\ mine[c] = {}
  BY DEF Init
<1>. QED
  BY <1>1, <1>2 DEF Apart, SavesInv, OneSave, RewriteInv, Rewriting

LEMMA ApartStep ==
  ASSUME IInv, ApartInv, NEW c \in Client, CallStep(c)
  PROVE  ApartInv'
<1>. SUFFICES ASSUME ~crossed' PROVE Apart'
  BY DEF ApartInv
<1>. USE DEF Pc, Replacing
<1>1. TypeOK /\ CreatedInv
  BY DEF IInv
<1>2. ~crossed
  BY DEF CallStep, CreateCheck, CreateInsert, Load, UpdateCheck, RestoreCheck, DeleteSees,
         DeleteRows, InsertRows, Commit, Rollback, PublishRead, ReadNumber, Publish,
         ArchiveCheck, Archive, RemoveCheck, Remove, Begin, historyVars
<1>3. Apart
  BY <1>2 DEF ApartInv
<1>4. /\ OneSave(rows) /\ OneSave(mine[c])
      /\ pc[c] = "idle" => mine[c] = {}
      /\ \A n \in DOMAIN published : OneSave(published[n])
  BY <1>3 DEF Apart, SavesInv, RewriteInv
<1>5. ASSUME NEW K \in SUBSET Key, CreateCheck(c, K)
      PROVE  Apart'
  <2>1. OneSave(Definition(K))
    BY <1>1, <1>5, DefinitionType DEF CreateCheck
  <2>2. OneSave(mine'[c]) /\ \A d \in Client \ {c} : mine'[d] = mine[d]
    BY <1>1, <1>5, <2>1 DEF CreateCheck, Take, TypeOK
  <2>. QED
    BY <1>1, <1>3, <1>5, <2>2, ApartBegins DEF CreateCheck
<1>6. CASE CreateInsert(c)
  <2>1. End(c) /\ published' = published
    BY <1>6 DEF CreateInsert
  <2>2. CASE status = "absent"
    <3>1. \A d \in Client : pc[d] \in {"idle", "create"}
      BY <1>1, <2>2 DEF CreatedInv
    <3>2. ~ \E d \in Client \ {c} : Rewriting(d)
      BY <3>1 DEF Rewriting
    <3>3. rows' = mine[c]
      BY <1>6, <2>2 DEF CreateInsert
    <3>. QED
      BY <1>1, <1>3, <2>1, <3>2, <3>3, ApartReplaced
  <2>3. CASE status # "absent"
    <3>1. rows' = rows
      BY <1>6, <2>3 DEF CreateInsert
    <3>. QED
      BY <1>1, <1>3, <1>4, <2>1, <3>1, ApartEnds
  <2>. QED
    BY <2>2, <2>3
<1>7. CASE Load(c)
  BY <1>3, <1>7 DEF Load, workflowVars, Apart, SavesInv, OneSave, RewriteInv, Rewriting
<1>8. CASE UpdateCheck(c)
  <2>1. snap' = snap /\ gone' = gone
    BY <1>8 DEF UpdateCheck
  <2>2. ASSUME NEW K \in SUBSET Key, saves < MaxSaves, Begin(c, "delete"), Take(c, Definition(K))
        PROVE  Apart'
    <3>1. OneSave(Definition(K))
      BY <1>1, <2>2, DefinitionType
    <3>2. OneSave(mine'[c]) /\ \A d \in Client \ {c} : mine'[d] = mine[d]
      BY <1>1, <2>2, <3>1 DEF Take, TypeOK
    <3>. QED
      BY <1>1, <1>3, <2>1, <2>2, <3>2, ApartBegins
  <2>3. CASE Begin(c, "commit") /\ mine' = mine
    <3>1. mine'[c] = {} /\ OneSave(mine'[c])
      BY <1>4, <2>3 DEF Begin, OneSave
    <3>. QED
      BY <1>1, <1>3, <2>1, <2>3, <3>1, ApartBegins
  <2>. QED
    BY <1>8, <2>2, <2>3 DEF UpdateCheck
<1>9. ASSUME NEW n \in DOMAIN published, RestoreCheck(c, n)
      PROVE  Apart'
  <2>1. Begin(c, "delete") /\ snap' = snap /\ gone' = gone
    BY <1>9 DEF RestoreCheck
  <2>2. OneSave(mine'[c]) /\ \A d \in Client \ {c} : mine'[d] = mine[d]
    BY <1>1, <1>4, <1>9 DEF RestoreCheck, Take, TypeOK
  <2>. QED
    BY <1>1, <1>3, <2>1, <2>2, ApartBegins
<1>10. CASE DeleteSees(c)
  <2>1. /\ pc'[c] = "lock" /\ \A d \in Client \ {c} : pc'[d] = pc[d]
    BY <1>1, <1>10, GotoEffect DEF DeleteSees
  <2>2. /\ mine' = mine /\ gone' = gone /\ rows' = rows /\ published' = published
        /\ snap'[c] = rows /\ \A d \in Client \ {c} : snap'[d] = snap[d]
    BY <1>1, <1>10 DEF DeleteSees, workflowVars, TypeOK
  <2>3. RewriteInv(c)'
    BY <2>1, <2>2 DEF RewriteInv
  <2>4. Rewriting(c)' => ~ \E d \in Client \ {c} : Rewriting(d)
    BY <1>10, <2>1, <2>2 DEF DeleteSees, Rewriting
  <2>. QED
    BY <1>3, <1>4, <2>1, <2>2, <2>3, <2>4, ApartStays
<1>11. CASE DeleteRows(c)
  <2>1. /\ pc'[c] = "insert" /\ \A d \in Client \ {c} : pc'[d] = pc[d]
    BY <1>1, <1>11, GotoEffect DEF DeleteRows
  <2>2. /\ mine' = mine /\ snap' = snap /\ rows' = rows /\ published' = published
        /\ gone'[c] = snap[c] \cap rows /\ \A d \in Client \ {c} : gone'[d] = gone[d]
        /\ pc[c] = "lock"
    BY <1>1, <1>11 DEF DeleteRows, workflowVars, TypeOK
  <2>3. Rewriting(c)' => Rewriting(c) /\ rows \subseteq snap[c]
    BY <1>3, <2>2 DEF Rewriting, Apart, RewriteInv
  <2>4. RewriteInv(c)'
    BY <2>1, <2>2, <2>3 DEF RewriteInv
  <2>. QED
    BY <1>3, <1>4, <2>1, <2>2, <2>3, <2>4, ApartStays
<1>12. CASE InsertRows(c)
  <2>1. rows' = rows /\ published' = published /\ pc[c] = "insert"
    BY <1>12 DEF InsertRows, workflowVars
  <2>2. CASE Goto(c, "commit") /\ UNCHANGED <<mine, snap, gone, number>>
    <3>1. pc'[c] = "commit" /\ \A d \in Client \ {c} : pc'[d] = pc[d]
      BY <1>1, <2>2, GotoEffect
    <3>2. Rewriting(c)' => Rewriting(c) /\ rows \subseteq gone[c]
      BY <1>3, <2>1, <2>2 DEF Rewriting, Apart, RewriteInv
    <3>3. RewriteInv(c)'
      BY <2>1, <2>2, <3>1, <3>2 DEF RewriteInv
    <3>. QED
      BY <1>3, <1>4, <2>1, <2>2, <3>1, <3>2, <3>3, ApartStays
  <2>3. CASE End(c)
    BY <1>1, <1>3, <1>4, <2>1, <2>3, ApartEnds
  <2>. QED
    BY <1>12, <2>2, <2>3 DEF InsertRows
<1>13. CASE Commit(c)
  <2>1. End(c) /\ published' = published /\ rows' = (rows \ gone[c]) \cup mine[c] /\ pc[c] = "commit"
    BY <1>13 DEF Commit, Replaced
  <2>2. CASE mine[c] = {}
    BY <1>1, <1>3, <1>4, <2>1, <2>2, ApartEnds
  <2>3. CASE mine[c] # {}
    <3>1. Rewriting(c)
      BY <2>1, <2>3 DEF Rewriting
    <3>2. rows \subseteq gone[c] /\ ~ \E d \in Client \ {c} : Rewriting(d)
      BY <1>3, <2>1, <3>1 DEF Apart, RewriteInv
    <3>3. rows' = mine[c]
      BY <2>1, <3>2
    <3>. QED
      BY <1>1, <1>3, <2>1, <3>2, <3>3, ApartReplaced
  <2>. QED
    BY <2>2, <2>3
<1>14. CASE Rollback(c) \/ Archive(c) \/ Remove(c)
  <2>1. End(c) /\ published' = published /\ rows' = rows
    BY <1>14 DEF Rollback, Archive, Remove, workflowVars
  <2>. QED
    BY <1>1, <1>3, <1>4, <2>1, ApartEnds
<1>15. CASE PublishRead(c)
  <2>1. Begin(c, "number") /\ snap' = snap /\ gone' = gone
    BY <1>15 DEF PublishRead
  <2>2. mine'[c] = rows /\ \A d \in Client \ {c} : mine'[d] = mine[d]
    BY <1>1, <1>15 DEF PublishRead, Take, TypeOK
  <2>. QED
    BY <1>1, <1>3, <1>4, <2>1, <2>2, ApartBegins
<1>16. CASE ReadNumber(c)
  <2>1. pc'[c] = "publish" /\ \A d \in Client \ {c} : pc'[d] = pc[d]
    BY <1>1, <1>16, GotoEffect DEF ReadNumber
  <2>2. /\ mine' = mine /\ snap' = snap /\ gone' = gone /\ rows' = rows /\ published' = published
    BY <1>16 DEF ReadNumber, workflowVars
  <2>3. ~Rewriting(c)' /\ RewriteInv(c)'
    BY <2>1 DEF Rewriting, RewriteInv
  <2>. QED
    BY <1>3, <1>4, <2>1, <2>2, <2>3, ApartStays
<1>17. CASE Publish(c)
  <2>1. End(c) /\ rows' = rows
    BY <1>17 DEF Publish, workflowVars
  <2>2. \A n \in DOMAIN published' : OneSave(published'[n])
    <3>1. CASE number[c] \in DOMAIN published
      BY <1>4, <1>17, <3>1 DEF Publish, workflowVars
    <3>2. CASE number[c] \notin DOMAIN published
      <4>1. published' = [n \in DOMAIN published \cup {number[c]} |->
                            IF n = number[c] THEN mine[c] ELSE published[n]]
        BY <1>17, <3>2 DEF Publish
      <4>. QED
        BY <1>4, <4>1 DEF OneSave
    <3>. QED
      BY <3>1, <3>2
  <2>. QED
    BY <1>1, <1>3, <2>1, <2>2, ApartEnds
<1>18. CASE ArchiveCheck(c) \/ RemoveCheck(c)
  <2>1. PICK l \in {"archive", "remove"} : Begin(c, l)
    BY <1>18 DEF ArchiveCheck, RemoveCheck
  <2>2. snap' = snap /\ gone' = gone /\ mine' = mine
    BY <1>18 DEF ArchiveCheck, RemoveCheck, callVars
  <2>. QED
    BY <1>1, <1>3, <1>4, <2>1, <2>2, ApartBegins
<1>. QED
  BY <1>5, <1>6, <1>7, <1>8, <1>9, <1>10, <1>11, <1>12, <1>13, <1>14, <1>15, <1>16, <1>17,
     <1>18 DEF CallStep

\* However calls overlap, and however old the versions their clients checked, the
\* nodes of a workflow and of each published version are those of one save, unless
\* one replacement's DELETE started inside another's transaction.
THEOREM ApartSavesStayWhole == Spec => []SavesStayWhole
<1>1. IInv /\ ApartInv /\ [Next]_vars => ApartInv'
  <2>1. ASSUME ApartInv, UNCHANGED vars PROVE ApartInv'
    BY <2>1 DEF vars, ApartInv, Apart, SavesInv, OneSave, RewriteInv, Rewriting
  <2>. QED
    BY <2>1, ApartStep DEF Next
<1>2. ApartInv => SavesStayWhole
  BY DEF ApartInv, Apart, SavesInv, SavesStayWhole
<1>. QED
  BY <1>1, <1>2, ApartInit, Invariance, PTL DEF Spec

=============================================================================
