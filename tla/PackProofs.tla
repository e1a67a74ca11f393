----------------------------- MODULE PackProofs -----------------------------
(***************************************************************************)
(* Proofs about the life of a pack version, for any import jobs, API       *)
(* calls, certifications, tenants, attempts and late stages.               *)
(***************************************************************************)
EXTENDS PackLifecycle, TLAPS

\* A job in the queue has a delivery left.
QueueInv == \A i \in Import : ipc[i] = "queued" => attempt[i] < Attempts

\* Before the version exists nothing works on it.
AbsentInv ==
  status = "absent" =>
    used = {} /\ Drivers = {} /\ (\A c \in Call : cpc[c] = "idle")

\* An installation is made for a tenant.
TenantInv == \A c \in Call : cpc[c] \in {"installFind", "install"} => tenant[c] \in Tenant

IInv == TypeOK /\ QueueInv /\ AbsentInv /\ OneDriver /\ TenantInv

\* What TypeOK says of the threads.
ThreadsTyped ==
  /\ ipc \in [Thread -> ImportPc \cup LatePc]
  /\ \A i \in Import : ipc[i] \in ImportPc
  /\ \A l \in Late : ipc[l] \in LatePc
  /\ attempt \in [Import -> 0 .. Attempts]

-----------------------------------------------------------------------------
\* The two ways a pipeline step ends

\* A thread that moves is a driver afterwards only if it was one or if it moves
\* past the creation of the version.
LEMMA MoveEffect ==
  ASSUME TypeOK, QueueInv, NEW i \in Thread, NEW p,
         i \in Import => p \in ImportPc, i \in Late => p \in LatePc,
         i \in Import /\ p = "queued" => attempt[i] < Attempts,
         ipc' = [ipc EXCEPT ![i] = p], attempt' = attempt
  PROVE  /\ ThreadsTyped' /\ QueueInv'
         /\ (p \in AfterNormalize => ipc[i] \in AfterNormalize) => Drivers' \subseteq Drivers
<1>1. ipc \in [Thread -> ImportPc \cup LatePc]
  BY DEF TypeOK
<1>2. p \in ImportPc \cup LatePc
  BY DEF Thread
<1>3. ipc' \in [Thread -> ImportPc \cup LatePc] /\ ipc'[i] = p
  BY <1>1, <1>2
<1>4. \A j \in Thread \ {i} : ipc'[j] = ipc[j]
  BY <1>1
<1>5. Import \subseteq Thread /\ Late \subseteq Thread
  BY DEF Thread
<1>6. /\ \A j \in Import : ipc'[j] \in ImportPc
      /\ \A l \in Late : ipc'[l] \in LatePc
  BY <1>3, <1>4, <1>5 DEF TypeOK
<1>7. ThreadsTyped'
  BY <1>3, <1>6 DEF TypeOK, ThreadsTyped
<1>8. QueueInv'
  BY <1>3, <1>4, <1>5 DEF QueueInv
<1>9. ASSUME p \in AfterNormalize => ipc[i] \in AfterNormalize
      PROVE  Drivers' \subseteq Drivers
  BY <1>3, <1>4, <1>9 DEF Drivers
<1>. QED
  BY <1>7, <1>8, <1>9

\* Going on: no new driver, unless the version has just been created.
LEMMA ProceedEffect ==
  ASSUME TypeOK, QueueInv, NEW i \in Thread, NEW l, NEW next \in ImportPc,
         next # "queued", Proceed(i, l, next)
  PROVE  /\ ThreadsTyped' /\ QueueInv'
         /\ (next \in AfterNormalize => l \in AfterNormalize) => Drivers' \subseteq Drivers
<1>. DEFINE p == IF i \in Import \/ next \in InNormalize \cup {"certify"} THEN next ELSE "none"
<1>1. ipc[i] = l /\ ipc' = [ipc EXCEPT ![i] = p] /\ attempt' = attempt
  BY DEF Proceed
<1>2. /\ i \in Import => p \in ImportPc
      /\ i \in Late => p \in LatePc
      /\ p # "queued"
  BY PackAssumption DEF PackAssumption, LatePc, InNormalize, AfterNormalize
<1>3. p \in AfterNormalize => next \in AfterNormalize
  BY DEF AfterNormalize
<1>. HIDE DEF p
<1>. QED
  BY <1>1, <1>2, <1>3, MoveEffect

\* Where an error leaves a thread.
LEMMA RetryEffect ==
  ASSUME NEW i \in Thread
  PROVE  /\ i \in Import => Retry(i) \in ImportPc
         /\ i \in Late => Retry(i) \in LatePc
         /\ i \in Import /\ Retry(i) = "queued" => attempt[i] < Attempts
         /\ Retry(i) \notin AfterNormalize /\ Retry(i) # "completed"
  BY PackAssumption DEF PackAssumption, Retry, ImportPc, LatePc, AfterNormalize

\* Throwing: no new driver, and the job is queued only if it may be.
LEMMA ThrowEffect ==
  ASSUME TypeOK, QueueInv, NEW i \in Thread,
         ipc' = [ipc EXCEPT ![i] = Retry(i)], attempt' = attempt
  PROVE  ThreadsTyped' /\ QueueInv' /\ Drivers' \subseteq Drivers
<1>1. /\ i \in Import => Retry(i) \in ImportPc
      /\ i \in Late => Retry(i) \in LatePc
      /\ i \in Import /\ Retry(i) = "queued" => attempt[i] < Attempts
      /\ Retry(i) \notin AfterNormalize
  BY RetryEffect
<1>. QED
  BY <1>1, MoveEffect

\* What remains to show of a step of the pipeline once its thread has moved.
LEMMA ImportFrame ==
  ASSUME IInv, ThreadsTyped', QueueInv', OneDriver',
         Drivers' \subseteq Drivers \/ status' # "absent",
         pack' \in BOOLEAN, checksum' \in BOOLEAN,
         certs' \subseteq used', used' \subseteq Cert,
         status' \in PackStatus \/ status' = status,
         used' = used \/ status # "absent",
         cpc' = cpc, target' = target, cert' = cert, tenant' = tenant, installs' = installs
  PROVE  IInv'
<1>1. TypeOK'
  BY DEF IInv, TypeOK, ThreadsTyped
<1>2. AbsentInv'
  <2>. SUFFICES ASSUME status' = "absent" PROVE AbsentInv'
    BY DEF AbsentInv
  <2>1. status = "absent"
    BY DEF PackStatus
  <2>2. used = {} /\ Drivers = {} /\ (\A c \in Call : cpc[c] = "idle")
    BY <2>1 DEF IInv, AbsentInv
  <2>. QED
    BY <2>1, <2>2 DEF AbsentInv
<1>3. TenantInv'
  BY DEF IInv, TenantInv
<1>. QED
  BY <1>1, <1>2, <1>3 DEF IInv

\* With no new driver there is still at most one.
LEMMA StillOneDriver ==
  ASSUME OneDriver, Drivers' \subseteq Drivers
  PROVE  OneDriver'
  BY DEF OneDriver

\* The stages that work on rows made before, and the ends of the job.
Stage(i) ==
  \/ FetchAndParse(i) \/ FindPack(i) \/ FindVersion(i) \/ CreatePack(i)
  \/ Validate(i) \/ ValidationFails(i) \/ Scan(i) \/ CreateCert(i)
  \/ Certify(i) \/ Sign(i) \/ Publish(i) \/ RecordImport(i)

\* None of them makes a new driver.
LEMMA StageMoves ==
  ASSUME IInv, NEW i \in Thread, Stage(i)
  PROVE  ThreadsTyped' /\ QueueInv' /\ Drivers' \subseteq Drivers
<1>1. TypeOK /\ QueueInv
  BY DEF IInv
<1>2. \/ ipc' = [ipc EXCEPT ![i] = Retry(i)] /\ attempt' = attempt
      \/ \E l, next \in ImportPc :
           /\ next # "queued" /\ (next \in AfterNormalize => l \in AfterNormalize)
           /\ Proceed(i, l, next)
  BY DEF Stage, FetchAndParse, FindPack, FindVersion, CreatePack, Validate, ValidationFails,
         Scan, CreateCert, Certify, Sign, Publish, RecordImport, transitionVersion, Throw,
         ImportPc, InNormalize, AfterNormalize
<1>. QED
  BY <1>1, <1>2, ProceedEffect, ThrowEffect

\* They certify only a version that exists, and set no status but a proper one.
LEMMA StageRows ==
  ASSUME IInv, NEW i \in Thread, Stage(i)
  PROVE  /\ pack' \in BOOLEAN /\ checksum' \in BOOLEAN
         /\ certs' \subseteq used' /\ used' \subseteq Cert
         /\ status' \in PackStatus \/ status' = status
         /\ used' = used \/ status # "absent"
         /\ cpc' = cpc /\ target' = target /\ cert' = cert /\ tenant' = tenant
         /\ installs' = installs
<1>. USE DEF rowVars, certVars, callVars
<1>1. /\ pack \in BOOLEAN /\ checksum \in BOOLEAN
      /\ certs \subseteq used /\ used \subseteq Cert
  BY DEF IInv, TypeOK
<1>2. CASE FetchAndParse(i) \/ FindPack(i) \/ FindVersion(i) \/ CreatePack(i) \/ Sign(i) \/ RecordImport(i)
  BY <1>1, <1>2 DEF FetchAndParse, FindPack, FindVersion, CreatePack, Sign, RecordImport
<1>3. CASE Validate(i) \/ ValidationFails(i) \/ Scan(i) \/ Certify(i) \/ Publish(i)
  <2>1. /\ status' \in PackStatus
        /\ UNCHANGED <<pack, checksum, certVars, callVars, installs>>
    BY <1>3 DEF Validate, ValidationFails, Scan, Certify, Publish, transitionVersion, PackStatus
  <2>. QED
    BY <1>1, <2>1
<1>4. CASE CreateCert(i)
  <2>1. i \in Drivers
    BY <1>4 DEF CreateCert, Proceed, Drivers, AfterNormalize
  <2>2. status # "absent"
    BY <2>1 DEF IInv, AbsentInv
  <2>. QED
    BY <1>1, <1>4, <2>2 DEF CreateCert, AddCert
<1>. QED
  BY <1>2, <1>3, <1>4 DEF Stage

LEMMA StageKeeps ==
  ASSUME IInv, NEW i \in Thread, Stage(i)
  PROVE  IInv'
<1>1. OneDriver'
  BY StageMoves, StillOneDriver DEF IInv
<1>. QED
  BY <1>1, StageMoves, StageRows, ImportFrame

\* The version is created when nothing drives it: its creator is the driver.
LEMMA CreateVersionKeeps ==
  ASSUME IInv, NEW i \in Thread, CreateVersion(i)
  PROVE  IInv'
<1>. USE DEF certVars, callVars
<1>0. TypeOK /\ QueueInv /\ OneDriver /\ AbsentInv
  BY DEF IInv
<1>1. /\ pack' = pack /\ checksum' = checksum /\ certs' = certs /\ used' = used
      /\ cpc' = cpc /\ target' = target /\ cert' = cert /\ tenant' = tenant /\ installs' = installs
  BY DEF CreateVersion
<1>2. /\ pack \in BOOLEAN /\ checksum \in BOOLEAN /\ certs \subseteq used /\ used \subseteq Cert
      /\ ipc \in [Thread -> ImportPc \cup LatePc]
  BY <1>0 DEF TypeOK
<1>3. CASE status # "absent"
  <2>1. ipc' = [ipc EXCEPT ![i] = Retry(i)] /\ attempt' = attempt /\ status' = status
    BY <1>3 DEF CreateVersion, Throw
  <2>2. ThreadsTyped' /\ QueueInv' /\ Drivers' \subseteq Drivers
    BY <1>0, <2>1, ThrowEffect
  <2>3. OneDriver'
    BY <1>0, <2>2, StillOneDriver
  <2>. QED
    BY <1>1, <1>2, <2>1, <2>2, <2>3, ImportFrame
<1>4. CASE status = "absent"
  <2>1. Proceed(i, "createVersion", "validate") /\ status' = "DRAFT"
    BY <1>4 DEF CreateVersion
  <2>2. "validate" \in ImportPc
    BY DEF ImportPc, AfterNormalize
  <2>3. ThreadsTyped' /\ QueueInv'
    BY <1>0, <2>1, <2>2, ProceedEffect
  <2>4. Drivers' \subseteq {i}
    BY <1>0, <1>2, <1>4, <2>1 DEF AbsentInv, Proceed, Drivers
  <2>5. OneDriver'
    BY <2>4 DEF OneDriver
  <2>6. status' \in PackStatus /\ status' # "absent"
    BY <2>1 DEF PackStatus
  <2>. QED
    BY <1>1, <1>2, <2>3, <2>5, <2>6, ImportFrame
<1>. QED
  BY <1>3, <1>4

\* A delivery uses up one attempt.
LEMMA DeliverKeeps ==
  ASSUME IInv, NEW i \in Import, Deliver(i)
  PROVE  IInv'
<1>. USE DEF rowVars, certVars, callVars
<1>0. TypeOK /\ QueueInv /\ OneDriver
  BY DEF IInv
<1>1. /\ attempt \in [Import -> 0 .. Attempts] /\ Attempts \in Nat
      /\ ipc \in [Thread -> ImportPc \cup LatePc] /\ i \in Thread
  BY <1>0, PackAssumption DEF TypeOK, Thread, PackAssumption
<1>2. /\ ipc' = [ipc EXCEPT ![i] = "fetch"] /\ attempt' = [attempt EXCEPT ![i] = @ + 1]
      /\ ipc[i] = "queued"
  BY DEF Deliver
<1>3. attempt[i] < Attempts
  BY <1>0, <1>2 DEF QueueInv
<1>4. attempt' \in [Import -> 0 .. Attempts] /\ \A j \in Import \ {i} : attempt'[j] = attempt[j]
  BY <1>1, <1>2, <1>3
<1>5. ipc'[i] = "fetch" /\ \A j \in Thread \ {i} : ipc'[j] = ipc[j]
  BY <1>1, <1>2
<1>6. Import \subseteq Thread /\ Late \subseteq Thread /\ i \notin Late
  BY PackAssumption DEF Thread, PackAssumption
<1>7. QueueInv'
  BY <1>0, <1>4, <1>5, <1>6 DEF QueueInv
<1>8. ThreadsTyped'
  <2>1. ipc' \in [Thread -> ImportPc \cup LatePc]
    BY <1>1, <1>2 DEF ImportPc
  <2>2. \A j \in Import : ipc'[j] \in ImportPc
    BY <1>0, <1>5, <1>6 DEF TypeOK, ImportPc
  <2>3. \A l \in Late : ipc'[l] \in LatePc
    BY <1>0, <1>5, <1>6 DEF TypeOK
  <2>. QED
    BY <1>4, <2>1, <2>2, <2>3 DEF ThreadsTyped
<1>9. Drivers' \subseteq Drivers
  BY <1>5 DEF Drivers, AfterNormalize
<1>10. OneDriver'
  BY <1>0, <1>9, StillOneDriver
<1>11. /\ pack' = pack /\ checksum' = checksum /\ certs' = certs /\ used' = used /\ status' = status
       /\ cpc' = cpc /\ target' = target /\ cert' = cert /\ tenant' = tenant /\ installs' = installs
  BY DEF Deliver
<1>12. pack \in BOOLEAN /\ checksum \in BOOLEAN /\ certs \subseteq used /\ used \subseteq Cert
  BY <1>0 DEF TypeOK
<1>. QED
  BY <1>7, <1>8, <1>9, <1>10, <1>11, <1>12, ImportFrame

\* A failure drops the driver.
LEMMA FailKeeps ==
  ASSUME IInv, NEW i \in Thread, Fail(i)
  PROVE  IInv'
<1>. USE DEF rowVars, certVars, callVars
<1>0. TypeOK /\ QueueInv /\ OneDriver
  BY DEF IInv
<1>1. ThreadsTyped' /\ QueueInv' /\ Drivers' \subseteq Drivers
  BY <1>0, ThrowEffect DEF Fail
<1>2. OneDriver'
  BY <1>0, <1>1, StillOneDriver
<1>3. /\ pack' = pack /\ checksum' = checksum /\ certs' = certs /\ used' = used /\ status' = status
      /\ cpc' = cpc /\ target' = target /\ cert' = cert /\ tenant' = tenant /\ installs' = installs
  BY DEF Fail
<1>4. pack \in BOOLEAN /\ checksum \in BOOLEAN /\ certs \subseteq used /\ used \subseteq Cert
  BY <1>0 DEF TypeOK
<1>. QED
  BY <1>1, <1>2, <1>3, <1>4, ImportFrame

\* A timeout hands what the delivery was at to a late stage.
LEMMA TimeoutMoves ==
  ASSUME TypeOK, NEW i \in Import, NEW l \in Late, StageTimeout(i, l)
  PROVE  /\ i \in Thread /\ l \in Thread /\ i # l
         /\ ipc[i] \in LatePc /\ ipc'[l] = ipc[i] /\ ipc'[i] = Retry(i)
         /\ \A j \in Thread \ {i, l} : ipc'[j] = ipc[j]
         /\ ipc' \in [Thread -> ImportPc \cup LatePc] /\ attempt' = attempt
<1>1. i \in Thread /\ l \in Thread /\ i # l
  BY PackAssumption DEF Thread, PackAssumption
<1>2. Retry(i) \in ImportPc \cup LatePc
  BY <1>1, RetryEffect
<1>. QED
  BY <1>1, <1>2 DEF TypeOK, StageTimeout

LEMMA TimeoutKeeps ==
  ASSUME IInv, NEW i \in Import, NEW l \in Late, StageTimeout(i, l)
  PROVE  IInv'
<1>. USE DEF rowVars, certVars, callVars
<1>0. TypeOK /\ QueueInv /\ OneDriver /\ AbsentInv
  BY DEF IInv
<1>1. /\ i \in Thread /\ l \in Thread /\ i # l
      /\ ipc[i] \in LatePc /\ ipc'[l] = ipc[i] /\ ipc'[i] = Retry(i)
      /\ \A j \in Thread \ {i, l} : ipc'[j] = ipc[j]
      /\ ipc' \in [Thread -> ImportPc \cup LatePc] /\ attempt' = attempt
  BY <1>0, TimeoutMoves
<1>2. /\ Retry(i) \in ImportPc /\ Retry(i) \notin AfterNormalize
      /\ Retry(i) = "queued" => attempt[i] < Attempts
  BY <1>1, RetryEffect
<1>3. Import \subseteq Thread /\ Late \subseteq Thread /\ l \notin Import /\ i \notin Late
  BY PackAssumption DEF Thread, PackAssumption
<1>4. /\ \A j \in Import : ipc'[j] \in ImportPc
      /\ \A k \in Late : ipc'[k] \in LatePc
  BY <1>0, <1>1, <1>2, <1>3 DEF TypeOK
<1>5. ThreadsTyped'
  BY <1>0, <1>1, <1>4 DEF TypeOK, ThreadsTyped
<1>6. QueueInv'
  BY <1>0, <1>1, <1>2, <1>3 DEF QueueInv
<1>7. /\ pack' = pack /\ checksum' = checksum /\ certs' = certs /\ used' = used /\ status' = status
      /\ cpc' = cpc /\ target' = target /\ cert' = cert /\ tenant' = tenant /\ installs' = installs
  BY DEF StageTimeout
<1>8. OneDriver' /\ (Drivers' \subseteq Drivers \/ status # "absent")
  <2>1. CASE ipc[i] \notin AfterNormalize
    <3>1. Drivers' \subseteq Drivers
      BY <1>1, <1>2, <2>1 DEF Drivers
    <3>. QED
      BY <1>0, <3>1, StillOneDriver
  <2>2. CASE ipc[i] \in AfterNormalize
    <3>1. i \in Drivers
      BY <1>1, <2>2 DEF Drivers
    <3>2. Drivers = {i} /\ status # "absent"
      BY <1>0, <3>1 DEF OneDriver, AbsentInv
    <3>3. Drivers' \subseteq {l}
      BY <1>1, <1>2, <3>2 DEF Drivers
    <3>. QED
      BY <3>2, <3>3 DEF OneDriver
  <2>. QED
    BY <2>1, <2>2
<1>9. pack \in BOOLEAN /\ checksum \in BOOLEAN /\ certs \subseteq used /\ used \subseteq Cert
  BY <1>0 DEF TypeOK
<1>. QED
  BY <1>5, <1>6, <1>7, <1>8, <1>9, ImportFrame

-----------------------------------------------------------------------------
\* The API's calls

\* A call that has begun works on a version that exists.
LEMMA CallHasVersion ==
  ASSUME IInv, NEW c \in Call, cpc[c] # "idle"
  PROVE  status \in PackStatus
  BY DEF IInv, TypeOK, AbsentInv

\* What remains to show of a step of the API, which never moves an import.
LEMMA CallFrame ==
  ASSUME IInv,
         ipc' = ipc, attempt' = attempt,
         pack' = pack, checksum' = checksum,
         status' \in PackStatus,
         certs' \subseteq used', used' \subseteq Cert, installs' \subseteq Tenant,
         cpc' \in [Call -> CallPc], target' \in [Call -> PackStatus],
         cert' \in [Call -> Cert \cup {None}], tenant' \in [Call -> Tenant \cup {None}],
         TenantInv'
  PROVE  IInv'
<1>0. TypeOK /\ QueueInv /\ OneDriver
  BY DEF IInv
<1>1. TypeOK'
  BY <1>0 DEF TypeOK
<1>2. QueueInv'
  BY <1>0 DEF QueueInv
<1>3. OneDriver'
  BY <1>0 DEF OneDriver, Drivers
<1>4. AbsentInv'
  BY DEF AbsentInv, PackStatus
<1>. QED
  BY <1>1, <1>2, <1>3, <1>4 DEF IInv

\* A call that is to install.
Installs(c) == cpc[c] \in {"installFind", "install"}

\* A call that returns.
LEMMA ReturnEffect ==
  ASSUME TypeOK, NEW c \in Call, Return(c)
  PROVE  /\ cpc' \in [Call -> CallPc] /\ target' \in [Call -> PackStatus]
         /\ cert' \in [Call -> Cert \cup {None}] /\ tenant' \in [Call -> Tenant \cup {None}]
         /\ \A d \in Call : Installs(d)' => Installs(d) /\ tenant'[d] = tenant[d]
  BY DEF TypeOK, Return, CallPc, PackStatus, Installs

\* A call that goes on to anything but an installation.
LEMMA GotoEffect ==
  ASSUME TypeOK, NEW c \in Call, NEW l \in CallPc \ {"installFind", "install"}, Goto(c, l), tenant' = tenant
  PROVE  /\ cpc' \in [Call -> CallPc] /\ tenant' \in [Call -> Tenant \cup {None}]
         /\ \A d \in Call : Installs(d)' => Installs(d) /\ tenant'[d] = tenant[d]
  BY DEF TypeOK, Goto, Installs

\* A step that begins no installation.
LEMMA StillTenant ==
  ASSUME TenantInv, \A d \in Call : Installs(d)' => Installs(d) /\ tenant'[d] = tenant[d]
  PROVE  TenantInv'
  BY DEF TenantInv, Installs

\* The reads that begin a call only note what they saw.
LEMMA TransitionReadKeeps ==
  ASSUME IInv, NEW c \in Call, NEW to \in PackStatus, NEW role, TransitionRead(c, to, role)
  PROVE  IInv'
<1>. USE DEF rowVars, certVars, importVars
<1>0. TypeOK /\ TenantInv
  BY DEF IInv
<1>1. /\ status' = status /\ status \in PackStatus /\ pack' = pack /\ checksum' = checksum
      /\ certs' = certs /\ used' = used /\ installs' = installs
      /\ ipc' = ipc /\ attempt' = attempt
      /\ cert' = cert /\ tenant' = tenant
  BY <1>0 DEF TransitionRead, TypeOK
<1>2. "transition" \in CallPc \ {"installFind", "install"} /\ Goto(c, "transition")
  BY DEF CallPc, TransitionRead
<1>3. /\ cpc' \in [Call -> CallPc] /\ tenant' \in [Call -> Tenant \cup {None}]
      /\ \A d \in Call : Installs(d)' => Installs(d) /\ tenant'[d] = tenant[d]
  BY <1>0, <1>1, <1>2, GotoEffect
<1>4. target' \in [Call -> PackStatus]
  BY <1>0 DEF TransitionRead, TypeOK
<1>5. certs \subseteq used /\ used \subseteq Cert /\ installs \subseteq Tenant
      /\ cert \in [Call -> Cert \cup {None}]
  BY <1>0 DEF TypeOK
<1>6. TenantInv'
  BY <1>0, <1>3, StillTenant
<1>. QED
  BY <1>1, <1>3, <1>4, <1>5, <1>6, CallFrame

LEMMA CertifyReadKeeps ==
  ASSUME IInv, NEW c \in Call, CertifyRead(c)
  PROVE  IInv'
<1>. USE DEF rowVars, certVars, importVars
<1>0. TypeOK /\ TenantInv
  BY DEF IInv
<1>1. /\ status' = status /\ status \in PackStatus /\ pack' = pack /\ checksum' = checksum
      /\ certs' = certs /\ used' = used /\ installs' = installs
      /\ ipc' = ipc /\ attempt' = attempt
      /\ cert' = cert /\ tenant' = tenant
  BY <1>0 DEF CertifyRead, PackStatus
<1>2. "certCreate" \in CallPc \ {"installFind", "install"} /\ Goto(c, "certCreate")
  BY DEF CallPc, CertifyRead
<1>3. /\ cpc' \in [Call -> CallPc] /\ tenant' \in [Call -> Tenant \cup {None}]
      /\ \A d \in Call : Installs(d)' => Installs(d) /\ tenant'[d] = tenant[d]
  BY <1>0, <1>1, <1>2, GotoEffect
<1>4. target' \in [Call -> PackStatus]
  BY <1>0, <1>1 DEF CertifyRead, TypeOK
<1>5. certs \subseteq used /\ used \subseteq Cert /\ installs \subseteq Tenant
      /\ cert \in [Call -> Cert \cup {None}]
  BY <1>0 DEF TypeOK
<1>6. TenantInv'
  BY <1>0, <1>3, StillTenant
<1>. QED
  BY <1>1, <1>3, <1>4, <1>5, <1>6, CallFrame

\* A certification to revoke is one of a version that exists.
LEMMA RevokeReadKeeps ==
  ASSUME IInv, NEW c \in Call, NEW x \in Cert, RevokeRead(c, x)
  PROVE  IInv'
<1>. USE DEF rowVars, certVars, importVars
<1>0. TypeOK /\ TenantInv /\ AbsentInv
  BY DEF IInv
<1>1. status \in PackStatus
  <2>1. x \in used
    BY <1>0 DEF RevokeRead, TypeOK
  <2>. QED
    BY <1>0, <2>1 DEF AbsentInv, TypeOK
<1>2. /\ status' = status /\ pack' = pack /\ checksum' = checksum
      /\ certs' = certs /\ used' = used /\ installs' = installs
      /\ ipc' = ipc /\ attempt' = attempt /\ tenant' = tenant
  BY DEF RevokeRead
<1>3. "revokeDelete" \in CallPc \ {"installFind", "install"} /\ Goto(c, "revokeDelete")
  BY DEF CallPc, RevokeRead
<1>4. /\ cpc' \in [Call -> CallPc] /\ tenant' \in [Call -> Tenant \cup {None}]
      /\ \A d \in Call : Installs(d)' => Installs(d) /\ tenant'[d] = tenant[d]
  BY <1>0, <1>2, <1>3, GotoEffect
<1>5. target' \in [Call -> PackStatus] /\ cert' \in [Call -> Cert \cup {None}]
  BY <1>0, <1>1 DEF RevokeRead, TypeOK
<1>6. certs \subseteq used /\ used \subseteq Cert /\ installs \subseteq Tenant
  BY <1>0 DEF TypeOK
<1>7. TenantInv'
  BY <1>0, <1>4, StillTenant
<1>. QED
  BY <1>1, <1>2, <1>4, <1>5, <1>6, <1>7, CallFrame

\* An installation begins, and goes on, for the tenant that asked.
LEMMA InstallReadKeeps ==
  ASSUME IInv, NEW c \in Call, NEW t \in Tenant, InstallRead(c, t)
  PROVE  IInv'
<1>. USE DEF rowVars, certVars, importVars
<1>0. TypeOK /\ TenantInv
  BY DEF IInv
<1>1. /\ status' = status /\ status \in PackStatus /\ pack' = pack /\ checksum' = checksum
      /\ certs' = certs /\ used' = used /\ installs' = installs
      /\ ipc' = ipc /\ attempt' = attempt
      /\ cert' = cert /\ target' = target
  BY <1>0 DEF InstallRead, PackStatus
<1>2. cpc' = [cpc EXCEPT ![c] = "installFind"] /\ tenant' = [tenant EXCEPT ![c] = t]
  BY DEF InstallRead, Goto
<1>3. /\ certs \subseteq used /\ used \subseteq Cert /\ installs \subseteq Tenant
      /\ cert \in [Call -> Cert \cup {None}] /\ target \in [Call -> PackStatus]
      /\ cpc \in [Call -> CallPc] /\ tenant \in [Call -> Tenant \cup {None}]
  BY <1>0 DEF TypeOK
<1>4. cpc' \in [Call -> CallPc] /\ tenant' \in [Call -> Tenant \cup {None}]
  BY <1>2, <1>3 DEF CallPc
<1>5. TenantInv'
  BY <1>0, <1>2, <1>3 DEF TenantInv
<1>. QED
  BY <1>1, <1>3, <1>4, <1>5, CallFrame

LEMMA InstallFindKeeps ==
  ASSUME IInv, NEW c \in Call, InstallFind(c)
  PROVE  IInv'
<1>. USE DEF rowVars, certVars, importVars
<1>0. TypeOK /\ TenantInv
  BY DEF IInv
<1>1. cpc[c] = "installFind" /\ status \in PackStatus
  BY CallHasVersion DEF InstallFind
<1>2. /\ status' = status /\ pack' = pack /\ checksum' = checksum
      /\ certs' = certs /\ used' = used /\ installs' = installs
      /\ ipc' = ipc /\ attempt' = attempt
  BY DEF InstallFind
<1>3. /\ certs \subseteq used /\ used \subseteq Cert /\ installs \subseteq Tenant
      /\ cert \in [Call -> Cert \cup {None}] /\ target \in [Call -> PackStatus]
      /\ cpc \in [Call -> CallPc] /\ tenant \in [Call -> Tenant \cup {None}]
  BY <1>0 DEF TypeOK
<1>4. CASE Return(c)
  <2>1. /\ cpc' \in [Call -> CallPc] /\ target' \in [Call -> PackStatus]
        /\ cert' \in [Call -> Cert \cup {None}] /\ tenant' \in [Call -> Tenant \cup {None}]
        /\ \A d \in Call : Installs(d)' => Installs(d) /\ tenant'[d] = tenant[d]
    BY <1>0, <1>4, ReturnEffect
  <2>2. TenantInv'
    BY <1>0, <2>1, StillTenant
  <2>. QED
    BY <1>1, <1>2, <1>3, <2>1, <2>2, CallFrame
<1>5. CASE /\ cpc' = [cpc EXCEPT ![c] = "install"]
           /\ target' = target /\ cert' = cert /\ tenant' = tenant
  <2>1. cpc' \in [Call -> CallPc]
    BY <1>3, <1>5 DEF CallPc
  <2>2. TenantInv'
    BY <1>0, <1>1, <1>3, <1>5 DEF TenantInv
  <2>. QED
    BY <1>1, <1>2, <1>3, <1>5, <2>1, <2>2, CallFrame
<1>. QED
  BY <1>4, <1>5 DEF InstallFind, Goto

\* The writes that end a call.
LEMMA StatusWriteKeeps ==
  ASSUME IInv, NEW c \in Call, TransitionWrite(c) \/ CertifyWrite(c) \/ RevokeDemote(c)
  PROVE  IInv'
<1>. USE DEF certVars, importVars
<1>0. TypeOK /\ TenantInv
  BY DEF IInv
<1>1. status' \in PackStatus
  BY <1>0 DEF TransitionWrite, CertifyWrite, RevokeDemote, TypeOK, PackStatus
<1>2. Return(c)
  BY DEF TransitionWrite, CertifyWrite, RevokeDemote
<1>3. /\ pack' = pack /\ checksum' = checksum /\ certs' = certs /\ used' = used /\ installs' = installs
      /\ ipc' = ipc /\ attempt' = attempt
  BY DEF TransitionWrite, CertifyWrite, RevokeDemote
<1>4. /\ cpc' \in [Call -> CallPc] /\ target' \in [Call -> PackStatus]
      /\ cert' \in [Call -> Cert \cup {None}] /\ tenant' \in [Call -> Tenant \cup {None}]
      /\ \A d \in Call : Installs(d)' => Installs(d) /\ tenant'[d] = tenant[d]
  BY <1>0, <1>2, ReturnEffect
<1>5. certs \subseteq used /\ used \subseteq Cert /\ installs \subseteq Tenant
  BY <1>0 DEF TypeOK
<1>6. TenantInv'
  BY <1>0, <1>4, StillTenant
<1>. QED
  BY <1>1, <1>3, <1>4, <1>5, <1>6, CallFrame

\* The steps in between leave the status alone.
LEMMA CertStepKeeps ==
  ASSUME IInv, NEW c \in Call, CertifyCreate(c) \/ RevokeDelete(c) \/ RevokeCount(c)
  PROVE  IInv'
<1>. USE DEF rowVars, certVars, importVars
<1>0. TypeOK /\ TenantInv
  BY DEF IInv
<1>1. status \in PackStatus
  <2>1. cpc[c] # "idle"
    BY DEF CertifyCreate, RevokeDelete, RevokeCount
  <2>. QED
    BY <2>1, CallHasVersion
<1>2. /\ status' = status /\ pack' = pack /\ checksum' = checksum
      /\ installs' = installs
      /\ ipc' = ipc /\ attempt' = attempt
  BY DEF CertifyCreate, RevokeDelete, RevokeCount
<1>3. certs' \subseteq used' /\ used' \subseteq Cert
  <2>0. certs \subseteq used /\ used \subseteq Cert
    BY <1>0 DEF TypeOK
  <2>1. CASE CertifyCreate(c)
    BY <2>0, <2>1 DEF CertifyCreate, AddCert
  <2>2. CASE RevokeDelete(c)
    BY <2>0, <2>2 DEF RevokeDelete
  <2>3. CASE RevokeCount(c)
    BY <2>0, <2>3 DEF RevokeCount
  <2>. QED
    BY <2>1, <2>2, <2>3
<1>4. \/ Return(c)
      \/ /\ \E l \in CallPc \ {"installFind", "install"} : Goto(c, l)
         /\ target' = target /\ cert' = cert /\ tenant' = tenant
  BY DEF CertifyCreate, RevokeDelete, RevokeCount, CallPc
<1>5. /\ cpc' \in [Call -> CallPc] /\ target' \in [Call -> PackStatus]
      /\ cert' \in [Call -> Cert \cup {None}] /\ tenant' \in [Call -> Tenant \cup {None}]
      /\ \A d \in Call : Installs(d)' => Installs(d) /\ tenant'[d] = tenant[d]
  <2>1. CASE Return(c)
    BY <1>0, <2>1, ReturnEffect
  <2>2. CASE /\ \E l \in CallPc \ {"installFind", "install"} : Goto(c, l)
             /\ target' = target /\ cert' = cert /\ tenant' = tenant
    <3>1. target' \in [Call -> PackStatus] /\ cert' \in [Call -> Cert \cup {None}]
      BY <1>0, <2>2 DEF TypeOK
    <3>. QED
      BY <1>0, <2>2, <3>1, GotoEffect
  <2>. QED
    BY <1>4, <2>1, <2>2
<1>6. installs \subseteq Tenant
  BY <1>0 DEF TypeOK
<1>7. TenantInv'
  BY <1>0, <1>5, StillTenant
<1>. QED
  BY <1>1, <1>2, <1>3, <1>5, <1>6, <1>7, CallFrame

\* The installation is made for the tenant that asked.
LEMMA InstallCreateKeeps ==
  ASSUME IInv, NEW c \in Call, InstallCreate(c)
  PROVE  IInv'
<1>. USE DEF rowVars, certVars, importVars
<1>0. TypeOK /\ TenantInv
  BY DEF IInv
<1>1. cpc[c] = "install" /\ Return(c) /\ installs' = installs \cup {tenant[c]}
  BY DEF InstallCreate
<1>2. status \in PackStatus
  BY <1>1, CallHasVersion
<1>3. /\ status' = status /\ pack' = pack /\ checksum' = checksum
      /\ certs' = certs /\ used' = used
      /\ ipc' = ipc /\ attempt' = attempt
  BY DEF InstallCreate
<1>4. /\ cpc' \in [Call -> CallPc] /\ target' \in [Call -> PackStatus]
      /\ cert' \in [Call -> Cert \cup {None}] /\ tenant' \in [Call -> Tenant \cup {None}]
      /\ \A d \in Call : Installs(d)' => Installs(d) /\ tenant'[d] = tenant[d]
  BY <1>0, <1>1, ReturnEffect
<1>5. certs \subseteq used /\ used \subseteq Cert /\ installs \subseteq Tenant
  BY <1>0 DEF TypeOK
<1>6. TenantInv'
  BY <1>0, <1>4, StillTenant
<1>7. installs' \subseteq Tenant
  BY <1>0, <1>1, <1>5 DEF TenantInv
<1>. QED
  BY <1>2, <1>3, <1>4, <1>5, <1>6, <1>7, CallFrame

\* Uninstalling touches the installations alone.
LEMMA UninstallKeeps ==
  ASSUME IInv, NEW t \in Tenant, Uninstall(t)
  PROVE  IInv'
<1>. USE DEF rowVars, certVars, importVars, callVars
<1>0. TypeOK /\ TenantInv /\ QueueInv /\ OneDriver /\ AbsentInv
  BY DEF IInv
<1>1. /\ status' = status /\ pack' = pack /\ checksum' = checksum
      /\ certs' = certs /\ used' = used
      /\ ipc' = ipc /\ attempt' = attempt
      /\ cpc' = cpc /\ target' = target /\ cert' = cert /\ tenant' = tenant
  BY DEF Uninstall
<1>2. installs' \subseteq installs
  BY DEF Uninstall
<1>3. TypeOK'
  BY <1>0, <1>1, <1>2 DEF TypeOK
<1>4. QueueInv' /\ OneDriver' /\ AbsentInv'
  BY <1>0, <1>1 DEF QueueInv, OneDriver, AbsentInv, Drivers
<1>5. TenantInv'
  BY <1>0, <1>1, <1>2 DEF TenantInv
<1>. QED
  BY <1>3, <1>4, <1>5 DEF IInv

-----------------------------------------------------------------------------
\* The theorems

LEMMA InitEstablishes == Init => IInv
<1>. SUFFICES ASSUME Init PROVE IInv
  OBVIOUS
<1>. USE PackAssumption DEF Init, PackAssumption
<1>1. TypeOK
  <2>1. status \in PackStatus \cup {"absent"} /\ pack \in BOOLEAN
    BY DEF PackStatus
  <2>2. /\ ipc \in [Thread -> ImportPc \cup LatePc] /\ attempt \in [Import -> 0 .. Attempts]
        /\ \A i \in Import : ipc[i] \in ImportPc
        /\ \A l \in Late : ipc[l] \in LatePc
    BY DEF ImportPc, LatePc, Thread
  <2>3. /\ cpc \in [Call -> CallPc] /\ target \in [Call -> PackStatus]
        /\ cert \in [Call -> Cert \cup {None}] /\ tenant \in [Call -> Tenant \cup {None}]
    BY DEF CallPc, PackStatus
  <2>. QED
    BY <2>1, <2>2, <2>3 DEF TypeOK
<1>2. QueueInv
  BY DEF QueueInv
<1>3. Drivers = {}
  BY DEF Drivers, AfterNormalize
<1>4. AbsentInv /\ OneDriver
  BY <1>3 DEF AbsentInv, OneDriver
<1>5. TenantInv
  BY DEF TenantInv
<1>. QED
  BY <1>1, <1>2, <1>4, <1>5 DEF IInv

LEMMA StepKeeps == IInv /\ [Next]_vars => IInv'
<1>. SUFFICES ASSUME IInv, [Next]_vars PROVE IInv'
  OBVIOUS
<1>0. Import \subseteq Thread /\ Late \subseteq Thread
  BY DEF Thread
<1>1. ASSUME NEW i \in Import, ImportStep(i) \/ Fail(i)
      PROVE  IInv'
  BY <1>0, <1>1, DeliverKeeps, StageKeeps, CreateVersionKeeps, FailKeeps
     DEF ImportStep, PipelineStep, Stage
<1>4. ASSUME NEW l \in Late, PipelineStep(l) \/ Fail(l)
       PROVE  IInv'
  BY <1>0, <1>4, StageKeeps, CreateVersionKeeps, FailKeeps DEF PipelineStep, Stage
<1>2. ASSUME NEW c \in Call, CallStep(c)
      PROVE  IInv'
  BY <1>2, TransitionReadKeeps, CertifyReadKeeps, RevokeReadKeeps, InstallReadKeeps,
     InstallFindKeeps, StatusWriteKeeps, CertStepKeeps, InstallCreateKeeps
     DEF CallStep
<1>3. ASSUME UNCHANGED vars
      PROVE  IInv'
  BY <1>3 DEF vars, IInv, TypeOK, QueueInv, AbsentInv, OneDriver, TenantInv, Drivers
<1>. QED
  BY <1>1, <1>2, <1>3, <1>4, TimeoutKeeps, UninstallKeeps DEF Next

\* The inductive invariant holds throughout.
THEOREM Invariance == Spec => []IInv
  BY InitEstablishes, StepKeeps, PTL DEF Spec

\* Every variable keeps its type: an attempt is never counted beyond the limit,
\* a call never carries a status the version cannot have.
THEOREM TypeCorrect == Spec => []TypeOK
<1>1. IInv => TypeOK
  BY DEF IInv
<1>. QED
  BY <1>1, Invariance, PTL

\* Retries and late stages never put two threads to work on one version.
THEOREM VersionHasOneDriver == Spec => []OneDriver
<1>1. IInv => OneDriver
  BY DEF IInv
<1>. QED
  BY <1>1, Invariance, PTL

-----------------------------------------------------------------------------
\* The pipeline follows the life of a version

\* The status that a thread of the pipeline finds when it comes to a call.
StageStatus ==
  [validate |-> "DRAFT", scan |-> "IMPORTED", createCert |-> "VALIDATED",
   certify |-> "VALIDATED", sign |-> "CERTIFIED", publish |-> "CERTIFIED",
   audit |-> "PUBLISHED"]

StageOK(p) ==
  /\ status = StageStatus[p]
  /\ p \in {"certify", "sign", "publish", "audit"} => certs # {}
  /\ p \in {"publish", "audit"} => checksum

StageInv == \A j \in Thread : ipc[j] \in AfterNormalize => StageOK(ipc[j])

Idle == \A j \in Thread : ipc[j] \notin AfterNormalize

CompletedInv ==
  (\E j \in Import : ipc[j] = "completed") =>
    Idle /\ status = "PUBLISHED" /\ checksum /\ certs # {}

PipelineInv == StageInv /\ CompletedInv

\* When the driver goes on, whoever still drives has come where it has.
LEMMA DriverMoves ==
  ASSUME IInv, NEW i \in Thread, NEW l \in AfterNormalize, NEW next, Proceed(i, l, next)
  PROVE  /\ \A j \in Thread : ipc'[j] \in AfterNormalize => j = i /\ ipc'[j] = next
         /\ \A j \in Thread \ {i} : ipc'[j] = ipc[j]
         /\ ipc'[i] \in {next, "none"}
         /\ ipc[i] = l
<1>1. ipc \in [Thread -> ImportPc \cup LatePc] /\ OneDriver
  BY DEF IInv, TypeOK
<1>2. ipc[i] = l /\ ipc' = [ipc EXCEPT ![i] = ipc'[i]] /\ ipc'[i] \in {next, "none"}
  BY <1>1 DEF Proceed
<1>3. i \in Drivers
  BY <1>2 DEF Drivers
<1>4. \A j \in Thread \ {i} : ipc[j] \notin AfterNormalize
  BY <1>1, <1>3 DEF OneDriver, Drivers
<1>5. \A j \in Thread \ {i} : ipc'[j] = ipc[j]
  BY <1>1, <1>2
<1>6. "none" \notin AfterNormalize
  BY DEF AfterNormalize
<1>. QED
  BY <1>2, <1>4, <1>5, <1>6

\* A step of the driver leaves the pipeline in order if it leaves its thread so.
LEMMA DriverStepKeeps ==
  ASSUME IInv, PipelineInv, NEW i \in Thread, NEW l \in AfterNormalize, NEW next \in AfterNormalize,
         Proceed(i, l, next), StageOK(next)'
  PROVE  PipelineInv'
<1>1. next # "completed" /\ Import \subseteq Thread
  BY DEF AfterNormalize, Thread
<1>2. /\ \A j \in Thread : ipc'[j] \in AfterNormalize => ipc'[j] = next
      /\ \A j \in Thread \ {i} : ipc'[j] = ipc[j]
      /\ ipc'[i] \in {next, "none"}
      /\ ipc[i] = l
  BY DriverMoves
<1>3. StageInv'
  <2>. SUFFICES ASSUME NEW j \in Thread, ipc'[j] \in AfterNormalize
                PROVE  StageOK(ipc[j])'
    BY DEF StageInv
  <2>. QED
    BY <1>2 DEF StageOK
<1>4. ~ \E j \in Import : ipc[j] = "completed"
  BY <1>2 DEF PipelineInv, CompletedInv, Idle
<1>5. ~ \E j \in Import : ipc'[j] = "completed"
  BY <1>1, <1>2, <1>4
<1>6. CompletedInv'
  BY <1>5 DEF CompletedInv
<1>. QED
  BY <1>3, <1>6 DEF PipelineInv

\* So does a step that changes no row and moves no driver but away or aside.
LEMMA AsideKeeps ==
  ASSUME PipelineInv, status' = status, checksum' = checksum, certs' = certs,
         \A j \in Thread : ipc'[j] \in AfterNormalize => \E k \in Thread : ipc'[j] = ipc[k],
         \A j \in Import : ipc'[j] = "completed" => ipc[j] = "completed"
  PROVE  PipelineInv'
<1>1. StageInv'
  <2>. SUFFICES ASSUME NEW j \in Thread, ipc'[j] \in AfterNormalize
                PROVE  StageOK(ipc[j])'
    BY DEF StageInv
  <2>1. StageOK(ipc'[j])
    BY DEF PipelineInv, StageInv
  <2>. QED
    BY <2>1 DEF StageOK, StageStatus
<1>2. CompletedInv'
  <2>1. Idle => Idle'
    BY DEF Idle
  <2>. QED
    BY <2>1 DEF PipelineInv, CompletedInv
<1>. QED
  BY <1>1, <1>2 DEF PipelineInv

\* A thread that moves to no driver's call leaves the others where they were.
LEMMA AsideMoves ==
  ASSUME TypeOK, NEW i \in Thread, NEW p, p \notin AfterNormalize, p # "completed",
         ipc' = [ipc EXCEPT ![i] = p]
  PROVE  /\ \A j \in Thread : ipc'[j] \in AfterNormalize => \E k \in Thread : ipc'[j] = ipc[k]
         /\ \A j \in Import : ipc'[j] = "completed" => ipc[j] = "completed"
<1>1. ipc \in [Thread -> ImportPc \cup LatePc] /\ Import \subseteq Thread
  BY DEF TypeOK, Thread
<1>2. ipc'[i] = p /\ \A j \in Thread \ {i} : ipc'[j] = ipc[j]
  BY <1>1
<1>. QED
  BY <1>1, <1>2

\* Any transition of the table is one of the lifecycle.
LEMMA RoleStep ==
  ASSUME status \in PackStatus, NEW to \in PackStatus, NEW role \in Role,
         canTransition(status, to, role), status' = to
  PROVE  Lifecycle!Next
<1>1. canTransition(status, to, role) = Lifecycle!canTransition(status, to, role)
  BY DEF canTransition, Lifecycle!canTransition, TRANSITIONS, Lifecycle!TRANSITIONS,
         TRANSITION_ROLES, Lifecycle!TRANSITION_ROLES, Role, Lifecycle!Role
<1>2. PackStatus = Lifecycle!PackStatus /\ Role = Lifecycle!Role
  BY DEF PackStatus, Lifecycle!PackStatus, Role, Lifecycle!Role
<1>3. Lifecycle!Transition
  BY <1>1, <1>2 DEF Lifecycle!Transition
<1>. QED
  BY <1>3 DEF Lifecycle!Next

\* The pipeline asks as the platform admin, about two constants.
LEMMA TableStep ==
  ASSUME NEW from \in PackStatus, NEW to \in PackStatus,
         canTransition(from, to, "PLATFORM_ADMIN"), status = from, status' = to
  PROVE  Lifecycle!Next
  BY RoleStep DEF Role

\* The stages that change the status, each from the status it is meant for.
LEMMA StatusStages ==
  ASSUME IInv, PipelineInv, NEW i \in Thread,
         Validate(i) \/ Scan(i) \/ Certify(i) \/ Publish(i)
  PROVE  PipelineInv' /\ Lifecycle!Next
<1>. USE DEF AfterNormalize, PackStatus, certVars
<1>1. \A l \in AfterNormalize : ipc[i] = l => StageOK(l)
  BY DEF PipelineInv, StageInv, StageOK
<1>2. CASE Validate(i)
  <2>1. Proceed(i, "validate", "scan") /\ status' = "IMPORTED" /\ canTransition("DRAFT", "IMPORTED", "PLATFORM_ADMIN")
    BY <1>2 DEF Validate, transitionVersion
  <2>2. status = "DRAFT"
    BY <1>1, <2>1 DEF Proceed, StageOK, StageStatus
  <2>3. StageOK("scan")'
    BY <2>1 DEF StageOK, StageStatus
  <2>4. PipelineInv'
    BY <2>1, <2>3, DriverStepKeeps
  <2>5. Lifecycle!Next
    BY <2>1, <2>2, TableStep
  <2>. QED
    BY <2>4, <2>5
<1>3. CASE Scan(i)
  <2>1. Proceed(i, "scan", "createCert") /\ status' = "VALIDATED" /\ canTransition("IMPORTED", "VALIDATED", "PLATFORM_ADMIN")
    BY <1>3 DEF Scan, transitionVersion
  <2>2. status = "IMPORTED"
    BY <1>1, <2>1 DEF Proceed, StageOK, StageStatus
  <2>3. StageOK("createCert")'
    BY <2>1 DEF StageOK, StageStatus
  <2>4. PipelineInv'
    BY <2>1, <2>3, DriverStepKeeps
  <2>5. Lifecycle!Next
    BY <2>1, <2>2, TableStep
  <2>. QED
    BY <2>4, <2>5
<1>4. CASE Certify(i)
  <2>1. /\ Proceed(i, "certify", "sign") /\ status' = "CERTIFIED" /\ certs' = certs
        /\ canTransition("VALIDATED", "CERTIFIED", "PLATFORM_ADMIN")
    BY <1>4 DEF Certify, transitionVersion
  <2>2. status = "VALIDATED" /\ certs # {}
    BY <1>1, <2>1 DEF Proceed, StageOK, StageStatus
  <2>3. StageOK("sign")'
    BY <2>1, <2>2 DEF StageOK, StageStatus
  <2>4. PipelineInv'
    BY <2>1, <2>3, DriverStepKeeps
  <2>5. Lifecycle!Next
    BY <2>1, <2>2, TableStep
  <2>. QED
    BY <2>4, <2>5
<1>5. CASE Publish(i)
  <2>1. Proceed(i, "publish", "audit") /\ status' = "PUBLISHED" /\ certs' = certs /\ checksum' = checksum
    BY <1>5 DEF Publish
  <2>2. status = "CERTIFIED" /\ certs # {} /\ checksum
    BY <1>1, <2>1 DEF Proceed, StageOK, StageStatus
  <2>3. StageOK("audit")'
    BY <2>1, <2>2 DEF StageOK, StageStatus
  <2>4. PipelineInv'
    BY <2>1, <2>3, DriverStepKeeps
  <2>5. canTransition("CERTIFIED", "PUBLISHED", "PLATFORM_ADMIN")
    BY DEF canTransition, TRANSITIONS, TRANSITION_ROLES
  <2>6. Lifecycle!Next
    BY <2>1, <2>2, <2>5, TableStep
  <2>. QED
    BY <2>4, <2>6
<1>. QED
  BY <1>2, <1>3, <1>4, <1>5

\* The stages that write other rows.
LEMMA RowStages ==
  ASSUME IInv, PipelineInv, NEW i \in Thread, CreateCert(i) \/ Sign(i)
  PROVE  PipelineInv' /\ status' = status
<1>. USE DEF AfterNormalize, certVars, rowVars
<1>1. \A l \in AfterNormalize : ipc[i] = l => StageOK(l)
  BY DEF PipelineInv, StageInv, StageOK
<1>2. CASE CreateCert(i)
  <2>1. Proceed(i, "createCert", "certify") /\ status' = status /\ certs' # {}
    BY <1>2 DEF CreateCert, AddCert
  <2>2. StageOK("certify")'
    BY <1>1, <2>1 DEF Proceed, StageOK, StageStatus
  <2>. QED
    BY <2>1, <2>2, DriverStepKeeps
<1>3. CASE Sign(i)
  <2>1. Proceed(i, "sign", "publish") /\ status' = status /\ checksum' /\ certs' = certs
    BY <1>3 DEF Sign
  <2>2. StageOK("publish")'
    BY <1>1, <2>1 DEF Proceed, StageOK, StageStatus
  <2>. QED
    BY <2>1, <2>2, DriverStepKeeps
<1>. QED
  BY <1>2, <1>3

\* The job ends with nothing left at work.
LEMMA RecordStage ==
  ASSUME IInv, PipelineInv, NEW i \in Thread, RecordImport(i)
  PROVE  PipelineInv' /\ status' = status
<1>. USE DEF certVars, rowVars
<1>1. /\ ipc[i] = "audit" /\ Proceed(i, "audit", "completed")
      /\ status' = status /\ checksum' = checksum /\ certs' = certs
  BY DEF RecordImport
<1>2. "audit" \in AfterNormalize /\ "completed" \notin AfterNormalize
  BY DEF AfterNormalize
<1>3. Idle'
  <2>1. \A j \in Thread : ipc'[j] \in AfterNormalize => ipc'[j] = "completed"
    BY <1>1, <1>2, DriverMoves
  <2>. QED
    BY <1>2, <2>1 DEF Idle
<1>4. StageOK("audit")
  BY <1>1, <1>2 DEF PipelineInv, StageInv, StageOK
<1>5. status' = "PUBLISHED" /\ checksum' /\ certs' # {}
  BY <1>1, <1>4 DEF StageOK, StageStatus
<1>6. StageInv' /\ CompletedInv'
  BY <1>3, <1>5 DEF StageInv, CompletedInv, Idle
<1>. QED
  BY <1>1, <1>6 DEF PipelineInv

\* Before the version exists the pipeline is idle; creating it is an Import.
LEMMA CreateStage ==
  ASSUME IInv, PipelineInv, NEW i \in Thread, CreateVersion(i)
  PROVE  PipelineInv' /\ (Lifecycle!Next \/ status' = status)
<1>. USE DEF certVars
<1>0. TypeOK /\ Import \subseteq Thread
  BY DEF IInv, Thread
<1>1. checksum' = checksum /\ certs' = certs
  BY DEF CreateVersion
<1>2. CASE status # "absent"
  <2>1. ipc' = [ipc EXCEPT ![i] = Retry(i)] /\ status' = status
    BY <1>2 DEF CreateVersion, Throw
  <2>2. PipelineInv'
    BY <1>0, <1>1, <2>1, RetryEffect, AsideMoves, AsideKeeps
  <2>. QED
    BY <2>1, <2>2
<1>3. CASE status = "absent"
  <2>1. Proceed(i, "createVersion", "validate") /\ status' = "DRAFT"
    BY <1>3 DEF CreateVersion
  <2>2. Drivers = {}
    BY <1>3 DEF IInv, AbsentInv
  <2>3. ipc \in [Thread -> ImportPc \cup LatePc]
    BY <1>0 DEF TypeOK
  <2>4. /\ \A j \in Thread \ {i} : ipc'[j] = ipc[j]
        /\ ipc'[i] \in {"validate", "none"}
    BY <2>1, <2>3 DEF Proceed
  <2>5. /\ \A j \in Thread : ipc'[j] \in AfterNormalize => ipc'[j] = "validate"
        /\ \A j \in Import : ipc'[j] = "completed" => ipc[j] = "completed"
    BY <1>0, <2>2, <2>4 DEF Drivers, AfterNormalize
  <2>6. StageOK("validate")'
    BY <2>1 DEF StageOK, StageStatus
  <2>7. StageInv'
    BY <2>5, <2>6 DEF StageInv, StageOK
  <2>8. CompletedInv'
    BY <1>3, <2>5 DEF PipelineInv, CompletedInv
  <2>9. Lifecycle!Next
    BY <1>3, <2>1 DEF Lifecycle!Next, Lifecycle!Create
  <2>. QED
    BY <2>7, <2>8, <2>9 DEF PipelineInv
<1>. QED
  BY <1>2, <1>3

\* A failed validation rewrites the DRAFT it found.
LEMMA ValidationStage ==
  ASSUME IInv, PipelineInv, NEW i \in Thread, ValidationFails(i)
  PROVE  PipelineInv' /\ status' = status
<1>. USE DEF certVars
<1>0. TypeOK
  BY DEF IInv
<1>1. /\ ipc[i] = "validate" /\ ipc' = [ipc EXCEPT ![i] = Retry(i)]
      /\ status' = "DRAFT" /\ checksum' = checksum /\ certs' = certs
  BY DEF ValidationFails, Throw
<1>2. status = "DRAFT"
  <2>1. "validate" \in AfterNormalize
    BY DEF AfterNormalize
  <2>2. status = StageStatus["validate"]
    BY <1>1, <2>1 DEF PipelineInv, StageInv, StageOK
  <2>. QED
    BY <2>2 DEF StageStatus
<1>3. PipelineInv'
  BY <1>0, <1>1, <1>2, RetryEffect, AsideMoves, AsideKeeps
<1>. QED
  BY <1>1, <1>2, <1>3

\* Everything else the pipeline does leaves the version alone.
LEMMA OtherStages ==
  ASSUME IInv, PipelineInv, NEW i \in Thread,
         \/ Deliver(i) \/ FetchAndParse(i) \/ FindPack(i) \/ FindVersion(i)
         \/ CreatePack(i) \/ Fail(i)
  PROVE  PipelineInv' /\ status' = status
<1>. USE DEF certVars, rowVars
<1>0. TypeOK
  BY DEF IInv
<1>1. status' = status /\ checksum' = checksum /\ certs' = certs
  BY DEF Deliver, FetchAndParse, FindPack, FindVersion, CreatePack, Fail
<1>2. \/ ipc' = [ipc EXCEPT ![i] = Retry(i)]
      \/ \E p \in InNormalize \cup {"fetch", "none"} : ipc' = [ipc EXCEPT ![i] = p]
  BY DEF Deliver, FetchAndParse, FindPack, FindVersion, CreatePack, Fail, Throw, Proceed,
         InNormalize
<1>3. \A p \in InNormalize \cup {"fetch", "none"} : p \notin AfterNormalize /\ p # "completed"
  BY DEF InNormalize, AfterNormalize
<1>. QED
  BY <1>0, <1>1, <1>2, <1>3, RetryEffect, AsideMoves, AsideKeeps

\* A timeout moves the driver aside.
LEMMA TimeoutStage ==
  ASSUME IInv, PipelineInv, NEW i \in Import, NEW l \in Late, StageTimeout(i, l)
  PROVE  PipelineInv' /\ status' = status
<1>1. status' = status /\ checksum' = checksum /\ certs' = certs
  BY DEF StageTimeout, rowVars, certVars
<1>2. /\ i \in Thread /\ l \in Thread /\ ipc'[l] = ipc[i] /\ ipc'[i] = Retry(i)
      /\ \A j \in Thread \ {i, l} : ipc'[j] = ipc[j]
  BY TimeoutMoves DEF IInv
<1>3. Retry(i) \notin AfterNormalize /\ Retry(i) # "completed"
  BY <1>2, RetryEffect
<1>4. Import \subseteq Thread /\ l \notin Import
  BY PackAssumption DEF Thread, PackAssumption
<1>. QED
  BY <1>1, <1>2, <1>3, <1>4, AsideKeeps

LEMMA PipelineKeeps ==
  ASSUME Call = {}, IInv, PipelineInv, [Next]_vars
  PROVE  PipelineInv' /\ (Lifecycle!Next \/ status' = status)
<1>1. Import \subseteq Thread /\ Late \subseteq Thread
  BY DEF Thread
<1>2. ASSUME NEW i \in Thread, ImportStep(i) \/ PipelineStep(i) \/ Fail(i)
      PROVE  PipelineInv' /\ (Lifecycle!Next \/ status' = status)
  BY <1>2, StatusStages, RowStages, RecordStage, CreateStage, ValidationStage, OtherStages
     DEF ImportStep, PipelineStep
<1>3. ASSUME UNCHANGED vars \/ \E t \in Tenant : Uninstall(t)
      PROVE  PipelineInv' /\ status' = status
  <2>1. status' = status /\ checksum' = checksum /\ certs' = certs /\ ipc' = ipc
    BY <1>3 DEF vars, Uninstall, rowVars, certVars, importVars
  <2>. QED
    BY <2>1, <1>1, AsideKeeps
<1>. QED
  BY <1>1, <1>2, <1>3, TimeoutStage DEF Next

\* Left to itself, the pipeline implements the lifecycle: with its retries, its
\* timeouts and the stages that go on after them, for any number of imports of
\* one version, the status only ever moves along the table of transitions.
THEOREM PipelineFollowsLifecycle ==
  ASSUME Call = {}
  PROVE  Spec => FollowsLifecycle
<1>1. Init => PipelineInv /\ Lifecycle!Init
  <2>. SUFFICES ASSUME Init PROVE PipelineInv /\ Lifecycle!Init
    OBVIOUS
  <2>1. StageInv /\ CompletedInv
    BY DEF Init, Thread, StageInv, CompletedInv, AfterNormalize
  <2>2. Lifecycle!Init
    BY PackAssumption DEF PackAssumption, Init, Lifecycle!Init
  <2>. QED
    BY <2>1, <2>2 DEF PipelineInv
<1>2. IInv /\ PipelineInv /\ [Next]_vars => PipelineInv' /\ [Lifecycle!Next]_status
  BY PipelineKeeps
<1>. QED
  BY <1>1, <1>2, Invariance, PTL DEF Spec, FollowsLifecycle, Lifecycle!Spec

\* An import that completed left a published, signed and certified version,
\* whatever the other imports and the late stages did meanwhile.
THEOREM CompletedImportsPublish == Spec => []CompletedIsPublished
<1>1. CASE Call = {}
  <2>1. Init => PipelineInv
    BY DEF Init, Thread, PipelineInv, StageInv, CompletedInv, AfterNormalize
  <2>2. IInv /\ PipelineInv /\ [Next]_vars => PipelineInv'
    BY <1>1, PipelineKeeps
  <2>3. PipelineInv => CompletedIsPublished
    BY DEF PipelineInv, CompletedInv, CompletedIsPublished
  <2>. QED
    BY <2>1, <2>2, <2>3, Invariance, PTL DEF Spec
<1>2. CASE Call # {}
  <2>1. CompletedIsPublished
    BY <1>2 DEF CompletedIsPublished
  <2>. QED
    BY <2>1, PTL
<1>. QED
  BY <1>1, <1>2

-----------------------------------------------------------------------------
\* What a block that has settled is safe from

\* The calls that a blocked version lets begin, and what they have read.
BlockedInv ==
  /\ status = "BLOCKED" /\ Drivers = {}
  /\ \A c \in Call : /\ cpc[c] \in {"idle", "revokeDelete", "revokeCount"}
                     /\ cpc[c] # "idle" => target[c] = "BLOCKED"

\* The pipeline stops at the version it finds.
LEMMA BlockedPipeline ==
  ASSUME IInv, BlockedInv, NEW i \in Thread, ImportStep(i) \/ PipelineStep(i) \/ Fail(i)
  PROVE  status' = status /\ Drivers' = {} /\ callVars' = callVars /\ installs' = installs
<1>. USE DEF rowVars
<1>0. ipc \in [Thread -> ImportPc \cup LatePc]
  BY DEF IInv, TypeOK
<1>1. ipc[i] \notin AfterNormalize /\ status = "BLOCKED"
  BY DEF BlockedInv, Drivers
<1>2. \/ Deliver(i) \/ FetchAndParse(i) \/ FindPack(i) \/ FindVersion(i)
      \/ CreatePack(i) \/ CreateVersion(i) \/ Fail(i)
  BY <1>1 DEF ImportStep, PipelineStep, Validate, ValidationFails, Scan, CreateCert, Certify,
              Sign, Publish, RecordImport, transitionVersion, Proceed, Throw, AfterNormalize
<1>3. /\ status' = status /\ callVars' = callVars /\ installs' = installs
      /\ \/ ipc' = [ipc EXCEPT ![i] = Retry(i)]
         \/ \E p \in InNormalize \cup {"fetch", "none"} : ipc' = [ipc EXCEPT ![i] = p]
  BY <1>1, <1>2 DEF Deliver, FetchAndParse, FindPack, FindVersion, CreatePack, CreateVersion,
                    Fail, Throw, Proceed, InNormalize
<1>4. PICK p : p \notin AfterNormalize /\ ipc' = [ipc EXCEPT ![i] = p]
  BY <1>3, RetryEffect DEF InNormalize, AfterNormalize
<1>5. Drivers' \subseteq Drivers
  BY <1>0, <1>4 DEF Drivers
<1>. QED
  BY <1>3, <1>5 DEF BlockedInv

LEMMA BlockedCalls ==
  ASSUME IInv, BlockedInv, NEW c \in Call, CallStep(c)
  PROVE  BlockedInv' /\ installs' = installs
<1>. USE DEF rowVars, importVars
<1>1. /\ cpc \in [Call -> CallPc] /\ target \in [Call -> PackStatus] /\ status = "BLOCKED"
      /\ cpc[c] \in {"idle", "revokeDelete", "revokeCount"}
  BY DEF IInv, TypeOK, BlockedInv
<1>2. \A to, role : ~canTransition("BLOCKED", to, role)
  BY DEF canTransition, TRANSITIONS
<1>3. (\E x \in Cert : RevokeRead(c, x)) \/ RevokeDelete(c) \/ RevokeCount(c)
  BY <1>1, <1>2 DEF CallStep, TransitionRead, TransitionWrite, CertifyRead, CertifyCreate,
                    CertifyWrite, RevokeDemote, InstallRead, InstallFind, InstallCreate
<1>4. status' = status /\ ipc' = ipc /\ installs' = installs
  BY <1>3 DEF RevokeRead, RevokeDelete, RevokeCount
<1>5. \/ cpc' = [cpc EXCEPT ![c] = "idle"] /\ target' = [target EXCEPT ![c] = "DRAFT"]
      \/ cpc' = [cpc EXCEPT ![c] = "revokeDelete"] /\ target' = [target EXCEPT ![c] = "BLOCKED"]
      \/ /\ cpc[c] = "revokeDelete" /\ cpc' = [cpc EXCEPT ![c] = "revokeCount"]
         /\ target' = target
  BY <1>1, <1>3 DEF RevokeRead, RevokeDelete, RevokeCount, Return, Goto, BlockedInv
<1>6. \A d \in Call : /\ cpc'[d] \in {"idle", "revokeDelete", "revokeCount"}
                      /\ cpc'[d] # "idle" => target'[d] = "BLOCKED"
  BY <1>1, <1>5 DEF BlockedInv
<1>. QED
  BY <1>4, <1>6 DEF BlockedInv, Drivers

LEMMA BlockedKeeps ==
  ASSUME IInv, BlockedInv, [Next]_vars
  PROVE  BlockedInv' /\ installs' \subseteq installs
<1>1. Import \subseteq Thread /\ Late \subseteq Thread
  BY DEF Thread
<1>2. ASSUME NEW i \in Thread, ImportStep(i) \/ PipelineStep(i) \/ Fail(i)
      PROVE  BlockedInv' /\ installs' \subseteq installs
  <2>1. status' = status /\ Drivers' = {} /\ callVars' = callVars /\ installs' = installs
    BY <1>2, BlockedPipeline
  <2>. QED
    BY <2>1 DEF BlockedInv, callVars
<1>3. ASSUME NEW i \in Import, NEW l \in Late, StageTimeout(i, l)
      PROVE  BlockedInv' /\ installs' \subseteq installs
  <2>1. /\ i \in Thread /\ l \in Thread /\ ipc'[l] = ipc[i] /\ ipc'[i] = Retry(i)
        /\ \A j \in Thread \ {i, l} : ipc'[j] = ipc[j]
    BY <1>3, TimeoutMoves DEF IInv
  <2>2. Retry(i) \notin AfterNormalize
    BY <2>1, RetryEffect
  <2>3. Drivers' = {}
    BY <2>1, <2>2 DEF BlockedInv, Drivers
  <2>. QED
    BY <1>3, <2>3 DEF StageTimeout, BlockedInv, rowVars, callVars
<1>4. ASSUME UNCHANGED vars \/ \E t \in Tenant : Uninstall(t)
      PROVE  BlockedInv' /\ installs' \subseteq installs
  BY <1>4 DEF vars, Uninstall, rowVars, importVars, callVars, BlockedInv, Drivers
<1>. QED
  BY <1>1, <1>2, <1>3, <1>4, BlockedCalls DEF Next

\* A block that nothing was under way against when it fell is final: whatever
\* calls, imports, redeliveries and late stages follow, the version stays
\* BLOCKED, and nobody installs it who had not.
THEOREM BlocksStand == Spec => BlockStands
<1>1. IInv /\ Settled => BlockedInv
  BY DEF Settled, BlockedInv
<1>2. IInv /\ BlockedInv /\ [Next]_vars => BlockedInv'
  BY BlockedKeeps
<1>3. IInv /\ BlockedInv /\ installs = {} /\ [Next]_vars => (installs = {})'
  BY BlockedKeeps
<1>4. BlockedInv => status = "BLOCKED"
  BY DEF BlockedInv
<1>. QED
  BY <1>1, <1>2, <1>3, <1>4, Invariance, PTL DEF Spec, BlockStands

-----------------------------------------------------------------------------
\* One call at a time

\* A call that is alone still finds what it read.
CallInv ==
  \A c \in Call :
    /\ cpc[c] = "transition" => \E role \in Role : canTransition(status, target[c], role)
    /\ cpc[c] \in {"certCreate", "revokeDelete", "revokeCount"} => target[c] = status
    /\ cpc[c] = "certCreate" => status \in {"VALIDATED", "CERTIFIED"}
    /\ cpc[c] = "certify" => status = "VALIDATED"
    /\ cpc[c] = "demote" => status = "CERTIFIED"

\* The reads note the status as it is.
LEMMA ReadAlone ==
  ASSUME TypeOK, CallInv, \A b, d \in Call : b = d, NEW c \in Call,
         \/ \E to \in PackStatus, role \in Role : TransitionRead(c, to, role)
         \/ CertifyRead(c) \/ (\E x \in Cert : RevokeRead(c, x)) \/ (\E t \in Tenant : InstallRead(c, t))
  PROVE  CallInv' /\ status' = status
<1>1. cpc \in [Call -> CallPc] /\ target \in [Call -> PackStatus]
  BY DEF TypeOK
<1>2. CASE \E to \in PackStatus, role \in Role : TransitionRead(c, to, role)
  <2>1. PICK to \in PackStatus, role \in Role : TransitionRead(c, to, role)
    BY <1>2
  <2>2. /\ status' = status /\ cpc'[c] = "transition" /\ target'[c] = to
        /\ canTransition(status, to, role)
    BY <1>1, <2>1 DEF TransitionRead, Goto, rowVars
  <2>. QED
    BY <2>2 DEF CallInv, canTransition
<1>3. CASE CertifyRead(c)
  <2>1. /\ status' = status /\ cpc'[c] = "certCreate" /\ target'[c] = status
        /\ status \in {"VALIDATED", "CERTIFIED"}
    BY <1>1, <1>3 DEF CertifyRead, Goto, rowVars
  <2>. QED
    BY <2>1 DEF CallInv
<1>4. CASE \E x \in Cert : RevokeRead(c, x)
  <2>1. status' = status /\ cpc'[c] = "revokeDelete" /\ target'[c] = status
    BY <1>1, <1>4 DEF RevokeRead, Goto, rowVars
  <2>. QED
    BY <2>1 DEF CallInv
<1>5. CASE \E t \in Tenant : InstallRead(c, t)
  <2>1. status' = status /\ cpc'[c] = "installFind"
    BY <1>1, <1>5 DEF InstallRead, Goto, rowVars
  <2>. QED
    BY <2>1 DEF CallInv
<1>. QED
  BY <1>2, <1>3, <1>4, <1>5

\* The calls in between go on with what was read, or return.
LEMMA MiddleAlone ==
  ASSUME TypeOK, CallInv, \A b, d \in Call : b = d, NEW c \in Call,
         CertifyCreate(c) \/ RevokeDelete(c) \/ RevokeCount(c) \/ InstallFind(c) \/ InstallCreate(c)
  PROVE  CallInv' /\ status' = status
<1>1. cpc \in [Call -> CallPc]
  BY DEF TypeOK
<1>2. status' = status
  BY DEF CertifyCreate, RevokeDelete, RevokeCount, InstallFind, InstallCreate, rowVars
<1>3. CASE Return(c)
  <2>1. cpc'[c] = "idle"
    BY <1>1, <1>3 DEF Return
  <2>. QED
    BY <1>2, <2>1 DEF CallInv
<1>4. CASE CertifyCreate(c) /\ ~Return(c)
  <2>1. cpc'[c] = "certify" /\ target[c] = "VALIDATED" /\ cpc[c] = "certCreate"
    BY <1>1, <1>4 DEF CertifyCreate, Goto
  <2>2. status = "VALIDATED"
    BY <2>1 DEF CallInv
  <2>. QED
    BY <1>2, <2>1, <2>2 DEF CallInv
<1>5. CASE RevokeDelete(c) /\ ~Return(c)
  <2>1. cpc'[c] = "revokeCount" /\ cpc[c] = "revokeDelete" /\ target' = target
    BY <1>1, <1>5 DEF RevokeDelete, Goto
  <2>2. target[c] = status
    BY <2>1 DEF CallInv
  <2>. QED
    BY <1>2, <2>1, <2>2 DEF CallInv
<1>6. CASE RevokeCount(c) /\ ~Return(c)
  <2>1. cpc'[c] = "demote" /\ cpc[c] = "revokeCount" /\ target[c] = "CERTIFIED"
    BY <1>1, <1>6 DEF RevokeCount, Goto
  <2>2. status = "CERTIFIED"
    BY <2>1 DEF CallInv
  <2>. QED
    BY <1>2, <2>1, <2>2 DEF CallInv
<1>7. CASE InstallFind(c) /\ ~Return(c)
  <2>1. cpc'[c] = "install"
    BY <1>1, <1>7 DEF InstallFind, Goto
  <2>. QED
    BY <1>2, <2>1 DEF CallInv
<1>. QED
  BY <1>3, <1>4, <1>5, <1>6, <1>7 DEF InstallCreate

\* The writes are transitions of the lifecycle.
LEMMA WriteAlone ==
  ASSUME IInv, CallInv, \A b, d \in Call : b = d, NEW c \in Call,
         TransitionWrite(c) \/ CertifyWrite(c) \/ RevokeDemote(c)
  PROVE  CallInv' /\ Lifecycle!Next
<1>1. cpc \in [Call -> CallPc] /\ target \in [Call -> PackStatus]
  BY DEF IInv, TypeOK
<1>2. cpc'[c] = "idle"
  BY <1>1 DEF TransitionWrite, CertifyWrite, RevokeDemote, Return
<1>3. CallInv'
  BY <1>2 DEF CallInv
<1>4. status \in PackStatus
  <2>1. cpc[c] # "idle"
    BY DEF TransitionWrite, CertifyWrite, RevokeDemote
  <2>. QED
    BY <2>1, CallHasVersion
<1>5. CASE TransitionWrite(c)
  <2>1. cpc[c] = "transition" /\ status' = target[c]
    BY <1>5 DEF TransitionWrite
  <2>2. \E role \in Role : canTransition(status, target[c], role)
    BY <2>1 DEF CallInv
  <2>. QED
    BY <1>1, <1>3, <1>4, <2>1, <2>2, RoleStep
<1>6. CASE CertifyWrite(c)
  <2>1. status = "VALIDATED" /\ status' = "CERTIFIED"
    BY <1>6 DEF CertifyWrite, CallInv
  <2>2. canTransition("VALIDATED", "CERTIFIED", "PLATFORM_ADMIN")
    BY DEF canTransition, TRANSITIONS, TRANSITION_ROLES
  <2>. QED
    BY <1>3, <2>1, <2>2, TableStep DEF PackStatus
<1>7. CASE RevokeDemote(c)
  <2>1. status = "CERTIFIED" /\ status' = "VALIDATED"
    BY <1>7 DEF RevokeDemote, CallInv
  <2>. QED
    BY <1>3, <2>1 DEF Lifecycle!Next, Lifecycle!Revoke
<1>. QED
  BY <1>5, <1>6, <1>7

\* Without imports there is no late stage to come.
LateIdle == \A l \in Late : ipc[l] = "none"

LEMMA LateStaysIdle ==
  ASSUME Import = {}, LateIdle, [Next]_vars
  PROVE  LateIdle' /\ \A l \in Late : ~PipelineStep(l) /\ ~Fail(l)
<1>1. \A l \in Late : ~PipelineStep(l) /\ ~Fail(l)
  BY DEF LateIdle, PipelineStep, FindPack, FindVersion, CreatePack, CreateVersion, Validate,
         ValidationFails, Scan, CreateCert, Certify, Sign, Publish, transitionVersion,
         Proceed, Throw, Fail
<1>2. ipc' = ipc
  BY <1>1 DEF Next, CallStep, TransitionRead, TransitionWrite, CertifyRead, CertifyCreate,
              CertifyWrite, RevokeRead, RevokeDelete, RevokeCount, RevokeDemote, InstallRead,
              InstallFind, InstallCreate, Uninstall, vars, importVars
<1>. QED
  BY <1>1, <1>2 DEF LateIdle

\* One call at a time, with no import going on, the API implements the
\* lifecycle: what breaks it is the interleaving, not any single call.
THEOREM CallsFollowLifecycle ==
  ASSUME Import = {}, \A b, d \in Call : b = d
  PROVE  Spec => FollowsLifecycle
<1>1. Init => CallInv /\ LateIdle /\ Lifecycle!Init
  BY PackAssumption DEF PackAssumption, Init, CallInv, LateIdle, Thread, Lifecycle!Init
<1>2. IInv /\ CallInv /\ LateIdle /\ [Next]_vars => CallInv' /\ [Lifecycle!Next]_status
  <2>. SUFFICES ASSUME IInv, CallInv, LateIdle, [Next]_vars
                PROVE  CallInv' /\ [Lifecycle!Next]_status
    OBVIOUS
  <2>0. TypeOK
    BY DEF IInv
  <2>1. ASSUME NEW c \in Call, CallStep(c)
        PROVE  CallInv' /\ [Lifecycle!Next]_status
    <3>1. {"TENANT_ADMIN", "PLATFORM_ADMIN"} \subseteq Role
      BY DEF Role
    <3>. QED
      BY <2>0, <2>1, <3>1, ReadAlone, MiddleAlone, WriteAlone DEF CallStep
  <2>2. ASSUME UNCHANGED vars \/ \E t \in Tenant : Uninstall(t)
        PROVE  CallInv' /\ status' = status
    <3>1. status' = status /\ cpc' = cpc /\ target' = target
      BY <2>2 DEF vars, Uninstall, rowVars, callVars
    <3>. QED
      BY <3>1 DEF CallInv, canTransition
  <2>. QED
    BY <2>1, <2>2, LateStaysIdle DEF Next
<1>3. LateIdle /\ [Next]_vars => LateIdle'
  BY LateStaysIdle
<1>. QED
  BY <1>1, <1>2, <1>3, Invariance, PTL DEF Spec, FollowsLifecycle, Lifecycle!Spec

=============================================================================
