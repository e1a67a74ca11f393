--------------------------- MODULE PackLifecycle ----------------------------
(***************************************************************************)
(* One version of one pack: the worker's import pipeline with the retries  *)
(* of BullMQ and the stages that go on after they timed out, and the API's *)
(* calls on the version (status transitions, certification, revocation,    *)
(* installation).  Each database call is one step.                         *)
(***************************************************************************)
EXTENDS PackDomain, Naturals

CONSTANTS
  Import,     \* import jobs of this version
  Call,       \* API calls in progress at a time
  Cert,       \* certification rows that may be created
  Tenant,     \* tenants that may install the version
  Attempts,   \* deliveries of an import job (attempts: 3)
  Late,       \* stages that timed out and still go on, at a time (a bound)
  Leftover,   \* status at the start: absent, or DRAFT after a failed import
  None        \* no certification, no tenant

ASSUME PackAssumption ==
  /\ Attempts \in Nat \ {0}
  /\ Import \cap Late = {}
  /\ Leftover \in {"absent", "DRAFT"}
  /\ None \notin Cert \cup Tenant

\* The database calls of the pipeline: fetch and parse make none, normalize
\* makes the first four, the later stages are named after their calls, and the
\* audit row follows the pipeline.
InNormalize == {"findPack", "findVersion", "createPack", "createVersion"}
AfterNormalize == {"validate", "scan", "createCert", "certify", "sign", "publish", "audit"}
ImportPc == {"queued", "fetch", "completed", "failed"} \cup InNormalize \cup AfterNormalize
LatePc == {"none"} \cup InNormalize \cup (AfterNormalize \ {"audit"})
CallPc == {"idle", "transition", "certCreate", "certify", "revokeDelete",
           "revokeCount", "demote", "installFind", "install"}

\* What runs the calls of the pipeline: a delivery of an import job, or a stage
\* that timed out, which no delivery waits for.
Thread == Import \cup Late

VARIABLES
  status,     \* PackVersion.status, "absent" before the row exists
  pack,       \* whether the Pack row exists
  checksum,   \* whether PackVersion.checksum is set
  certs,      \* Certification rows of the version
  used,       \* certification ids given out
  installs,   \* tenants with a PackInstallation of the version
  ipc,        \* the next call of each thread of the pipeline
  attempt,    \* deliveries of the job so far
  cpc,        \* the next call of each API call
  target,     \* the status an API call will write or has read
  cert,       \* the certification it revokes
  tenant      \* the tenant it installs for

rowVars == <<status, pack, checksum>>
certVars == <<certs, used>>
importVars == <<ipc, attempt>>
callVars == <<cpc, target, cert, tenant>>
vars == <<status, pack, checksum, certs, used, installs, ipc, attempt, cpc,
          target, cert, tenant>>

TypeOK ==
  /\ status \in PackStatus \cup {"absent"}
  /\ pack \in BOOLEAN /\ checksum \in BOOLEAN
  /\ certs \subseteq used /\ used \subseteq Cert
  /\ installs \subseteq Tenant
  /\ ipc \in [Thread -> ImportPc \cup LatePc]
  /\ \A i \in Import : ipc[i] \in ImportPc
  /\ \A l \in Late : ipc[l] \in LatePc
  /\ attempt \in [Import -> 0 .. Attempts]
  /\ cpc \in [Call -> CallPc]
  /\ target \in [Call -> PackStatus]
  /\ cert \in [Call -> Cert \cup {None}]
  /\ tenant \in [Call -> Tenant \cup {None}]

Init ==
  /\ status = Leftover
  /\ pack = (Leftover # "absent")
  /\ checksum = FALSE
  /\ certs = {} /\ used = {} /\ installs = {}
  /\ ipc = [i \in Thread |-> IF i \in Import THEN "queued" ELSE "none"]
  /\ attempt = [i \in Import |-> 0]
  /\ cpc = [c \in Call |-> "idle"]
  /\ target = [c \in Call |-> "DRAFT"]
  /\ cert = [c \in Call |-> None]
  /\ tenant = [c \in Call |-> None]

\* Where an error leaves a thread: the job is queued again or given up, a stage
\* that timed out has ended.
Retry(i) ==
  IF i \in Late THEN "none" ELSE IF attempt[i] < Attempts THEN "queued" ELSE "failed"

\* Thread i, which has come to call l, goes on to the next call of its job, a
\* stage that timed out only to the next call of the stage.
Proceed(i, l, next) ==
  /\ ipc[i] = l
  /\ ipc' = [ipc EXCEPT ![i] =
       IF i \in Import \/ next \in InNormalize \cup {"certify"} THEN next ELSE "none"]
  /\ UNCHANGED attempt

Throw(i, l) ==
  /\ ipc[i] = l
  /\ ipc' = [ipc EXCEPT ![i] = Retry(i)]
  /\ UNCHANGED attempt

Return(c) ==
  /\ cpc' = [cpc EXCEPT ![c] = "idle"]
  /\ target' = [target EXCEPT ![c] = "DRAFT"]
  /\ cert' = [cert EXCEPT ![c] = None]
  /\ tenant' = [tenant EXCEPT ![c] = None]

Goto(c, l) == cpc' = [cpc EXCEPT ![c] = l]

-----------------------------------------------------------------------------
\* Mutated actions: plausible slips in the code, each of which some property
\* below must notice.  The specification uses none of them.

\* upsert for create.
CreateVersionUpserts(i) ==
  /\ Proceed(i, "createVersion", "validate")
  /\ IF status = "absent" THEN status' = "DRAFT" ELSE UNCHANGED <<status>>
  /\ UNCHANGED <<pack, checksum, certVars, callVars, installs>>

\* An import waits for the version that another one is making.
FindVersionWaits(i) ==
  /\ status = "absent"
  /\ Proceed(i, "findVersion", "createVersion")
  /\ UNCHANGED <<rowVars, certVars, callVars, installs>>

\* The validation stage forgets the status.
ValidateWithoutStatus(i) ==
  /\ Proceed(i, "validate", "scan")
  /\ UNCHANGED <<rowVars, certVars, callVars, installs>>

\* The last revocation demotes the version whatever its status was.
RevokeCountAnyStatus(c) ==
  /\ cpc[c] = "revokeCount"
  /\ IF certs = {} THEN Goto(c, "demote") /\ UNCHANGED <<target, cert, tenant>>
                   ELSE Return(c)
  /\ UNCHANGED <<rowVars, certVars, importVars, installs>>

-----------------------------------------------------------------------------
\* runPackImportPipeline

Deliver(i) ==
  /\ ipc[i] = "queued"
  /\ ipc' = [ipc EXCEPT ![i] = "fetch"]
  /\ attempt' = [attempt EXCEPT ![i] = @ + 1]
  /\ UNCHANGED <<rowVars, certVars, callVars, installs>>

FetchAndParse(i) ==
  /\ ipc[i] = "fetch"
  /\ Proceed(i, "fetch", "findPack")
  /\ UNCHANGED <<rowVars, certVars, callVars, installs>>

FindPack(i) ==
  /\ Proceed(i, "findPack", IF pack THEN "findVersion" ELSE "createPack")
  /\ UNCHANGED <<rowVars, certVars, callVars, installs>>

\* An existing version is an error, whoever made it.
FindVersion(i) ==
  /\ IF status = "absent" THEN Proceed(i, "findVersion", "createVersion")
                          ELSE Throw(i, "findVersion")
  /\ UNCHANGED <<rowVars, certVars, callVars, installs>>

\* Pack.key is unique.
CreatePack(i) ==
  /\ IF pack THEN Throw(i, "createPack") ELSE Proceed(i, "createPack", "createVersion")
  /\ pack' = TRUE
  /\ UNCHANGED <<status, checksum, certVars, callVars, installs>>

\* PackVersion is unique in (packId, version).
CreateVersion(i) ==
  /\ IF status = "absent"
       THEN Proceed(i, "createVersion", "validate") /\ status' = "DRAFT"
       ELSE Throw(i, "createVersion") /\ UNCHANGED <<status>>
  /\ UNCHANGED <<pack, checksum, certVars, callVars, installs>>

\* transitionVersion: canTransition is asked about two constants, the update
\* names only the id.
transitionVersion(i, l, from, to, next) ==
  /\ canTransition(from, to, "PLATFORM_ADMIN")
  /\ status' = to
  /\ Proceed(i, l, next)
  /\ UNCHANGED <<pack, checksum, certVars, callVars, installs>>

Validate(i) == transitionVersion(i, "validate", "DRAFT", "IMPORTED", "scan")

\* A manifest that breaks a rule puts the version back to DRAFT and throws.
ValidationFails(i) ==
  /\ status' = "DRAFT"
  /\ Throw(i, "validate")
  /\ UNCHANGED <<pack, checksum, certVars, callVars, installs>>

Scan(i) == transitionVersion(i, "scan", "IMPORTED", "VALIDATED", "createCert")

AddCert(x) ==
  /\ x \notin used
  /\ certs' = certs \cup {x}
  /\ used' = used \cup {x}

CreateCert(i) ==
  /\ \E x \in Cert : AddCert(x)
  /\ Proceed(i, "createCert", "certify")
  /\ UNCHANGED <<rowVars, callVars, installs>>

Certify(i) == transitionVersion(i, "certify", "VALIDATED", "CERTIFIED", "sign")

Sign(i) ==
  /\ checksum' = TRUE
  /\ Proceed(i, "sign", "publish")
  /\ UNCHANGED <<status, pack, certVars, callVars, installs>>

\* No transition is asked about at all.  (The install stage that follows is
\* skipped: the API queues every import with autoInstall false.)
Publish(i) ==
  /\ status' = "PUBLISHED"
  /\ Proceed(i, "publish", "audit")
  /\ UNCHANGED <<pack, checksum, certVars, callVars, installs>>

\* The audit row is written in the try block of the job.
RecordImport(i) ==
  /\ ipc[i] = "audit"
  /\ Proceed(i, "audit", "completed")
  /\ UNCHANGED <<rowVars, certVars, callVars, installs>>

\* A stage or the audit row fails, or the worker dies: the next delivery
\* starts from the first stage with an empty context.
Fail(i) ==
  /\ ipc[i] \notin {"none", "queued", "completed", "failed"}
  /\ ipc' = [ipc EXCEPT ![i] = Retry(i)]
  /\ UNCHANGED <<rowVars, certVars, callVars, installs, attempt>>

\* Promise.race rejects but does not stop the stage.
StageTimeout(i, l) ==
  /\ ipc[i] \in LatePc
  /\ ipc[l] = "none"
  /\ ipc' = [ipc EXCEPT ![l] = ipc[i], ![i] = Retry(i)]
  /\ UNCHANGED <<rowVars, certVars, callVars, installs, attempt>>

PipelineStep(i) ==
  \/ FindPack(i) \/ FindVersion(i) \/ CreatePack(i) \/ CreateVersion(i)
  \/ Validate(i) \/ ValidationFails(i) \/ Scan(i) \/ CreateCert(i)
  \/ Certify(i) \/ Sign(i) \/ Publish(i)

ImportStep(i) == Deliver(i) \/ FetchAndParse(i) \/ PipelineStep(i) \/ RecordImport(i)

-----------------------------------------------------------------------------
\* The API.  Each call is a read that decides and writes that follow.

\* PackService.transitionVersionStatus, and block and deprecate through it.
TransitionRead(c, to, role) ==
  /\ cpc[c] = "idle"
  /\ status # "absent"
  /\ canTransition(status, to, role)
  /\ Goto(c, "transition")
  /\ target' = [target EXCEPT ![c] = to]
  /\ UNCHANGED <<rowVars, certVars, importVars, installs, cert, tenant>>

TransitionWrite(c) ==
  /\ cpc[c] = "transition"
  /\ status' = target[c]
  /\ Return(c)
  /\ UNCHANGED <<pack, checksum, certVars, importVars, installs>>

\* CertificationService.certify
CertifyRead(c) ==
  /\ cpc[c] = "idle"
  /\ status \in {"VALIDATED", "CERTIFIED"}
  /\ Goto(c, "certCreate")
  /\ target' = [target EXCEPT ![c] = status]
  /\ UNCHANGED <<rowVars, certVars, importVars, installs, cert, tenant>>

CertifyCreate(c) ==
  /\ cpc[c] = "certCreate"
  /\ \E x \in Cert : AddCert(x)
  /\ IF target[c] = "VALIDATED" THEN Goto(c, "certify") /\ UNCHANGED <<target, cert, tenant>>
                                ELSE Return(c)
  /\ UNCHANGED <<rowVars, importVars, installs>>

CertifyWrite(c) ==
  /\ cpc[c] = "certify"
  /\ status' = "CERTIFIED"
  /\ Return(c)
  /\ UNCHANGED <<pack, checksum, certVars, importVars, installs>>

\* CertificationService.revokeCertification; the status is the one read first.
RevokeRead(c, x) ==
  /\ cpc[c] = "idle"
  /\ x \in certs
  /\ Goto(c, "revokeDelete")
  /\ target' = [target EXCEPT ![c] = status]
  /\ cert' = [cert EXCEPT ![c] = x]
  /\ UNCHANGED <<rowVars, certVars, importVars, installs, tenant>>

RevokeDelete(c) ==
  /\ cpc[c] = "revokeDelete"
  /\ IF cert[c] \in certs THEN Goto(c, "revokeCount") /\ UNCHANGED <<target, cert, tenant>>
                          ELSE Return(c)
  /\ certs' = certs \ {cert[c]}
  /\ UNCHANGED <<rowVars, used, importVars, installs>>

RevokeCount(c) ==
  /\ cpc[c] = "revokeCount"
  /\ IF certs = {} /\ target[c] = "CERTIFIED"
       THEN Goto(c, "demote") /\ UNCHANGED <<target, cert, tenant>>
       ELSE Return(c)
  /\ UNCHANGED <<rowVars, certVars, importVars, installs>>

RevokeDemote(c) ==
  /\ cpc[c] = "demote"
  /\ status' = "VALIDATED"
  /\ Return(c)
  /\ UNCHANGED <<pack, checksum, certVars, importVars, installs>>

\* PackService.install and .uninstall; an installation is unique per tenant.
InstallRead(c, t) ==
  /\ cpc[c] = "idle"
  /\ status \in {"PUBLISHED", "CERTIFIED"}
  /\ Goto(c, "installFind")
  /\ tenant' = [tenant EXCEPT ![c] = t]
  /\ UNCHANGED <<rowVars, certVars, importVars, installs, target, cert>>

InstallFind(c) ==
  /\ cpc[c] = "installFind"
  /\ IF tenant[c] \in installs THEN Return(c)
                              ELSE Goto(c, "install") /\ UNCHANGED <<target, cert, tenant>>
  /\ UNCHANGED <<rowVars, certVars, importVars, installs>>

InstallCreate(c) ==
  /\ cpc[c] = "install"
  /\ installs' = installs \cup {tenant[c]}
  /\ Return(c)
  /\ UNCHANGED <<rowVars, certVars, importVars>>

Uninstall(t) ==
  /\ t \in installs
  /\ installs' = installs \ {t}
  /\ UNCHANGED <<rowVars, certVars, importVars, callVars>>

CallStep(c) ==
  \/ \E to \in PackStatus, role \in {"TENANT_ADMIN", "PLATFORM_ADMIN"} :
       TransitionRead(c, to, role)
  \/ TransitionWrite(c)
  \/ CertifyRead(c) \/ CertifyCreate(c) \/ CertifyWrite(c)
  \/ \E x \in Cert : RevokeRead(c, x)
  \/ RevokeDelete(c) \/ RevokeCount(c) \/ RevokeDemote(c)
  \/ \E t \in Tenant : InstallRead(c, t)
  \/ InstallFind(c) \/ InstallCreate(c)

Next ==
  \/ \E i \in Import : ImportStep(i) \/ Fail(i) \/ \E l \in Late : StageTimeout(i, l)
  \/ \E l \in Late : PipelineStep(l) \/ Fail(l)
  \/ \E c \in Call : CallStep(c)
  \/ \E t \in Tenant : Uninstall(t)

Spec == Init /\ [][Next]_vars

\* The worker goes on; nothing is assumed of the API's clients.
FairSpec == Spec /\ \A i \in Import : WF_vars(ImportStep(i))

-----------------------------------------------------------------------------
\* Properties

\* Whatever is retried, times out or goes on late, one thread of one import at
\* most works on the version, and only the one that created it: the unique
\* keys that normalize runs into make every other attempt fail.
Drivers == {i \in Thread : ipc[i] \in AfterNormalize}

OneDriver == \A a, b \in Drivers : a = b

\* An import that completed left a published, signed and certified version,
\* when no administrator intervened.
CompletedIsPublished ==
  Call = {} => \A i \in Import : ipc[i] = "completed" =>
    status = "PUBLISHED" /\ checksum /\ certs # {}

\* A version that is BLOCKED while no import drives it and no API call is under
\* way stays BLOCKED, and is not installed where nobody had installed it: no call
\* that begins now, no redelivered import and no stage still at normalize undoes
\* it (TRANSITIONS, the checks of certify, revoke and install, and the unique keys).
Settled == status = "BLOCKED" /\ Drivers = {} /\ \A c \in Call : cpc[c] = "idle"

BlockStands ==
  /\ [](Settled => [](status = "BLOCKED"))
  /\ [](Settled /\ installs = {} => [](installs = {}))

\* Alone, the pipeline with its retries and late stages, or the API's calls
\* one at a time, move the version along the table of transitions.
Lifecycle == INSTANCE PackStates WITH status <- status
FollowsLifecycle == Lifecycle!Spec

\* Every import job ends: it completes or uses up its attempts.
ImportsEnd == \A i \in Import : ipc[i] = "queued" ~> ipc[i] \in {"completed", "failed"}

-----------------------------------------------------------------------------
\* What the code says of itself and the model refutes

\* TRANSITIONS: "BLOCKED: []".
BlockedIsFinal == [][status = "BLOCKED" => status' = "BLOCKED"]_vars

=============================================================================
