-------------------------- MODULE OperatorSurface --------------------------
(***************************************************************************)
(* What operators see of SandboxManager: the agent-sandbox command (cli.py)*)
(* and the HTTP service (server/app.py), with the exceptions of            *)
(* exceptions.py turned into exit codes and statuses.                      *)
(*                                                                         *)
(* A process of SandboxManager is here a succession of CLI commands or of  *)
(* requests to the service, one at a time.  The manager's steps are taken  *)
(* as they are; this module says which exception each of them raises, what *)
(* is refused before the manager is called, and how the operator is        *)
(* answered.                                                               *)
(***************************************************************************)
EXTENDS SandboxManager, Sequences

CONSTANTS
  Surface,      \* Surface[p]: "cli" or "http"
  Environments  \* what processes may find installed and configured

ASSUME SurfaceAssumption == Surface \in [Threads -> {"cli", "http"}]
ASSUME EnvironmentAssumption ==
  Environments \subseteq [modal : {"missing", "broken", "imports"}, token : BOOLEAN,
                          profile : BOOLEAN]

VARIABLES
  environment,  \* environment[p]: where process p runs
  err,          \* the exception going through the request of p
  effects,      \* what the request of p has changed so far
  answer        \* the answer given in the last step

surfaceVars == <<environment, err, effects, answer>>
svars == <<mvars, surfaceVars>>

-----------------------------------------------------------------------------
(* exceptions.py *)

\* The classes that may reach an operator: the manager builds a session for each operation,
\* which is never closed or detached when it is used.
Parent ==
  [ConfigurationError |-> "AgentSandboxError", ModalConfigurationError |-> "ConfigurationError",
   SessionError |-> "AgentSandboxError",
   BackendError |-> "AgentSandboxError", SandboxStartupError |-> "BackendError",
   ExecutionError |-> "AgentSandboxError", ProtocolError |-> "ExecutionError",
   ArtifactError |-> "AgentSandboxError", ArtifactNotFoundError |-> "ArtifactError",
   StateStoreError |-> "AgentSandboxError", SessionNotFoundError |-> "StateStoreError",
   RunNotFoundError |-> "StateStoreError",
   AgentSandboxError |-> "Exception", ValidationError |-> "Exception"]

Classes == DOMAIN Parent \cup {"Exception"}

\* The class, its base class, and so on.
Mro[c \in Classes] == IF c = "Exception" THEN <<c>> ELSE <<c>> \o Mro[Parent[c]]

IsA(c, bases) == \E i \in DOMAIN Mro[c] : Mro[c][i] \in bases

-----------------------------------------------------------------------------
(* cli.py: exit codes *)

OK == 0
RUN_FAILED == 10
NOT_FOUND == 11
CONFIG == 12
MODAL == 13
BACKEND == 14
INTERNAL == 15
LIFECYCLE == 16

\* Mutant: the base class is caught before the class.
ClausesBaseFirst == <<
  [catches |-> {"ValidationError", "ConfigurationError"}, code |-> CONFIG],
  [catches |-> {"ModalConfigurationError"}, code |-> MODAL],
  [catches |-> {"SessionNotFoundError", "RunNotFoundError", "ArtifactNotFoundError"},
   code |-> NOT_FOUND],
  [catches |-> {"BackendError"}, code |-> BACKEND],
  [catches |-> {"SessionError"}, code |-> LIFECYCLE],
  [catches |-> {"Exception"}, code |-> INTERNAL] >>

\* The except clauses of main, in their order.
Clauses == <<
  [catches |-> {"ModalConfigurationError"}, code |-> MODAL],
  [catches |-> {"ValidationError", "ConfigurationError"}, code |-> CONFIG],
  [catches |-> {"SessionNotFoundError", "RunNotFoundError", "ArtifactNotFoundError"},
   code |-> NOT_FOUND],
  [catches |-> {"BackendError"}, code |-> BACKEND],
  [catches |-> {"SessionError"}, code |-> LIFECYCLE],
  [catches |-> {"AgentSandboxError"}, code |-> INTERNAL],
  [catches |-> {"Exception"}, code |-> INTERNAL] >>

\* The first clause that matches is taken.
ExitCode(c) ==
  LET i == CHOOSE i \in DOMAIN Clauses :
             /\ IsA(c, Clauses[i].catches)
             /\ \A j \in 1 .. i - 1 : ~IsA(c, Clauses[j].catches)
  IN Clauses[i].code

-----------------------------------------------------------------------------
(* server/app.py: statuses *)

Handlers ==
  [SessionNotFoundError |-> 404, RunNotFoundError |-> 404, ArtifactNotFoundError |-> 404,
   ConfigurationError |-> 400, ModalConfigurationError |-> 503, SessionError |-> 409,
   BackendError |-> 502, AgentSandboxError |-> 500,
   \* of FastAPI and Starlette: a body that does not validate, anything unhandled
   ValidationError |-> 422, Exception |-> 500]

\* The handler of the nearest class is called, in whatever order they are registered.
Status(c) ==
  LET i == CHOOSE i \in DOMAIN Mro[c] :
             /\ Mro[c][i] \in DOMAIN Handlers
             /\ \A j \in 1 .. i - 1 : Mro[c][j] \notin DOMAIN Handlers
  IN Handlers[Mro[c][i]]

ErrorAnswer(p, c) == IF Surface[p] = "cli" THEN ExitCode(c) ELSE Status(c)

\* A run of any status is a 200; the CLI tells a failed one by its exit code.
OkAnswers(p, o) ==
  CASE Surface[p] = "http" -> {200}
    [] Surface[p] # "http" /\ o = "run" -> {OK, RUN_FAILED}
    [] OTHER -> {OK}

-----------------------------------------------------------------------------
(* diagnostics.py *)

ModalInstalled(e) == e.modal # "missing"

AuthConfigured(e) == e.token \/ e.profile

\* validate_modal_environment: a modal package whose import breaks is "installed".
Ready(p) == ModalInstalled(environment[p]) /\ AuthConfigured(environment[p])

\* What it takes for a call to Modal to succeed.
Reachable(p) == environment[p].modal = "imports" /\ AuthConfigured(environment[p])

-----------------------------------------------------------------------------
(* The exceptions of the manager's steps. *)

\* _import_modal raises its own BackendError, and passes on any other exception.
StartRaises(p) ==
  CASE environment[p].modal = "missing" -> {"BackendError"}
    [] environment[p].modal = "broken" -> {"Exception"}
    [] OTHER -> {"SandboxStartupError", "Exception"}

\* By where the session's method stands: start, set_tags or mkdir, the mapping of the
\* result, the path of an artifact and its read_text or download_file; any other command,
\* terminate or detach.  Modal's errors are wrapped, other exceptions are passed on.  A
\* recorded path may be one that the session refuses as "not found", a blank name, say:
\* by then the sandbox is started.
CallRaisesClass(p) ==
  CASE pc[p] = "start" -> StartRaises(p)
    [] pc[p] = "prepare" -> {"SandboxStartupError", "BackendError", "Exception"}
    [] pc[p] = "record" -> {"ProtocolError"}
    [] pc[p] = "fetch" -> {"ArtifactNotFoundError", "ArtifactError", "Exception"}
    [] OTHER -> {"BackendError", "Exception"}

\* _ensure_attachable, get_session and _resolve_artifact.
RefusalClasses(p) ==
  (IF mop[p] = "artifact" THEN {"ArtifactNotFoundError"} ELSE {})
    \cup (CASE sess[key[p]] = NoRecord -> {"SessionNotFoundError"}
            [] Attachable(key[p]) -> {}
            [] OTHER -> {"SessionError"})

-----------------------------------------------------------------------------
Effects == {"sandbox", "record", "run"}

Answer(o, c, code, did) == [op |-> o, class |-> c, code |-> code, did |-> did]
NoAnswer == Answer("none", "none", OK, {})

SurfaceTypeOK ==
  /\ ManagerTypeOK
  /\ environment \in [Threads -> Environments]
  /\ err \in [Threads -> Classes \cup {"none"}]
  /\ effects \in [Threads -> SUBSET Effects]
  /\ answer \in [op : ManagerOps \cup {"none"}, class : Classes \cup {"none"},
                 code : {OK, RUN_FAILED, NOT_FOUND, BACKEND, INTERNAL, LIFECYCLE,
                         200, 404, 409, 500, 502}, did : SUBSET Effects]

SurfaceInit ==
  /\ ManagerInit
  /\ environment \in [Threads -> Environments]
  /\ err = [p \in Threads |-> "none"]
  /\ effects = [p \in Threads |-> {}]
  /\ answer = NoAnswer

\* What a record tells of a session.  _finalize_session rewrites an open session's record
\* also when nothing of this is new: its status goes from "detached" to "active" and back,
\* and updated_at moves.
Account(r) ==
  <<CASE r.status = "none" -> "none" [] r.status = "terminated" -> "ended" [] OTHER -> "open",
    r.sandbox, r.count, r.last>>

Changed ==
  (IF remote' # remote THEN {"sandbox"} ELSE {})
    \cup (IF \E k \in Keys : Account(sess'[k]) # Account(sess[k]) THEN {"record"} ELSE {})
    \cup (IF runs' # runs THEN {"run"} ELSE {})

\* An operation is over: its result or the exception that came out of it is answered.
AnswerWith(p, c, did) ==
  /\ err' = [err EXCEPT ![p] = "none"]
  /\ effects' = [effects EXCEPT ![p] = {}]
  /\ IF mout'[p] = "ok"
       THEN \E code \in OkAnswers(p, mop[p]) : answer' = Answer(mop[p], "none", code, did)
       ELSE answer' = Answer(mop[p], c, ErrorAnswer(p, c), did)

\* The rest of a step of the manager in which one of these exceptions is raised, if any.
Reply(p, classes) ==
  /\ \E c \in IF classes = {} THEN {err[p]} ELSE classes :
       LET did == effects[p] \cup Changed IN
       IF mpc'[p] = "idle" THEN AnswerWith(p, c, did)
       ELSE /\ err' = [err EXCEPT ![p] = c]
            /\ effects' = [effects EXCEPT ![p] = did]
            /\ answer' = NoAnswer
  /\ UNCHANGED environment

-----------------------------------------------------------------------------
(* Requests. *)

Silent == UNCHANGED <<environment, err, effects>> /\ answer' = NoAnswer

\* _ensure_modal_ready comes first in the CLI's commands; the service has no such test.
CallManager(p) ==
  /\ Surface[p] = "cli" => Ready(p)
  /\ Ask(p)
  /\ Silent

\* What is raised before the manager takes a lock, and changes nothing: the readiness
\* test, the flags or the body of the request, the code file, get_run of an artifact
\* command, and the queries (session and run show and list, artifact list).
DoorClasses(p) ==
  {"SessionNotFoundError", "RunNotFoundError", "StateStoreError", "ValidationError",
   "Exception"}
    \cup (CASE Surface[p] = "http" -> {}
            [] Surface[p] # "http" /\ Ready(p) -> {"ConfigurationError"}
            [] OTHER -> {"ModalConfigurationError"})

-----------------------------------------------------------------------------
(* The manager's steps. *)

SessionFails(p) ==
  \/ HydrateFails(p) /\ (~Reachable(p) => remote' = remote)
  \/ PrepareFails(p) \/ RecordFails(p) \/ CallFails(p) \/ DetachFails(p)
  \/ TerminateFails(p) \/ FinallyFails(p)

SessionWorks(p) ==
  \/ Enter(p) \/ StartCached(p) \/ (Hydrate(p) /\ Reachable(p)) \/ Prepare(p)
  \/ CaptureBefore(p) \/ Exec(p) \/ CaptureAfter(p) \/ Record(p) \/ Fetch(p)
  \/ Detach(p) \/ Terminate(p) \/ Finally(p)

Driving(p) == mpc[p] \in {"starting", "detaching", "calling", "releasing"}

\* Mutant: a failure to detach is passed on as it is.
OperateUnwrapped(p) ==
  \/ Driving(p) /\ SessionFails(p) /\ UNCHANGED managerVars /\ Reply(p, CallRaisesClass(p))
  \/ Driving(p) /\ SessionWorks(p) /\ UNCHANGED managerVars /\ Reply(p, {})
  \/ (DetachNew(p) \/ NotStored(p) \/ ReadyToSave(p) \/ Save(p)) /\ Reply(p, {})
  \/ (RunReturned(p) \/ SaveRun(p) \/ CallEnded(p)) /\ Reply(p, {})
  \/ (FinalizeInactive(p) \/ FinalizeActive(p) \/ ReleaseFails(p)) /\ Reply(p, {})

\* Operate, with the exceptions.
SurfaceOperate(p) ==
  \/ Driving(p) /\ SessionFails(p) /\ UNCHANGED managerVars /\ Reply(p, CallRaisesClass(p))
  \/ Driving(p) /\ SessionWorks(p) /\ UNCHANGED managerVars /\ Reply(p, {})
  \/ (DetachNew(p) \/ NotStored(p) \/ ReadyToSave(p) \/ Save(p)) /\ Reply(p, {})
  \/ (RunReturned(p) \/ SaveRun(p) \/ CallEnded(p)) /\ Reply(p, {})
  \/ (FinalizeInactive(p) \/ FinalizeActive(p)) /\ Reply(p, {})
  \/ ReleaseFails(p) /\ Reply(p, {"SessionError"})

SurfaceEnter(p) ==
  \/ (EnterNew(p) \/ EnterStored(p)) /\ Reply(p, {})
  \/ EnterRefused(p) /\ Reply(p, RefusalClasses(p))

\* Reads and writes raise StateStoreError; the lock file that cannot be opened and the
\* temporary file that cannot be removed, a plain OSError.
SurfaceStoreFails(p) == StoreFails(p) /\ Reply(p, {"StateStoreError", "Exception"})

\* A killed process answers nothing.
SurfaceCrash(p) ==
  /\ Crash(p)
  /\ err' = [err EXCEPT ![p] = "none"]
  /\ effects' = [effects EXCEPT ![p] = {}]
  /\ answer' = NoAnswer
  /\ UNCHANGED environment

SurfaceNext ==
  \/ \E p \in Threads : \/ CallManager(p) \/ SurfaceEnter(p) \/ SurfaceOperate(p)
                        \/ SurfaceStoreFails(p) \/ SurfaceCrash(p)
  \/ SandboxExpires /\ Silent /\ UNCHANGED managerVars

\* Backend calls end, as for FairSpec, and so do the writes of small files.  Requests,
\* faults and the grant of a file lock are not fair.
SurfaceSpec ==
  /\ SurfaceInit /\ [][SurfaceNext]_svars
  /\ \A p \in Threads : WF_svars(SurfaceOperate(p))

-----------------------------------------------------------------------------
(* Properties *)

\* The CLI and the service tell an operator the same of every exception that an
\* operation raises or a request is refused with: the order of the except clauses and
\* the nearest handler agree.
SurfacesAgree ==
  \A p \in Threads : \A c \in {err[p], answer.class} \cup DoorClasses(p) :
    c # "none"
      => <<ExitCode(c), Status(c)>> \in
           {<<NOT_FOUND, 404>>, <<CONFIG, 400>>, <<CONFIG, 422>>, <<MODAL, 503>>,
            <<BACKEND, 502>>, <<INTERNAL, 500>>, <<LIFECYCLE, 409>>}

\* After "not found" an operator can ask again: the operation has stored no run, started
\* or ended no sandbox, and no record tells anything else of a session than before.  A
\* recorded artifact that the session refuses is "not found" after the sandbox was attached
\* and the record saved, twice: it is the same record, with a later updated_at.
NotFoundChangedNothing == answer.code \in {NOT_FOUND, 404} => answer.did = {}

\* A good answer is only given when what was asked for is in the store: the record of
\* a started, attached or terminated session, the run and the record that counts it.
GoodMeansStored ==
  answer.code \in {OK, RUN_FAILED, 200}
    => CASE answer.op \in {"start", "attach", "terminate"} -> "record" \in answer.did
         [] answer.op = "run" -> {"run", "record"} \subseteq answer.did
         [] OTHER -> TRUE

\* "Backend failure" never hides a stored run: a run that is in the store although its
\* request failed is answered as a lifecycle or an internal error.
BackendFailureStoredNoRun == answer.code \in {BACKEND, 502} => "run" \notin answer.did

\* No record names sandbox b, and no process has it in hand.
Lost(b) ==
  /\ remote[b] = "running"
  /\ \A k \in Keys : sess[k].sandbox # b
  /\ \A p \in Threads : sandboxId[p] # b

\* The process that has made sandbox b fails in start(), or the one that has it in hand
\* ends its operation with an exception or is killed.
LosesWithNotice(p, b) ==
  \/ pc[p] = "start" /\ pc'[p] # "start" /\ err'[p] # "none"
  \/ sandboxId[p] = b /\ mpc[p] # "idle" /\ mpc'[p] = "idle" /\ mout'[p] # "ok"

\* A sandbox runs on without anyone who could terminate it only if the operator who asked
\* for it is told of a failure, or the process was killed: no request that succeeds loses
\* one.
LostSandboxIsAnnounced ==
  [][\A b \in Sandboxes :
       ~Lost(b) /\ Lost(b)' => \E p \in Threads : LosesWithNotice(p, b)]_svars

-----------------------------------------------------------------------------
(* The inductive invariant behind the properties. *)

\* The session object of an operation can be used until its last method has returned.
ObjectOf(p) ==
  /\ mpc[p] \in {"idle", "flock"} \/ pc[p] = "lock" => Usable(p)
  /\ mop[p] # "terminate" => ~closed[p]
  /\ mpc[p] = "idle" \/ (mpc[p] = "flock" /\ mop[p] # "attach") => sandboxId[p] = NoSandbox

\* The exceptions that leave a method of the session, or the store, before the end.
PassedOn ==
  {"BackendError", "SandboxStartupError", "ProtocolError", "ArtifactError",
   "ArtifactNotFoundError", "StateStoreError", "Exception"}

\* An operation that is going to fail has the exception that it will be answered with.
ExceptionOf(p) ==
  /\ err[p] \in PassedOn \cup {"none"}
  /\ mpc[p] \in {"idle", "flock"} => err[p] = "none"
  /\ Driving(p) => /\ out[p] = "raised" => err[p] # "none"
                   /\ pc[p] = "idle" => out[p] # "none"
  /\ mpc[p] \in {"finalize", "releasing", "save"} /\ mop[p] \in {"run", "artifact"}
       => mout[p] = "ok" \/ (mout[p] = "raised" /\ err[p] # "none")

\* A run that is over well is stored, and when the object is released, counted.
EffectsOf(p) ==
  LET ranWell == mop[p] = "run" /\ mout[p] = "ok" IN
  /\ mpc[p] \in {"idle", "flock"} => effects[p] = {}
  /\ "run" \in effects[p] <=> ranWell /\ mpc[p] \in {"finalize", "releasing", "save"}
  /\ ranWell /\ mpc[p] \in {"releasing", "save"} => "record" \in effects[p]

\* A request for an artifact changes nothing, and it alone may end as "not found" once
\* the session has been called.
ArtifactOf(p) ==
  /\ mop[p] = "artifact" => effects[p] = {}
  /\ err[p] = "ArtifactNotFoundError" => mop[p] = "artifact"

AnswerInv == NotFoundChangedNothing /\ GoodMeansStored /\ BackendFailureStoredNoRun

\* In every reachable state, whatever fails on the way and however often, what has become
\* of a request is known to the process that will answer it.
SurfaceInv ==
  /\ SurfaceTypeOK /\ ManagerInv /\ RunIdsInv
  /\ \A p \in Threads : ObjectOf(p) /\ ExceptionOf(p) /\ EffectsOf(p) /\ ArtifactOf(p)
  /\ AnswerInv
=============================================================================
