---------------------------- MODULE ModalBackend ----------------------------
(***************************************************************************)
(* The backend adapter (src/agent_sandbox/backend/modal_backend.py) of     *)
(* every session object, and the Modal service behind it.                  *)
(*                                                                         *)
(* A backend remembers a sandbox id and, while it is attached, a live SDK  *)
(* handle.  Everything else is remote: each action below is one Modal call *)
(* (or a group of calls with a single observable effect) made on behalf of *)
(* session s.  A call returns or raises, and a call that raises may or may *)
(* not have taken effect remotely: this covers modal.Error, a lost reply   *)
(* and, in the async variant, a task cancelled at the await.               *)
(***************************************************************************)
CONSTANTS
  Sessions,    \* session objects, each owning one backend
  Sandboxes,   \* remote sandboxes Modal can hand out
  NoSandbox    \* _sandbox_id is None

ASSUME NoSandboxAssumption == NoSandbox \notin Sandboxes

VARIABLES
  sandboxId,   \* sandboxId[s]: ModalBackend._sandbox_id of session s
  attached,    \* attached[s]: ModalBackend._sandbox is not None
  remote,      \* remote[b]: what Modal knows of sandbox b
  prepared     \* the sandboxes on which set_tags was carried out and mkdir -p succeeded

backendVars == <<sandboxId, attached, remote, prepared>>

RemoteStates == {"absent", "running", "expired", "terminated"}

BackendTypeOK ==
  /\ sandboxId \in [Sessions -> Sandboxes \cup {NoSandbox}]
  /\ attached \in [Sessions -> BOOLEAN]
  /\ remote \in [Sandboxes -> RemoteStates]
  /\ prepared \subseteq Sandboxes

(***************************************************************************)
(* A session object is built for a fresh sandbox or for an existing one    *)
(* (SandboxSession.attach); nothing is attached before the first call.     *)
(***************************************************************************)
BackendInit ==
  /\ sandboxId \in [Sessions -> Sandboxes \cup {NoSandbox}]
  /\ attached = [s \in Sessions |-> FALSE]
  /\ remote = [b \in Sandboxes |->
                 IF \E s \in Sessions : sandboxId[s] = b THEN "running" ELSE "absent"]
  /\ prepared = {}

-----------------------------------------------------------------------------
(* Modal's side. *)

\* Modal makes a new sandbox.
Create(b) ==
  /\ remote[b] = "absent"
  /\ remote' = [remote EXCEPT ![b] = "running"]

\* The remote end of a terminate request: a sandbox already gone stays as it is.
Kill(b) ==
  remote' = [remote EXCEPT ![b] = IF @ = "running" THEN "terminated" ELSE @]

\* Modal ends a sandbox at its timeout_seconds or idle_timeout_seconds.
Expire(b) ==
  /\ remote[b] = "running"
  /\ remote' = [remote EXCEPT ![b] = "expired"]
  /\ UNCHANGED <<sandboxId, attached, prepared>>

-----------------------------------------------------------------------------
(* ModalBackend.start / astart *)

\* start() finds a cached handle and makes no call.
Cached(s) == attached[s] /\ sandboxId[s] # NoSandbox

\* from_id or create, then hydrate: from here on the handle and id are cached.
HydrateReturns(s) ==
  /\ \/ sandboxId[s] # NoSandbox /\ UNCHANGED <<sandboxId, remote>>
     \/ /\ sandboxId[s] = NoSandbox
        /\ \E b \in Sandboxes :
             /\ Create(b)
             /\ sandboxId' = [sandboxId EXCEPT ![s] = b]
  /\ attached' = [attached EXCEPT ![s] = TRUE]
  /\ UNCHANGED prepared

\* One of those calls raises.  A sandbox that was created is then known to nobody.
HydrateRaises(s) ==
  /\ \/ UNCHANGED remote
     \/ sandboxId[s] = NoSandbox /\ \E b \in Sandboxes : Create(b)
  /\ UNCHANGED <<sandboxId, attached, prepared>>

\* set_tags and _ensure_workspace come after the handle is cached: when one of
\* them raises, the handle stays.  An exec needs a running sandbox to return.  A mkdir
\* that fails or runs into its timeout does not raise: its result is not looked at.
PrepareReturns(s) ==
  /\ remote[sandboxId[s]] = "running"
  /\ prepared' \in {prepared, prepared \cup {sandboxId[s]}}
  /\ UNCHANGED <<sandboxId, attached, remote>>

PrepareRaises(s) ==
  /\ prepared' \in {prepared, prepared \cup {sandboxId[s]}}
  /\ UNCHANGED <<sandboxId, attached, remote>>

-----------------------------------------------------------------------------
(* ModalBackend.run / read_text / download_file: no state of the backend     *)
(* changes; the sandbox must be running for the call to return.              *)

CallReturns(s) == remote[sandboxId[s]] = "running" /\ UNCHANGED backendVars
CallRaises(s) == UNCHANGED backendVars

-----------------------------------------------------------------------------
(* ModalBackend.terminate: the handle and id are kept, whatever happens. *)

\* Mutant: terminate() returns without asking Modal.
TerminateSkipped(s) == UNCHANGED backendVars

TerminateReturns(s) ==
  /\ Kill(sandboxId[s])
  /\ UNCHANGED <<sandboxId, attached, prepared>>

TerminateRaises(s) ==
  /\ Kill(sandboxId[s]) \/ UNCHANGED remote
  /\ UNCHANGED <<sandboxId, attached, prepared>>

(* ModalBackend.detach: the handle is dropped in a finally, so on both paths. *)
DropHandle(s) ==
  /\ attached' = [attached EXCEPT ![s] = FALSE]
  /\ UNCHANGED <<sandboxId, remote, prepared>>
=============================================================================
