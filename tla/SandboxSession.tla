--------------------------- MODULE SandboxSession ---------------------------
(***************************************************************************)
(* SandboxSession and AsyncSandboxSession (src/agent_sandbox/session.py).  *)
(*                                                                         *)
(* Threads (or asyncio tasks) call the operations of shared session        *)
(* objects.  Every operation takes the session's lock, may start the       *)
(* sandbox, makes its backend calls one after the other and returns or     *)
(* raises.  A step of this module ends where the code makes its next       *)
(* backend call, so that whatever may happen during that call can: another *)
(* thread's step, the sandbox reaching its timeout, a call that raises     *)
(* after taking effect, a cancelled task.                                  *)
(*                                                                         *)
(* The two classes differ in the lock only: start() is called under a      *)
(* reentrant RLock in one, _start_locked() under an asyncio.Lock in the    *)
(* other; a task waiting for the asyncio.Lock can be cancelled.            *)
(***************************************************************************)
EXTENDS Naturals, ModalBackend

CONSTANTS
  Threads,           \* threads or asyncio tasks
  NoThread,          \* the lock is free
  Async,             \* TRUE for AsyncSandboxSession
  CaptureArtifacts,  \* config.capture_artifacts
  InitialSequence,   \* initial_run_sequence given to the constructor
  MaxRuns            \* bound: no run is begun after this many run ids are drawn

ASSUME NoThreadAssumption == NoThread \notin Threads
ASSUME FlagAssumption == Async \in BOOLEAN /\ CaptureArtifacts \in BOOLEAN
ASSUME CountAssumption == InitialSequence \in Nat /\ MaxRuns \in Nat

VARIABLES
  \* the fields of session object s
  status,     \* _status
  closed,     \* _closed
  detached,   \* _detached
  runCount,   \* _run_count
  lastRun,    \* _last_run_id, 0 for None
  lock,       \* the thread that holds _lock
  \* the call thread t is making, or made last
  pc,         \* where it stands: the next thing it does
  op,         \* the method
  on,         \* the session object
  seq,        \* sequence_number, a local of run_python and run_shell
  runId,      \* run_id, a local of theirs
  out,        \* how it ended; during close, whether an exception is pending
  \* uuid4: run ids are distinct, numbered here in the order they are drawn
  nextRun

objectVars == <<status, closed, detached, runCount, lastRun>>
callVars == <<op, on, seq, runId>>
vars == <<backendVars, objectVars, lock, pc, callVars, out, nextRun>>

Statuses == {"created", "active", "detached", "terminated"}

\* run stands for run_python and run_shell, artifact for read_artifact_text
\* and download_artifact.
Operations == {"start", "run", "artifact", "detach", "close"}

\* The places from which a thread holds the lock of its session.
Critical == {"start", "prepare", "before", "exec", "after", "record",
             "fetch", "detach", "terminate", "finally"}

SessionTypeOK ==
  /\ BackendTypeOK
  /\ status \in [Sessions -> Statuses]
  /\ closed \in [Sessions -> BOOLEAN]
  /\ detached \in [Sessions -> BOOLEAN]
  /\ runCount \in [Sessions -> Nat]
  /\ lastRun \in [Sessions -> Nat]
  /\ lock \in [Sessions -> Threads \cup {NoThread}]
  /\ pc \in [Threads -> {"idle", "lock"} \cup Critical]
  /\ op \in [Threads -> Operations \cup {"none"}]
  /\ on \in [Threads -> Sessions]
  /\ seq \in [Threads -> Nat]
  /\ runId \in [Threads -> Nat]
  /\ out \in [Threads -> {"none", "ok", "raised"}]
  /\ nextRun \in Nat \ {0}

Init ==
  /\ BackendInit
  /\ status = [s \in Sessions |-> "created"]
  /\ closed = [s \in Sessions |-> FALSE]
  /\ detached = [s \in Sessions |-> FALSE]
  /\ runCount = [s \in Sessions |-> InitialSequence]
  /\ lastRun = [s \in Sessions |-> 0]
  /\ lock = [s \in Sessions |-> NoThread]
  /\ pc = [t \in Threads |-> "idle"]
  /\ op = [t \in Threads |-> "none"]
  /\ on \in [Threads -> Sessions]
  /\ seq = [t \in Threads |-> 0]
  /\ runId = [t \in Threads |-> 0]
  /\ out = [t \in Threads |-> "none"]
  /\ nextRun = 1

-----------------------------------------------------------------------------
(* Control flow shared by the operations. *)

Goto(t, label) == pc' = [pc EXCEPT ![t] = label]

\* The thread stays inside its operation.
Continue(t, label) == Goto(t, label) /\ UNCHANGED <<lock, out>>

\* The method's locals go with its frame.
EndCall(t, outcome) ==
  /\ Goto(t, "idle")
  /\ op' = [op EXCEPT ![t] = "none"]
  /\ seq' = [seq EXCEPT ![t] = 0]
  /\ runId' = [runId EXCEPT ![t] = 0]
  /\ out' = [out EXCEPT ![t] = outcome]
  /\ UNCHANGED on

\* The method returns or raises: `with self._lock` releases the lock.
Leave(t, outcome) ==
  /\ lock' = [lock EXCEPT ![on[t]] = NoThread]
  /\ EndCall(t, outcome)

\* Mutant: close has no finally.
FailAtOnce(t) ==
  /\ Leave(t, "raised")
  /\ UNCHANGED <<objectVars, nextRun>>

\* A backend call raised: out of every method, but inside close to its finally.
Fail(t) ==
  /\ IF op[t] = "close"
       THEN /\ Goto(t, "finally")
            /\ out' = [out EXCEPT ![t] = "raised"]
            /\ UNCHANGED <<lock, callVars>>
       ELSE Leave(t, "raised")
  /\ UNCHANGED <<objectVars, nextRun>>

\* Mutant: _ensure_usable forgets the detached flag.
UsableUnlessClosed(s) == ~closed[s]

Usable(s) == ~closed[s] /\ ~detached[s]

-----------------------------------------------------------------------------
(* Calling a method and taking the lock. *)

Begin(t, s, o) ==
  /\ pc[t] = "idle"
  /\ o = "run" => nextRun <= MaxRuns
  /\ Goto(t, "lock")
  /\ op' = [op EXCEPT ![t] = o]
  /\ on' = [on EXCEPT ![t] = s]
  /\ out' = [out EXCEPT ![t] = "none"]
  /\ UNCHANGED <<backendVars, objectVars, lock, seq, runId, nextRun>>

\* A task is cancelled while it waits for the asyncio.Lock.
CancelWaiting(t) ==
  /\ Async
  /\ pc[t] = "lock"
  /\ EndCall(t, "raised")
  /\ UNCHANGED <<backendVars, objectVars, lock, nextRun>>

\* Mutant: there is no lock.
CanAlwaysEnter(t) == pc[t] = "lock"

CanEnter(t) == pc[t] = "lock" /\ lock[on[t]] = NoThread

\* Mutant: the lock is waited for, not taken.
AcquireNothing(t, label) ==
  /\ Goto(t, label)
  /\ UNCHANGED <<backendVars, objectVars, lock, callVars, out, nextRun>>

Acquire(t, label) ==
  /\ lock' = [lock EXCEPT ![on[t]] = t]
  /\ Goto(t, label)
  /\ UNCHANGED <<backendVars, objectVars, callVars, out, nextRun>>

\* _ensure_usable raises SessionClosedError or SessionDetachedError.
EnterRejected(t) ==
  /\ CanEnter(t)
  /\ op[t] # "close" /\ ~Usable(on[t])
  /\ EndCall(t, "raised")
  /\ UNCHANGED <<backendVars, objectVars, lock, nextRun>>

\* Mutant: the artifact methods never call start().
EnterUsableUnstarted(t) ==
  /\ CanEnter(t)
  /\ op[t] # "close" /\ Usable(on[t])
  /\ Acquire(t, IF op[t] = "artifact" THEN "fetch" ELSE "start")

\* The artifact methods call start() only when the backend is not started.
EnterUsable(t) ==
  /\ CanEnter(t)
  /\ op[t] # "close" /\ Usable(on[t])
  /\ Acquire(t, IF op[t] = "artifact" /\ attached[on[t]] THEN "fetch" ELSE "start")

\* close() of a closed session, or of one with no remote sandbox of its own to end.
EnterCloseLocal(t) ==
  /\ CanEnter(t)
  /\ op[t] = "close"
  /\ closed[on[t]] \/ detached[on[t]] \/ sandboxId[on[t]] = NoSandbox
  /\ closed' = [closed EXCEPT ![on[t]] = TRUE]
  /\ EndCall(t, "ok")
  /\ UNCHANGED <<backendVars, status, detached, runCount, lastRun, lock, nextRun>>

\* Mutant: close() does not look at the detached flag.
EnterCloseDetached(t) ==
  /\ CanEnter(t)
  /\ op[t] = "close" /\ ~closed[on[t]]
  /\ sandboxId[on[t]] # NoSandbox
  /\ Acquire(t, IF attached[on[t]] THEN "terminate" ELSE "start")

EnterClose(t) ==
  /\ CanEnter(t)
  /\ op[t] = "close" /\ Usable(on[t])
  /\ sandboxId[on[t]] # NoSandbox
  /\ Acquire(t, IF attached[on[t]] THEN "terminate" ELSE "start")

-----------------------------------------------------------------------------
(* start(): the backend's start, then what the calling method does next.    *)

\* session.start() sets ACTIVE; close() calls the backend's start directly.
Activate(s) ==
  /\ status' = [status EXCEPT ![s] = "active"]
  /\ UNCHANGED <<closed, detached, lastRun>>

\* _next_sequence_number and uuid4.
NumberRun(t) ==
  /\ runCount' = [runCount EXCEPT ![on[t]] = @ + 1]
  /\ seq' = [seq EXCEPT ![t] = runCount'[on[t]]]
  /\ runId' = [runId EXCEPT ![t] = nextRun]
  /\ nextRun' = nextRun + 1
  /\ UNCHANGED <<op, on>>

Started(t) ==
  \/ /\ op[t] = "start"
     /\ Activate(on[t])
     /\ Leave(t, "ok")
     /\ UNCHANGED <<runCount, nextRun>>
  \/ /\ op[t] = "run"
     /\ Activate(on[t])
     /\ NumberRun(t)
     /\ Continue(t, IF CaptureArtifacts THEN "before" ELSE "exec")
  \/ /\ op[t] \in {"artifact", "detach"}
     /\ Activate(on[t])
     /\ Continue(t, IF op[t] = "artifact" THEN "fetch" ELSE "detach")
     /\ UNCHANGED <<runCount, callVars, nextRun>>
  \/ /\ op[t] = "close"
     /\ Continue(t, "terminate")
     /\ UNCHANGED <<objectVars, callVars, nextRun>>

\* Mutant: the runs call the public start() under the non-reentrant asyncio.Lock.
StartCachedLocking(t) ==
  /\ pc[t] = "start" /\ Cached(on[t])
  /\ op[t] = "run" => lock[on[t]] = NoThread
  /\ Started(t)
  /\ UNCHANGED backendVars

StartCached(t) ==
  /\ pc[t] = "start" /\ Cached(on[t])
  /\ Started(t)
  /\ UNCHANGED backendVars

Hydrate(t) ==
  /\ pc[t] = "start" /\ ~Cached(on[t])
  /\ HydrateReturns(on[t])
  /\ Continue(t, "prepare")
  /\ UNCHANGED <<objectVars, callVars, nextRun>>

HydrateFails(t) ==
  /\ pc[t] = "start" /\ ~Cached(on[t])
  /\ HydrateRaises(on[t])
  /\ Fail(t)

Prepare(t) ==
  /\ pc[t] = "prepare"
  /\ PrepareReturns(on[t])
  /\ Started(t)

PrepareFails(t) ==
  /\ pc[t] = "prepare"
  /\ PrepareRaises(on[t])
  /\ Fail(t)

-----------------------------------------------------------------------------
(* run_python, run_shell, read_artifact_text and download_artifact.          *)

\* A manifest that timed out, failed or cannot be parsed counts as empty.
CaptureBefore(t) ==
  /\ pc[t] = "before"
  /\ CallReturns(on[t])
  /\ Continue(t, "exec")
  /\ UNCHANGED <<objectVars, callVars, nextRun>>

Exec(t) ==
  /\ pc[t] = "exec"
  /\ CallReturns(on[t])
  /\ Continue(t, IF CaptureArtifacts THEN "after" ELSE "record")
  /\ UNCHANGED <<objectVars, callVars, nextRun>>

CaptureAfter(t) ==
  /\ pc[t] = "after"
  /\ CallReturns(on[t])
  /\ Continue(t, "record")
  /\ UNCHANGED <<objectVars, callVars, nextRun>>

\* The result is mapped and _record_run keeps its id.
Record(t) ==
  /\ pc[t] = "record"
  /\ lastRun' = [lastRun EXCEPT ![on[t]] = runId[t]]
  /\ Leave(t, "ok")
  /\ UNCHANGED <<backendVars, status, closed, detached, runCount, nextRun>>

\* _map_python_result raises ProtocolError instead.
RecordFails(t) ==
  /\ pc[t] = "record"
  /\ Fail(t)
  /\ UNCHANGED backendVars

Fetch(t) ==
  /\ pc[t] = "fetch"
  /\ CallReturns(on[t])
  /\ Leave(t, "ok")
  /\ UNCHANGED <<objectVars, nextRun>>

\* The path is rejected before the call, or a backend call raises.
CallFails(t) ==
  /\ pc[t] \in {"before", "exec", "after", "fetch"}
  /\ CallRaises(on[t])
  /\ Fail(t)

-----------------------------------------------------------------------------
(* detach() and close() *)

Detach(t) ==
  /\ pc[t] = "detach"
  /\ DropHandle(on[t])
  /\ detached' = [detached EXCEPT ![on[t]] = TRUE]
  /\ status' = [status EXCEPT ![on[t]] = "detached"]
  /\ Leave(t, "ok")
  /\ UNCHANGED <<closed, runCount, lastRun, nextRun>>

\* The backend's finally drops the handle also when the call raises.
DetachFails(t) ==
  /\ pc[t] = "detach"
  /\ DropHandle(on[t])
  /\ Fail(t)

Terminate(t) ==
  /\ pc[t] = "terminate"
  /\ TerminateReturns(on[t])
  /\ status' = [status EXCEPT ![on[t]] = "terminated"]
  /\ Continue(t, "finally")
  /\ UNCHANGED <<closed, detached, runCount, lastRun, callVars, nextRun>>

\* Mutant: the status is set before the terminate call.
TerminateFailsMarked(t) ==
  /\ pc[t] = "terminate"
  /\ TerminateRaises(on[t])
  /\ status' = [status EXCEPT ![on[t]] = "terminated"]
  /\ Goto(t, "finally")
  /\ out' = [out EXCEPT ![t] = "raised"]
  /\ UNCHANGED <<closed, detached, runCount, lastRun, lock, callVars, nextRun>>

TerminateFails(t) ==
  /\ pc[t] = "terminate"
  /\ TerminateRaises(on[t])
  /\ Fail(t)

\* Mutant: a return in the finally swallows the exception of terminate.
FinallySwallows(t) ==
  /\ pc[t] = "finally"
  /\ DropHandle(on[t])
  /\ closed' = [closed EXCEPT ![on[t]] = TRUE]
  /\ Leave(t, "ok")
  /\ UNCHANGED <<status, detached, runCount, lastRun, nextRun>>

\* close()'s finally: backend.detach, then _closed; a pending exception goes on.
Finally(t) ==
  /\ pc[t] = "finally"
  /\ DropHandle(on[t])
  /\ closed' = [closed EXCEPT ![on[t]] = TRUE]
  /\ Leave(t, IF out[t] = "raised" THEN "raised" ELSE "ok")
  /\ UNCHANGED <<status, detached, runCount, lastRun, nextRun>>

\* backend.detach raises: the handle is dropped, but _closed is never set.
FinallyFails(t) ==
  /\ pc[t] = "finally" /\ attached[on[t]]
  /\ DropHandle(on[t])
  /\ Leave(t, "raised")
  /\ UNCHANGED <<objectVars, nextRun>>

-----------------------------------------------------------------------------
Enter(t) == EnterRejected(t) \/ EnterUsable(t) \/ EnterCloseLocal(t) \/ EnterClose(t)

\* The steps of a thread that holds its session's lock.
Work(t) ==
  \/ StartCached(t) \/ Hydrate(t) \/ HydrateFails(t) \/ Prepare(t) \/ PrepareFails(t)
  \/ CaptureBefore(t) \/ Exec(t) \/ CaptureAfter(t) \/ Record(t) \/ RecordFails(t)
  \/ Fetch(t) \/ CallFails(t)
  \/ Detach(t) \/ DetachFails(t)
  \/ Terminate(t) \/ TerminateFails(t) \/ Finally(t) \/ FinallyFails(t)

SessionStep(t) == CancelWaiting(t) \/ Enter(t) \/ Work(t)

\* A sandbox reaches its timeout_seconds or idle_timeout_seconds.
SandboxExpires ==
  /\ \E b \in Sandboxes : Expire(b)
  /\ UNCHANGED <<objectVars, lock, pc, callVars, out, nextRun>>

Next ==
  \/ \E t \in Threads : \/ \E s \in Sessions, o \in Operations : Begin(t, s, o)
                        \/ SessionStep(t)
  \/ SandboxExpires

Spec == Init /\ [][Next]_vars

(***************************************************************************)
(* Every backend call ends, with a result or an exception: exec carries a  *)
(* timeout and so does each SDK request.  asyncio.Lock wakes its waiters   *)
(* in the order they came, so a waiting call gets the lock if it becomes   *)
(* free again and again.  Nothing makes a thread begin a call.             *)
(***************************************************************************)
FairSpec ==
  /\ Spec
  /\ \A t \in Threads : WF_vars(Work(t)) /\ SF_vars(Enter(t))
-----------------------------------------------------------------------------
(* Properties *)

\* Whatever other threads do between its calls, a method that sends a command
\* finds the handle start() left: backend.run never starts a second time and
\* _require_sandbox never raises "Sandbox has not been started."
CommandsHaveAttachment ==
  \A t \in Threads :
    pc[t] \in {"before", "exec", "after", "record", "fetch", "detach", "terminate"}
      => Cached(on[t])

\* A closed or detached session object keeps no live Modal handle, and nothing
\* called on it later gets one back.
ReleasedHoldsNothing ==
  \A s \in Sessions : closed[s] \/ detached[s] => ~attached[s]

\* While a run is in progress its sequence_number is the session's run_count:
\* no other run of the session is numbered before it is recorded.
RunHoldsLatestNumber ==
  \A t \in Threads :
    pc[t] \in {"before", "exec", "after", "record"} => seq[t] = runCount[on[t]]

\* TERMINATED is only ever said of a session whose sandbox Modal has ended.
TerminatedIsGone ==
  \A s \in Sessions :
    status[s] = "terminated"
      => sandboxId[s] # NoSandbox /\ remote[sandboxId[s]] # "running"

\* A detached session object is never activated again, by none of its methods and
\* in no order of calls: reuse takes a new object (SandboxSession.attach).  Nor is a
\* session ever detached, or "created" again, behind the back of an active one.
LifecycleForward ==
  [][\A s \in Sessions :
       status'[s] # status[s]
         => <<status[s], status'[s]>> \in {<<"created", "active">>,
              <<"created", "terminated">>, <<"active", "detached">>,
              <<"active", "terminated">>, <<"terminated", "active">>}]_vars

\* last_run_id moves only to a run begun later than the one it names: runs of a
\* session are recorded in the order of their sequence numbers.
LastRunAdvances ==
  [][\A s \in Sessions : lastRun'[s] # lastRun[s] => lastRun'[s] > lastRun[s]]_vars

\* detach() leaves the sandbox alive for later reuse: only a close() of a session
\* that is not detached ends a running sandbox, and only the session's own.
OnlyCloseTerminates ==
  [][\A b \in Sandboxes :
       remote[b] = "running" /\ remote'[b] = "terminated"
         => \E t \in Threads : /\ op[t] = "close" /\ lock[on[t]] = t
                               /\ sandboxId[on[t]] = b /\ Usable(on[t])]_vars

\* A close() that got the lock ends with no handle held, whichever of its backend
\* calls raised.
CloseReleases ==
  [][\A t \in Threads :
       op[t] = "close" /\ lock[on[t]] = t /\ lock'[on[t]] # t
         => ~attached'[on[t]]]_vars

\* A close() that took the lock returns only if the session's sandbox no longer runs: one
\* that could not end it says so by raising, whatever the finally does after the failed
\* call.  (Calls that found nothing to end return at once: a second close() after one that
\* raised, too.)
CloseEndsSandbox ==
  [][\A t \in Threads :
       op[t] = "close" /\ lock[on[t]] = t /\ lock'[on[t]] # t /\ out'[t] = "ok"
         => sandboxId[on[t]] # NoSandbox /\ remote'[sandboxId[on[t]]] # "running"]_vars

\* Every call, on a session shared with others, returns or raises.
EveryCallReturns ==
  \A t \in Threads : pc[t] = "lock" ~> pc[t] = "idle"

-----------------------------------------------------------------------------
(* The inductive invariant behind the properties: what the lock protects.    *)

RunPhases == {"before", "exec", "after", "record"}

\* A thread inside a method holds its session's lock.
LockHeld == \A t \in Threads : pc[t] \in Critical => lock[on[t]] = t

\* A handle comes with its id, and an id with a sandbox Modal has made.
HandleHasId ==
  \A s \in Sessions :
    /\ attached[s] => sandboxId[s] # NoSandbox
    /\ sandboxId[s] # NoSandbox => remote[sandboxId[s]] # "absent"

DetachedStatus == \A s \in Sessions : status[s] = "detached" <=> detached[s]

\* What holds at each place of a method, whoever else is at work.
CallPlace ==
  \A t \in Threads :
    /\ pc[t] \in Critical => Usable(on[t])
    /\ pc[t] = "prepare" => Cached(on[t])
    /\ pc[t] \in RunPhases => op[t] = "run"
    /\ pc[t] = "fetch" => op[t] = "artifact"
    /\ pc[t] = "detach" => op[t] = "detach" /\ status[on[t]] = "active"
    /\ pc[t] \in {"terminate", "finally"} => op[t] = "close"

\* Run ids are drawn before they are recorded.
NumbersInOrder ==
  /\ \A s \in Sessions : lastRun[s] < nextRun
  /\ \A t \in Threads :
       pc[t] \in RunPhases => lastRun[on[t]] < runId[t] /\ runId[t] < nextRun

\* A close() without a pending exception comes to its finally from terminate.
CloseOutcome ==
  \A t \in Threads :
    pc[t] = "finally" => out[t] = "raised" \/ status[on[t]] = "terminated"

ControlInv == LockHeld /\ CallPlace /\ CloseOutcome

HandleInv ==
  /\ HandleHasId
  /\ DetachedStatus
  /\ CommandsHaveAttachment
  /\ ReleasedHoldsNothing
  /\ TerminatedIsGone

NumberInv == NumbersInOrder /\ RunHoldsLatestNumber

\* Nothing an operation relies on is changed by the other threads, in any reachable
\* state: the strengthening of the invariants above that every step preserves.
IInv == SessionTypeOK /\ ControlInv /\ HandleInv /\ NumberInv

-----------------------------------------------------------------------------
(* What the repository says of the program, and the program does not do. *)

\* The ModalBackend docstring: the backend owns "creating or hydrating a sandbox,
\* ensuring the working directory exists".
CommandsHaveWorkspace ==
  \A t \in Threads :
    pc[t] \in {"before", "exec", "after"} => sandboxId[on[t]] \in prepared

\* The _capture_manifest_best_effort docstring: "Capture the current artifact
\* manifest without failing the main run."
ManifestNeverFailsRun ==
  [][\A t \in Threads :
       pc[t] \in {"before", "after"} => out'[t] # "raised"]_vars
=============================================================================
