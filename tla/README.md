# Verification of agent-sandbox

TLA+ models, TLC runs and TLAPS proofs for the library in `src/agent_sandbox`:
Python sessions that run code in remote Modal sandboxes, the manager that keeps
such sessions in files, and the CLI and the HTTP service in front of it.

Every definition is translated from the code; `PROJECT.json` ("map") names the
lines each one stands for.

## 1. The system

| Part | State | Operations | Meets |
|---|---|---|---|
| `backend/modal_backend.py` | `_sandbox_id`, `_sandbox` (live handle) | start, run, read_text, download_file, terminate, detach, and async twins | Modal, by SDK calls that return, raise, or raise after taking effect |
| `session.py` | `_status`, `_closed`, `_detached`, `_run_count`, `_last_run_id`, `_lock` | start, run_python, run_shell, read_artifact_text, download_artifact, detach, close | owns one backend; shared by threads (RLock) or tasks (asyncio.Lock) |
| result mapping (`session.py` 150-421, `modal_backend.py` 28-85, 374-462) | none; two manifests and a command result per run | manifest, normalise, parse, map, diff | the process in the sandbox |
| artifact paths (`session.py`, `config.py` `working_dir`, `manager.py` lookup) | the artifacts recorded for a run | resolve, preview, download | user-given paths |
| `execution/python_runner.py` | the runner process: buffers, namespace | one request in, one JSON line out | stdin/stdout of the command; threads of the user's code |
| `manager.py` | none of its own | start, attach, run, artifact, terminate; list/get queries | builds a session per operation, under a file lock per session id |
| `state.py` | `sessions/*.json`, `runs/*.json`, temporary files, an RLock per process | save, get, list | CLI processes and server threads |
| `cli.py`, `server/app.py` | none | one manager call each | exit codes, HTTP statuses, payloads |
| `tool.py` | none | one session call each | an agent |
| `config.py`, `models.py`, `exceptions.py` | declarations | validation on construction | everywhere |
| `diagnostics.py`, `logging.py` | none | environment inspection | the environment |

What is hard in it:

* **Interleaving.** Threads share a session object; processes share a record and
  may share a sandbox under two session ids (attach); threads of user code share
  the runner's buffers.
* **Partial failure.** A start is create, hydrate, set_tags, mkdir; a run is
  manifest, command, manifest, mapping; a close is start, terminate, detach in a
  finally; a save is create, write, rename, unlink. Every one can raise between two
  effects, and a call that raises may have taken effect remotely. The operator
  learns of it by a number.
* **Things that happen by themselves.** A sandbox reaches its timeout while its
  handle is cached; a process is killed between two file operations; a task is
  cancelled while it waits.
* **Timeouts with many faces.** Modal ends a command by an exception, by -1, by a
  signal exit, or by no exit code, on a clock that is not the host's.
* **A shared stdout.** The runner's response travels on the same stream as
  whatever subprocesses and threads print.
* **Paths.** `..`, `//`, blanks and slashes at the ends, absolute and relative, under
  a working directory that may itself be odd.

## 2. Modules

```
ModalBackend <-- SandboxSession <-- SandboxManager <-- OperatorSurface
                    ^      ^             |    ^              ^
  SandboxSessionProofs     |             |  MCSandboxManager |
                  MCSandboxSession       |            MCOperatorSurface
                                         +- INSTANCE -> SessionLedger

SandboxSessionProofs <-- SandboxManagerProofs <-- OperatorSurfaceProofs

StateStore <-- StateStoreProofs, MCStateStore      RunnerOutput <-- RunnerOutputProofs
    +- INSTANCE -> AtomicStore                          ^
                                                   MCRunView --> ArtifactAccess
RunPipeline <-- RunPipelineProofs                                     ^
                                                           ArtifactAccessProofs
```

`M <-- N` is N EXTENDS M; each proof module extends the module of its name, and the proofs
about the manager cite those about the session, the proofs about the surfaces both.

**ModalBackend** - the adapter and Modal behind it. `sandboxId` and `attached`
are `_sandbox_id` and `_sandbox is not None`; `remote[b]` is what Modal knows of a
sandbox (absent, running, expired, terminated); `prepared` holds the sandboxes in
which `mkdir -p` did its work (the code goes on as if it had, whatever its exit code). It
has no Next: it provides, for
each group of SDK calls with one effect, a `...Returns` and a `...Raises` step
that the session's actions contain.

**SandboxSession** - both session classes. `pc[t]` says where thread `t` stands in
its call; a step runs from one backend call to the next, the points at which
other threads, Modal and failures can come in. `Enter*` take the lock and decide
like `_ensure_usable` and the first lines of `close`; `Started` is what each
method does once `start()` has returned; `Fail` is an exception leaving the method
(inside `close`: to its finally). `Async` chooses the class: the code paths are the
same except for the cancellation of a waiting task.

The RLock matters in one place only: `run_python` calls the public `start()` while
holding it. The async class calls `_start_locked` instead. Both are one step here;
the mutant `StartCachedLocking`, in which the nested call asks for the asyncio.Lock,
deadlocks, which is how the run `SessionLive` sees that the difference is needed.

**SandboxManager** - extends SandboxSession. Process `p` uses session object `p`,
rebuilt for every operation (`Build`) and dropped at its end (`Finish`). `flock[k]`
is the file lock, `sess[k]` and `runs` are the JSON files. `Drive` takes the steps of
SandboxSession as they are; the other actions are the manager's code before,
between and after session calls, one step per record written. `Crash` kills a process
anywhere, `StoreFails` makes a read or a write raise.

**SessionLedger** - the abstract specification of the manager: a stored session is
opened once, runs enter under numbers that only grow, and nothing enters after the
end. `SandboxManager!LedgerSpec` is its refinement: the phase is read off the status
in the record, the numbers off the run files.

**OperatorSurface** - extends SandboxManager by what an operator sees. A process is a
succession of CLI commands or of requests to the service (`Surface[p]`). Each step of
the manager is taken as it is; `Reply` adds which exception classes it may raise, and
when the operation is over turns the exception that comes out into `answer`: the exit
code of the first `except` clause of `main` that matches (`ExitCode`), or the status of
the nearest registered handler (`Status`). `effects[p]` remembers what the request has
changed. `environment[p]` says whether Modal can be imported and has credentials:
`CallManager` has the readiness test of the CLI, which the service lacks, and
`StartRaises` what happens when Modal is not there after all. What is refused before
the manager takes a lock changes nothing and is no step: its classes are `DoorClasses`.

**StateStore** - one operation on the file system per step: `_write_json` creates a
temporary file, writes, renames, and unlinks after a failure; the readers test for the
file, list the directory, open and parse. `entry[n]` is the file of a record, `temp[t]`
the temporary file of a save in progress, `litter` the names of those nobody comes back
to, `guard[p]` the RLock of a process. Every operation may raise, and `Kill` ends a
process with all its threads between any two.

**AtomicStore** - what callers rely on: a save replaces a record at one moment, a get
reads one, a list reads each name at moments of its own choice, a call that raises has
changed nothing, a killed process leaves each call done or not done. `StateStore!AtomicSpec`
is its refinement; it is why SandboxManager may take a save for one step.

**RunPipeline** - the data side of one run, for runs that follow each other in one
sandbox (the session lock, proved about in SandboxSessionProofs, is why they do).
stdout is the sequence of writes to it: a complete line, text without a newline,
or a response of the runner. Time is in quarters of a second because the tolerance
of `_timeout_boundary_reached` is min(0.5 s, a quarter of the limit). Files carry a
size and a time; a write brings a new time, or one that was before (a copy that keeps
times, a clock that has not ticked), and may come from the command or from a process an
earlier run left behind. `touched` remembers which of these happened to a file between
the manifests. Code that has begun ends well, with an exception the runner reports, or
"unreported": its exception cannot be turned into a string or stdout is closed, main()
itself raises, and what is on stdout is a runner error or nothing.

**RunnerOutput** - `TruncatingBuffer.write`, in the steps between which the interpreter
may change threads: the subtraction, the append, the read and the write of
`self.length += ...`, the flag. Texts are told apart by their lengths; `sent`, `dropped`
and `raced` are ghosts.

**ArtifactAccess** - which file a path means. A path is the sequence of its segments, so
that `/`, `//` and slashes at the ends are told apart; `NormPath`, `Join` and `Strip` are
posixpath's and str's functions by what they do. `Read` is a session's request, `Show`
one of the manager (look up among the recorded artifacts, then resolve what was
recorded), each for a text or a download (`purpose`); `Binary` holds the names by whose
extension `_artifact_previewable` refuses a text (`NotText`). `Preview` is the cut by
`max_chars`. The reference is `Walk`, which goes from
directory to directory and knows nothing of normal forms. Both go through a path by a
recursive function, `Pushed` and `Places`, whose value at `i` is what the first `i`
segments come to.

**MCRunView** puts RunnerOutput and ArtifactAccess side by side for one run of TLC. They
share no variable, and a behaviour is of one of them while the other rests.

## 3. What the runs show

All bounds are CONSTANTS in the cfg files.

| Run | Instance | Shows |
|---|---|---|
| SessionShared | 1 async object, 3 tasks, 2 sandboxes, 2 runs, manifests on | the inductive invariant `IInv` (types among it); a method finds the handle it started, released objects keep none, "terminated" is only said of a dead sandbox, runs are recorded in order, a close that held the lock and returns has ended the sandbox, only the close of an undetached object kills one, a close drops the handle whatever raised |
| SessionLive | 1 async object, 2 tasks, fair | every call on a shared session ends |
| ManagerLedger | 3 processes, 1 id, 1 sandbox, 3 runs | run numbers are unique, a record names only stored runs, the files implement SessionLedger |
| ManagerFaults | 2 processes, 2 ids, 1 sandbox, kills, failing reads and writes | records never go back, terminated records are final and tell the truth |
| OperatorSurface | a CLI and a service process, 1 id, 1 sandbox, 1 run, four environments, kills, failing files; fair | the inductive invariant `SurfaceInv` (types and the manager's invariant among it); codes and statuses agree on every exception; "not found" changed nothing of what the records tell; a good answer is only given for what is stored; "backend failure" hides no stored run; no request that succeeds loses a sandbox; every operation gives its file lock back |
| RunPipeline | 1 path, 2 sizes, limits 1 s and 2 s, Modal's clock up to 0.5 s ahead, 2 runs, 2 writes | statuses are what happened to the command, a silent deadline is always timed_out (for Python if Modal's clock leads by no more than the tolerance, for a shell command if the host has seen the limit pass), nobody is blamed for another's failure unless the runner itself could not tell, a response after whole lines gives its result, reported files were written between the manifests, and no file written with a new time is missed |
| StateStore | 2 threads of a service and a CLI process, 2 names, 1 record | the inductive invariant `IInv`; no file of a record is ever partly written; temporary files are left by saves that failed or were killed only; the files implement AtomicStore |
| RunView | 2 writers, limit 3, texts of 0, 1, 2 and 4, 8 characters; all paths of 1 to 4 segments over "", ".", "..", " ", w, x, "x " under seven working directories, "//.." among them; each for a download or a text, which names with x's extension are not; previews of 0 to 6 with max_chars -6 to 6, default 5 | the inductive invariant `IInv` of the buffer; the flag is up exactly when text was cut, and nothing else is missing; accepted paths lead to the file they name, below the working directory; what is inside is accepted; a recorded artifact is found, and read unless its name forbids the preview; a preview that lacks text says so |

Why the bounds are enough.

* Three threads on one object are a holder, a waiter that may be cancelled and a third
  whose order with the second matters; threads meet only through one lock and the
  object's fields, so a fourth adds no new pair. Two sandboxes are the first one made
  and the one that a wrong retry would make. Two runs are needed to be out of order,
  three for one process to write over two others. Two ids with one sandbox is the
  sharing that attach allows.
* One path is enough in RunPipeline because paths do not interact in the manifest or
  the diff, two runs make an "earlier run" exist, and two writes are one that a manifest
lists and one that makes it differ, with the old time or a new one. That a file of the
earlier run stays unreported needs one write only.
* OperatorSurface asks of one request what it changed and how it was answered; one id
  and one sandbox suffice for that, and a second process makes it fail in the middle.
* StateStore has a pair of threads under one lock and a pair that shares none. One
  record value suffices because a partial or missing one differs from it; a reader that
  mixed two values would need two, and the same instance with two records (778,739
  states) has been checked as well.
* A buffer of limit 3 has texts that fit, fill and exceed it, and 8 characters allow
  a writer to be overtaken before and after the limit is used up.
* Four segments are a lead of two slashes, a name and a way up from it, in any order;
  the working directories are the plain one, a nested one, `/`, one with two slashes, one
  that is not in normal form, and one that is refused.

The theorems of section 5 have no such bounds.

Symmetry is used in SessionShared, ManagerLedger, ManagerFaults and StateStore; none of
their actions or properties tells the permuted values apart, and none is a liveness
property. Deadlock is checked in every run but RunPipeline, where the bounded number of
runs ends the behaviour (CHECK_DEADLOCK FALSE).

### Fairness

`FairSpec`: weak fairness of the steps of a thread that holds its lock - every SDK
call has a timeout and ends, with a result or an exception - and strong fairness
of taking the lock, because asyncio.Lock serves its waiters in the order they
came. Nothing makes a thread begin a call. `SurfaceSpec` has only weak fairness of the
steps after the file lock was granted: the kernel promises no order among waiters of
flock, so that a process eventually gets the lock is neither assumed nor claimed, and
faults are never fair.

### What is assumed of the surroundings

* Modal: `from_id` and `hydrate` may succeed on a sandbox that has ended; an exec returns
  only from a running one. Any call may raise, before or after it took effect. A
  deadline is surfaced as ExecTimeoutError, -1, no exit code, 137 or 143, whatever the
  command printed before. Ids are not reused.
* The file system: a rename replaces a file at one moment or fails without effect; a
  file that is open keeps what it had; the kernel drops the locks of a dead process;
  there are no symbolic links in the workspace.
* FastAPI and Starlette: the handler of the nearest class in the exception's mro is
  called, in whatever order they were registered.

## 4. Where the code does not do what the repository says

Four runs expect a violation and are listed as findings:

1. `CommandsHaveWorkspace` - commands run in a sandbox whose working directory was not
   made, for one of two reasons: `_ensure_workspace` ignores the exit code and the timeout
   of its mkdir (the shorter trace, which TLC prints), and `start()` caches the handle
   before `set_tags` and `_ensure_workspace`, so that after one of them raised the retry
   returns early from the cache.
2. `ManifestNeverFailsRun` - the manifest's `backend.run()` is outside the `try` of
   `_capture_manifest_best_effort`, so a BackendError there loses the result of a
   command that succeeded.
3. `StoredRunsUnique` under `CrashSpec` - a process killed between `save_run` and
   `save_session` lets the next run reuse the sequence number.
4. `DeadlineIsTimedOut` - a command with output that is ended by a signal exit at its
   deadline is `failed` (shell) or a ProtocolError (Python), not `timed_out`.

Met while modelling and not made into runs.

Sessions and the manager:

* `backend.detach()` raising in `close()`'s finally leaves status TERMINATED with `_closed`
  False; two calls of `start()` later the session is ACTIVE on a dead sandbox.
* A close whose terminate raised marks the session closed with its sandbox running; a
  run whose start raised late leaves its handle attached when the manager finalizes it.
* A terminate that raised late leaves the record of an ended sandbox as it was, and the
  record of an expired sandbox can never become terminated.
* After a close that raised, the object counts as closed, and a second close returns at
  once while the sandbox runs: `CloseEndsSandbox` is about the close that took the lock.
* A failing `save_run` leaves a record that names a run without a file.
* `start_session` with the id of an existing record, which neither the CLI nor the
  server passes, overwrites that record; the model draws fresh ids.

Results:

* A run that responded and then lingers to its deadline is `succeeded` with exit code
  137 or `timed_out`, depending on Modal's shape.
* Code that did run is reported as `backend_error` (or a ProtocolError) when the runner
  cannot report its end: the str() of its exception raises, or it closed stdout.
  `BlameIsRight` says so.
* A failed first manifest makes every file count as added. A file that a left-over process
  writes between the manifests is reported by the run it falls into, and a file rewritten
  with its old size and old time is not reported by any.
* Writes of two threads that overlap can exceed `max_output_chars`
  (a "character limit" in docs/design-docs/design-decisions.md); `KeptToTheLimit`
  therefore promises the limit only when no two writes overlap.
* `clamp` knows whether it cut the traceback, and that flag is discarded.

Paths and previews; each is an exception written into a property of ArtifactAccess:

* Under `working_dir` "/" the path "//" is accepted and means the directory itself,
  and a relative path that goes up and comes back ("../x") is refused though inside.
* An absolute path with just two leading slashes is refused, whatever it names, unless
  `working_dir` has two as well; and under a `working_dir` whose normal form is "//"
  (such as "//..") every absolute path is refused, since none begins with "///", with
  which it is compared.
* A recorded name with a blank at its end is found, stripped, and another file is read;
  if its first name is blank, the path becomes absolute or empty and nothing is read.
  The answer of the latter is 404 or exit code 11, given after the sandbox was attached and
  the record saved: it tells the same of the session, with a later `updated_at`, which is
  what `NotFoundChangedNothing` leaves out (`Account`).
* Two artifacts can be meant by one spelling ("/w/x" as the remote path of one and,
  without its slash, the relative path of the other); the first one in the list is read.
* `max_chars` 0 is the default; a negative one slices from the end and flags a text that
  may be whole or empty.

The surfaces:

* Exit code 16 (lifecycle errors) is in no list of the documentation.
* An artifact that Modal cannot read raises ArtifactError, which is no BackendError: exit
  code 15 ("unexpected internal error") and status 500, where README.md:174 has 14 for
  failures of the backend.
* Only the CLI's readiness test raises ModalConfigurationError: a service without Modal
  answers 502 (or 500 when the import of `modal` breaks), never its 503.
* `LocalStateStore` is built outside the `try` of `main`, so a state directory that cannot
  be made gives a traceback instead of an exit code.

## 5. Proofs

### SandboxSessionProofs

For every number of threads, session objects, sandboxes and runs, both classes, with
and without manifests:

* `Invariance`: `Spec => []IInv`, and from it `TypeCorrect`, `CommandsAttached`,
  `ReleasedHoldNothing`, `RunsHoldLatestNumber`, `TerminatedAreGone`;
* the action properties `RecordsInOrder`, `ReturnedCloseEndsSandbox`, `DetachLeavesRunning`,
  `CloseDropsHandle`, `StatusForward`.

The assumptions are those on the constants: NoThread and NoSandbox are no members of
their sets, the flags are Booleans, the counts naturals.

The argument. "A handle is attached while a command is sent" is not inductive: a
step of another thread might drop the handle. What makes it so is `LockHeld`: a
thread inside a method holds its session's lock. Two threads inside methods of
the same object would both hold it, so every step of another thread concerns
another object and leaves this one's fields alone. `CallPlace` says what a thread
knows at each place of its method (its session is usable; its operation is the one
that has this place; a detach finds the session active); `HandleHasId` and
`DetachedStatus` tie the fields of an object to each other and to Modal;
`CloseOutcome` says what a close brings to its finally, an exception or a terminated
session, without which nothing is known of the sandbox when it returns;
`NumbersInOrder` says that a run's id is newer than the last recorded one, which
`LastRunAdvances` needs at `Record`.

Each step is proved once per group of conjuncts: `TypeStep`, `ControlStep`,
`HandleStep` and `NumberStep` have one case per action, and `Invariance` puts them
together. The action properties have the same cases, most of which are
UNCHANGED.

### StateStoreProofs

For every number of processes, threads, names and records:

* `Invariance`: `Spec => []IInv`, and from it `RecordsAreWhole` (`OnlyWholeRecords`);
* `Implements`: `Spec => AtomicSpec`, the refinement of AtomicStore;
* `LitterExplained`: `Spec => LitterIsOfFailures`.

The assumptions: every thread has a process, there is a name, and the values that stand
for "missing", "partly written" and "no thread" are no records, names or threads.

The argument. A record is whole because it only changes by `Rename`, and the temporary
file that is renamed holds what the caller gave (`CallPlace` at "rename"), which no one
else can have changed: it has a name of its own. That a read then always parses is
what makes `Read` a look of the abstract store rather than a refusal. Each thread's
locals and temporary file are changed by its own steps and by the death of its process
only, so `CallPlace` is proved for the acting thread (`PlaceWork`) and framed for the
others (`PlaceFrame`). `WorkImplements` maps each step: the rename to `Put`, the tests,
listings and reads to `Look`, whatever leaves with "raised" to `Refuse`, the rest to
stutters. `LockHeld` is in the invariant for the promise the RLock makes within a
process; the refinement does not need it.

### SandboxManagerProofs

For every number of processes, session ids, sandboxes and runs. Which specification a
theorem is about says what it withstands:

* under `FaultySpec` (processes killed between any two steps, reads and writes that
  raise): `ManagerInvariance` (`ManagerInv`), `TerminatedRecordsAreGone`,
  `RecordsNeverGoBack`, `TerminatedRecordsAreFinal`, and `RunFilesAreNew`, that no run is
  stored over the file of another;
* under `CrashSpec` (kills): `LastRunsAreStored`. A save that raises does leave a record
  that names no file (section 4);
* under `ManagerSpec` (failing backend calls only): `NumbersUnique` and
  `LedgerImplemented`, the refinement of SessionLedger. The run
  `ViolatedStoredRunsUnique` shows that a kill breaks both.

The argument. A process reads the record, works for as long as a sandbox takes, and
writes the record back from what its session object says. `SnapshotOf` is what makes
this safe: while a process has the file lock, the stored record is the one it
started from (same sandbox, a count that is not above the object's, not terminated).
That is inductive because every write to a record is made by the holder of its lock
(`OneHolder`), or by a start or an attach whose session id is fresh (`FreshOf`).
`OutcomeOf` says what the method called last has made of the object, so that
`Describe`, which turns the object back into a record, tells the truth: "terminated" only
after Modal's answer, a count above the stored one for a run. The record of a sandbox
that another session id shares is covered as well, since what is said of Modal
(`RemoteForward`: an ended sandbox stays ended) is the same whoever ended it.

The session's methods are not gone through again: `MethodFrame` (a step changes the
object of its process only) and `MethodResult` (what it makes of it) are proved once from
`IInv` of SandboxSessionProofs, and the manager's steps use these two.

For the ledger `RunsCounted` is added: a stored run is counted by its record, or by the
process that has stored it and still has the lock. This is what a kill between the two
saves destroys.

### RunPipelineProofs

For all files, sizes and limits, every number of runs and writes, and any lead `Early` of
Modal's clock: `PipelineInvariance`, and from it all seven properties of the run.

The argument. Three parts that each step keeps by itself. `OutputInv`: a response on stdout
tells how far the code came, a runner error only that it did not begin or could not be
reported. `EndInv`: what the backend makes of the end of the process,
with its seven shapes; a deadline that was silent and full is recognised in each.
`ManifestInv`: compared with the first manifest, the files written since with a new time
have a later one, and those not written since are as they were (`ToldApart`); nothing is
said of a write with an old time. It is kept when left-over processes write at any
moment. The result is a function of these
(`Mapped`), and each theorem unfolds the branch of the mapping it is about.
`CompletedRunsReturn` needs that the last line of stdout is the response when whole
lines come before it.

### OperatorSurfaceProofs

For every number of CLI processes and request threads and any environments:

* `SurfaceImplementsManager`: `SurfaceSpec => FaultySpec`, so that all of the manager's
  theorems hold behind both surfaces;
* `SurfaceInvariance` (`SurfaceInv`), and from it `SurfaceTypesCorrect`, `NotFoundIsSafe`,
  `GoodIsStored`, `BackendFailuresHideNoRun`, `SurfacesTellTheSame`;
* the action property `LostSandboxesAreAnnounced`.

The argument. An answer is given several steps after what it is about, so the invariant
follows it there: `ExceptionOf` says that an operation that is going to fail has the
exception it will be answered with, `EffectsOf` that a run that ended well is in the
store from `save_run` on and its record from the save on, `ArtifactOf` that a request for
an artifact, which alone can end as "not found" with the sandbox attached, has changed
nothing that a record tells (`Account`), `ObjectOf` that the session
object can be used until its last method has returned. A request either passes an
exception on, replaces it (a release or save that raises in the `finally`), or ends well,
and each of these is a lemma (`GoesOn`, `RequestOver`, `Answered`). The hierarchy of
exceptions is finite: `Orders` lists the method resolution order of every class, which
`Mro` computes by recursion, and the clauses and handlers are gone through on it once.

### RunnerOutputProofs

For every number of writers, every limit and every text: `Invariance`, `FlagIsRight`
(`FlaggedIffCut`) and `OutputKeptToTheLimit` (`KeptToTheLimit`). At rest the flag should
be up exactly if something was cut, but between a write's subtraction and its flag it is
not. `CutsAreFlagged` counts the writes on their way: something was cut exactly if the
flag is up or a write in progress cuts. That holds however `length` is lost in between,
because a write decides by the value it found.

`KeptToTheLimit` needs the characters of the writes on their way added up over the
writers. A sum over a set is defined by recursion, out of the prover's reach; the sum is
therefore the cardinality of a set of pairs (`Characters`: a writer and a number up to
what its write keeps), which grows and shrinks by the pairs of one writer at a time
(`SlotsCount`). The stored length is never above what is kept less what is not counted
yet, and without races equal to it.

### ArtifactAccessProofs

For any names, all paths of any length, any working directories, recorded files and
lengths: `AcceptedIsTheirFile`, `InsideIsTaken`, `RecordedAreRead` and
`PreviewsTellTheTruth`. The assumptions: the
special segments are no names, paths are not empty (as `split` gives them), a manifest
lists files by names, and the default for `max_chars` is positive, as `config.py` demands.

The argument. The difficulty is in the operators and not in the steps: the lemma
`AccessInvariance` only ties each reply to what the code of its request makes of what was
asked. What a
function on paths gives for every path is an induction over data. The library's induction
theorems take operators as parameters and cannot be used here, so the induction is stated
for sets: `SeqInduction` (a set that has the empty sequence and is closed under Append has
every sequence) follows from the well-foundedness of < on the naturals, and each claim
about paths is that lemma for the set of the paths it holds of. `PlacesAre` and `PushedAre`
show that the recursive functions satisfy their equations. On these rest

* about walks: one after another is one (`WalkThrough`), names lead down (`WalkDown`);
* about normal forms: from the root, the components that normpath keeps are the place
  itself (`CompsAbsolute`); of a relative path they are names behind those ".." that led
  nowhere, and lead where the path leads from anywhere (`CompsRelative`); of a path that
  never goes above where it began they are names only (`CompsStay`).

Containment is then that a string prefix is a directory prefix: a normal form that
continues the working directory's has as many slashes, and its place continues the
working directory's (`PlaceContinues`). This is where the exceptions of section 4 come
from, "//" and "//..": the proof does not go through without them.

### Only model-checked

Liveness (`EveryCallReturns`, `FlockReleased`), which is outside the prover's reach.
Every other property that a passing run checks is stated by a theorem.

`ManagerInv` and `RunIdsInv` are part of `SurfaceInv` and so of a run; `LastRunInv`,
`LedgerInv` and `PipelineInv`, which no run lists, have been checked by TLC on the instances
of ManagerLedger, ManagerFaults and RunPipeline before they were proved.

## 6. Not modelled

* Arguments of `Sandbox.create`, images, network options: they describe a sandbox and
  change nothing later. The validators of `config.py` other than `working_dir`.
* `describe()` beside a running call: it reads without the lock and may mix two
  moments. The manager calls it only when its session is at rest.
* Stdin and encodings; splitting the last expression off the code; the clamps of its
  repr and of the traceback.
* In the CLI: parsing of arguments (it does not check `--timeout-seconds`, which reaches
  the session as given), rendering, `doctor`, and `serve`, which starts the service. In
  the service: authentication, which answers 401 before the manager is called, and
  the routes' own validation beyond its status.
* The tool wrapper: one call of a session and a rendering; the session is modelled.
* Messages of diagnostics, logging, scripts.

## 7. Plan

Every safety property of the runs is proved. What would say more about the system:

1. an abstract specification of a session (created, active, closed or detached; commands
   between a start and an end) that SandboxSession is shown to implement, so that the
   manager's proofs can use it in place of `MethodFrame` and `MethodResult`;
2. `describe()` interleaved with a call;
3. the lemmas on paths of ArtifactAccessProofs for `working_dir` in the other validators'
   company, if more of `config.py` is modelled.
