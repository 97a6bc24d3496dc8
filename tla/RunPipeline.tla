---------------------------- MODULE RunPipeline ----------------------------
(***************************************************************************)
(* What one run_python or run_shell call makes of its command: the data    *)
(* side of the calls whose control SandboxSession models.  A manifest of   *)
(* the working directory is taken, the command runs and ends in one of the *)
(* shapes Modal has for that, a second manifest is taken, and the result   *)
(* is mapped (session.py, modal_backend.py).  A Python command is the      *)
(* bootstrap runner of python_runner.py, which prints one JSON payload.    *)
(*                                                                         *)
(* Time is counted in quarters of a second.  Runs of one sandbox follow    *)
(* one another; a process an earlier run left behind may write files at    *)
(* any moment.                                                             *)
(***************************************************************************)
EXTENDS Integers, Sequences

CONSTANTS
  Paths,      \* relative paths under working_dir
  Sizes,      \* st_size of files
  Default,    \* config.default_exec_timeout_seconds
  Requests,   \* timeout_seconds passed by callers, 0 for None
  Early,      \* quarters by which Modal's clock may run ahead of the host's
  MaxRuns,    \* bound: runs
  MaxWrites,  \* bound: writes to files
  MaxPrints   \* bound: writes of one command to its stdout

ASSUME DefaultAssumption == Default \in Nat \ {0} /\ Requests \subseteq Nat
ASSUME EarlyAssumption ==
  Early \in Nat /\ \A n \in Requests \cup {Default} : n = 0 \/ Early <= 4 * n
ASSUME BoundAssumption == MaxRuns \in Nat /\ MaxWrites \in Nat /\ MaxPrints \in Nat

VARIABLES
  files,     \* files[f]: what is at path f
  writes,    \* writes so far; st_mtime_ns of a file is a number no greater
  place,     \* the next thing the call does
  kind,      \* "python" or "shell"
  limit,     \* effective_timeout_seconds
  before,    \* the manifest taken before the command
  after,     \* and after it
  captured,  \* which of the two captures succeeded
  code,      \* what came of the user's code; "unreported": the runner could not tell
  stdout,    \* the writes to the command's stdout, in order
  stderr,    \* it wrote to its stderr
  ended,     \* why the command's process ended
  raw,       \* the BackendCommandResult
  result,    \* the ExecutionResult
  \* history
  touched,   \* touched[f]: f was not written between the manifests, or last with a new
             \* modification time, or with an old one
  count      \* runs so far

commandVars == <<code, stdout, stderr, ended, raw>>
fileVars == <<files, writes, touched>>
vars == <<fileVars, place, kind, limit, before, after, captured, commandVars, result, count>>

NoFile == [size |-> 0, mtime |-> 0]
Entries == [size : Sizes, mtime : 1..MaxWrites] \cup {NoFile}
Empty == [f \in Paths |-> NoFile]

\* exit_code None
NoExit == -2

\* A write to stdout: a complete line, the beginning of one, or a response of the
\* runner, which ends without a newline.
Payloads == {"succeeded", "failed", "runner_error"}
Chunks == {"line", "text"} \cup Payloads

NoRaw == [timedOut |-> FALSE, exit |-> NoExit, stdout |-> <<>>, duration |-> 0]
Raised == [status |-> "raised", artifacts |-> {}]
NoResult == [status |-> "none", artifacts |-> {}]

Init ==
  /\ files = Empty
  /\ writes = 0
  /\ place = "idle"
  /\ kind = "shell"
  /\ limit = Default
  /\ before = Empty /\ after = Empty
  /\ captured = {}
  /\ code = "none" /\ stdout = <<>> /\ stderr = FALSE /\ ended = "no" /\ raw = NoRaw
  /\ result = NoResult
  /\ touched = [f \in Paths |-> "no"]
  /\ count = 0

-----------------------------------------------------------------------------
(* Files, and their manifests. *)

\* The command, or a process left behind by an earlier one, writes a file.  Its time is
\* new, or one that was before: the clock has not ticked, or a copy keeps its time.
Write(f) ==
  /\ count > 0 /\ writes < MaxWrites
  /\ writes' = writes + 1
  /\ \E s \in Sizes, t \in 1..writes' :
       /\ files' = [files EXCEPT ![f] = [size |-> s, mtime |-> t]]
       /\ touched' = IF place \notin {"exec", "after"} THEN touched
                     ELSE [touched EXCEPT ![f] = IF t = writes' THEN "new" ELSE "old"]
  /\ UNCHANGED <<place, kind, limit, before, after, captured, commandVars, result, count>>

Remove(f) ==
  /\ files[f] # NoFile
  /\ files' = [files EXCEPT ![f] = NoFile]
  /\ UNCHANGED <<writes, touched, place, kind, limit, before, after, captured, commandVars,
                 result, count>>

Begin(k, requested) ==
  /\ place \in {"idle", "mapped"} /\ count < MaxRuns
  /\ place' = "before"
  /\ kind' = k
  /\ limit' = IF requested = 0 THEN Default ELSE requested
  /\ before' = Empty /\ after' = Empty /\ captured' = {}
  /\ code' = "none" /\ stdout' = <<>> /\ stderr' = FALSE /\ ended' = "no" /\ raw' = NoRaw
  /\ result' = NoResult
  /\ count' = count + 1
  /\ UNCHANGED fileVars

\* A manifest script that timed out or failed, or printed what cannot be parsed,
\* counts as an empty directory.
CaptureBefore ==
  /\ place = "before"
  /\ \/ before' = files /\ captured' = {"before"}
     \/ before' = Empty /\ captured' = {}
  /\ touched' = [f \in Paths |-> "no"]
  /\ place' = "exec"
  /\ code' = IF kind = "shell" THEN "running" ELSE "none"
  /\ UNCHANGED <<files, writes, kind, limit, after, stdout, stderr, ended, raw, result, count>>

CaptureAfter ==
  /\ place = "after"
  /\ \/ after' = files /\ captured' = captured \cup {"after"}
     \/ after' = Empty /\ UNCHANGED captured
  /\ place' = "map"
  /\ UNCHANGED <<fileVars, kind, limit, before, commandVars, result, count>>

\* Mutant: entries are told apart by identity, and those of two manifests always differ.
OtherObject(f) == TRUE

Differs(f) == before[f] # after[f]

\* Mutant: without a first manifest nothing is reported.
DiffOfBoth ==
  IF "before" \notin captured THEN {}
  ELSE {[path |-> f, change |-> IF before[f] = NoFile THEN "added" ELSE "modified"] :
          f \in {g \in Paths : after[g] # NoFile /\ Differs(g)}}

\* _diff_artifacts
Artifacts ==
  {[path |-> f, change |-> IF before[f] = NoFile THEN "added" ELSE "modified"] :
     f \in {g \in Paths : after[g] # NoFile /\ Differs(g)}}

-----------------------------------------------------------------------------
(* The command in the sandbox. *)

Alive == place = "exec"

\* The runner cannot enter working_dir: it reports that and exits with 1.
RunnerFails ==
  /\ Alive /\ kind = "python" /\ code = "none"
  /\ stdout = <<>>
  /\ stdout' = <<"runner_error">>
  /\ UNCHANGED <<fileVars, place, kind, limit, before, after, captured, code, stderr, ended,
                 raw, result, count>>

RunnerExecs ==
  /\ Alive /\ kind = "python" /\ code = "none" /\ stdout = <<>>
  /\ code' = "running"
  /\ UNCHANGED <<fileVars, place, kind, limit, before, after, captured, stdout, stderr, ended,
                 raw, result, count>>

WritesOut == Len(SelectSeq(stdout, LAMBDA c : c \notin Payloads))

\* The command writes to the process's own streams, past the runner's buffers: from
\* a subprocess, or from a thread or exit handler after the runner's response.
WriteOut ==
  /\ Alive /\ code # "none"
  /\ \/ /\ WritesOut < MaxPrints
        /\ \E c \in {"line", "text"} : stdout' = Append(stdout, c)
        /\ UNCHANGED stderr
     \/ stderr' = TRUE /\ UNCHANGED stdout
  /\ UNCHANGED <<fileVars, place, kind, limit, before, after, captured, code, ended, raw,
                 result, count>>

\* The code returns or raises, SystemExit included, and the runner responds.  Or main()
\* raises after the code began: str() of its exception raises, or stdout is closed.  The
\* outer handler then reports a runner error, unless its own str() or write raises too.
CodeEnds ==
  /\ Alive /\ kind = "python" /\ code = "running"
  /\ \/ code' = "done" /\ stdout' = Append(stdout, "succeeded")
     \/ code' = "raised" /\ stdout' = Append(stdout, "failed")
     \/ code' = "unreported" /\ stdout' \in {stdout, Append(stdout, "runner_error")}
  /\ UNCHANGED <<fileVars, place, kind, limit, before, after, captured, stderr, ended, raw,
                 result, count>>

-----------------------------------------------------------------------------
(* ModalBackend._execute: the end of the process, as the backend sees it. *)

\* Mutant: process.wait() returning None is taken as it comes.
SignalExit(exit, elapsed) ==
  /\ exit \in {137, 143}
  /\ stdout = <<>> /\ ~stderr
  /\ elapsed >= 4 * limit

\* _looks_like_modal_deadline_signal_exit
DeadlineSignalExit(exit, elapsed) ==
  /\ exit \in {NoExit, 137, 143}
  /\ stdout = <<>> /\ ~stderr
  /\ elapsed >= 4 * limit

\* The wait returned exit after elapsed quarters of a second.
Waited(exit, elapsed) ==
  LET timedOut == exit = -1 \/ DeadlineSignalExit(exit, elapsed) IN
  raw' = [timedOut |-> timedOut, exit |-> IF timedOut THEN NoExit ELSE exit,
          stdout |-> stdout, duration |-> elapsed]

\* ExecTimeoutError was raised; _safe_read returns what the streams have, or nothing.
TimeoutRaised(elapsed) ==
  \E read \in {stdout, <<>>} :
    raw' = [timedOut |-> TRUE, exit |-> NoExit, stdout |-> read, duration |-> elapsed]

EndProcess(why) ==
  /\ Alive
  /\ ended' = why
  /\ place' = "after"
  /\ UNCHANGED <<fileVars, kind, limit, before, after, captured, stdout, stderr, result, count>>

\* The process exits by itself in time: with 1 a runner that could not begin, and as
\* they like a shell, and an interpreter in which user code has begun.
Exits ==
  /\ EndProcess("self")
  /\ \E elapsed \in 0..(4 * limit) :
       \/ /\ kind = "python" /\ code = "none" /\ stdout # <<>>
          /\ Waited(1, elapsed) /\ UNCHANGED code
       \/ /\ kind = "python" /\ code # "none"
          /\ \E exit \in {0, 1} : Waited(exit, elapsed) /\ UNCHANGED code
       \/ /\ kind = "shell"
          /\ \/ Waited(0, elapsed) /\ code' = "done"
             \/ Waited(1, elapsed) /\ code' = "raised"

\* Something else kills it: the memory limit, or a signal of its own.
Killed ==
  /\ EndProcess("kill")
  /\ \E elapsed \in 0..(4 * limit), exit \in {137, 143} : Waited(exit, elapsed)
  /\ UNCHANGED code

\* Modal ends it at its deadline, in one of the shapes it has for that.
DeadlinePasses ==
  /\ EndProcess("deadline")
  /\ \E elapsed \in (4 * limit - Early)..(4 * limit + 1) :
       \/ TimeoutRaised(elapsed)
       \/ \E exit \in {-1, NoExit, 137, 143} : Waited(exit, elapsed)
  /\ UNCHANGED code

-----------------------------------------------------------------------------
(* _map_python_result and _map_shell_result. *)

\* Mutant: only a response that is all of stdout is parsed.
ResponseAlone(out) == IF Len(out) = 1 /\ out[1] \in Payloads THEN out[1] ELSE "malformed"

\* parse_python_response: the last non-empty line must be the response.
Response(out) ==
  IF /\ out # <<>> /\ out[Len(out)] \in Payloads
     /\ Len(out) > 1 => out[Len(out) - 1] = "line"
  THEN out[Len(out)] ELSE "malformed"

\* Mutant: a killed runner has timed out, whenever it was.
BoundaryAlways == TRUE

\* _timeout_boundary_reached: half a second of tolerance, a quarter of the limit at most.
Tolerance == IF limit < 2 THEN limit ELSE 2
BoundaryReached == raw.duration >= 4 * limit - Tolerance

\* _should_normalize_missing_python_payload_as_timeout
MissingPayloadIsTimeout ==
  /\ raw.stdout = <<>>
  /\ raw.exit \in {NoExit, 137, 143}
  /\ BoundaryReached

\* Mutant: the success flag is looked at before runner_error.
PythonStatusBySuccess ==
  IF raw.timedOut THEN "timed_out"
  ELSE CASE Response(raw.stdout) = "malformed" ->
              IF MissingPayloadIsTimeout THEN "timed_out" ELSE "raised"
         [] Response(raw.stdout) = "succeeded" -> "succeeded"
         [] OTHER -> "failed"

\* "raised" stands for ProtocolError.
PythonStatus ==
  IF raw.timedOut THEN "timed_out"
  ELSE CASE Response(raw.stdout) = "malformed" ->
              IF MissingPayloadIsTimeout THEN "timed_out" ELSE "raised"
         [] Response(raw.stdout) = "runner_error" ->
              IF raw.exit \in {0, NoExit} THEN "raised" ELSE "backend_error"
         [] OTHER -> Response(raw.stdout)

\* Mutant: a missing exit code passes, as it does for the manifest.
ShellStatusLenient ==
  IF raw.timedOut THEN "timed_out"
  ELSE IF raw.exit \in {0, NoExit} THEN "succeeded" ELSE "failed"

ShellStatus ==
  IF raw.timedOut THEN "timed_out"
  ELSE IF raw.exit = 0 THEN "succeeded" ELSE "failed"

Mapped ==
  LET status == IF kind = "python" THEN PythonStatus ELSE ShellStatus IN
  IF status = "raised" THEN Raised ELSE [status |-> status, artifacts |-> Artifacts]

Map ==
  /\ place = "map"
  /\ place' = "mapped"
  /\ result' = Mapped
  /\ UNCHANGED <<fileVars, kind, limit, before, after, captured, commandVars, count>>

Next ==
  \/ \E f \in Paths : Write(f) \/ Remove(f)
  \/ \E k \in {"python", "shell"}, r \in Requests : Begin(k, r)
  \/ CaptureBefore \/ CaptureAfter
  \/ RunnerFails \/ RunnerExecs \/ WriteOut \/ CodeEnds
  \/ Exits \/ Killed \/ DeadlinePasses
  \/ Map

Spec == Init /\ [][Next]_vars
-----------------------------------------------------------------------------
(* Properties *)

Returned == place = "mapped" /\ result.status # "raised"

Reported == {a.path : a \in result.artifacts}

\* A command that Modal ended at its deadline while it was silent is timed_out, in
\* whichever of its shapes Modal said so, and a Python run also if Modal's clock is
\* ahead of the host's by no more than the tolerance.
QuietDeadlineTimedOut ==
  Returned /\ ended = "deadline" /\ stdout = <<>> /\ ~stderr
    /\ (raw.duration >= 4 * limit \/ (kind = "python" /\ Early <= Tolerance))
    => result.status = "timed_out"

\* A run that is timed_out was ended by its deadline, or at least used up its time:
\* commands killed early for another reason stay visible as failures.
TimedOutSpentItsTime ==
  Returned /\ result.status = "timed_out"
    => ended = "deadline" \/ raw.duration >= 4 * limit - Tolerance

\* A run that succeeded came to the end of its code: no killed or crashed command,
\* and no runner that could not begin, passes for a success.
SucceededRanToItsEnd ==
  Returned /\ result.status = "succeeded" => code = "done"

\* The blame is right: backend_error is said only of a Python run whose code never
\* began, or whose end the runner could not report; failed only of code that raised.
BlameIsRight ==
  Returned /\ kind = "python"
    => /\ result.status = "backend_error" => code \in {"none", "unreported"}
       /\ result.status = "failed" => code = "raised"

\* A Python run whose process exited in time after the runner's response to its code has
\* the result the runner responded with, and no ProtocolError, if only whole lines of
\* other output come before the response and nothing after it.
CompletedRunIsNotLost ==
  place = "mapped" /\ kind = "python" /\ ended = "self" /\ stdout # <<>>
    /\ stdout[Len(stdout)] \in {"succeeded", "failed"}
    /\ (\A i \in 1..(Len(stdout) - 1) : stdout[i] = "line")
    => result.status = stdout[Len(stdout)]

\* When both manifests succeed, every artifact was written between them, by the run or by
\* a process that was left over: no other file of an earlier run comes up again.
ArtifactsWereJustWritten ==
  Returned /\ captured = {"before", "after"}
    => \A f \in Reported : touched[f] # "no"

\* Whatever happened to the first manifest, a file last written between the manifests,
\* with a new modification time, is missed only if the second one fails.
NoWrittenFileMissed ==
  Returned /\ "after" \in captured
    => {f \in Paths : touched[f] = "new" /\ after[f] # NoFile} \subseteq Reported

-----------------------------------------------------------------------------
(* The inductive invariant behind the properties. *)

TypeOK ==
  /\ files \in [Paths -> Entries] /\ before \in [Paths -> Entries]
  /\ after \in [Paths -> Entries] /\ touched \in [Paths -> {"no", "new", "old"}]
  /\ writes \in Nat /\ \A f \in Paths : files[f].mtime <= writes /\ before[f].mtime <= writes
  /\ place \in {"idle", "before", "exec", "after", "map", "mapped"}
  /\ kind \in {"python", "shell"} /\ limit \in Nat \ {0} /\ count \in Nat
  /\ limit \in Requests \cup {Default}
  /\ captured \subseteq {"before", "after"}
  /\ code \in {"none", "running", "done", "raised", "unreported"} /\ stderr \in BOOLEAN
  /\ stdout \in Seq(Chunks)
  /\ raw.duration \in Int

\* What the command wrote tells how far its code came.
OutputInv ==
  /\ place = "before" => stdout = <<>>
  /\ \A i \in DOMAIN stdout :
       /\ stdout[i] \in Payloads => kind = "python"
       /\ stdout[i] = "succeeded" => code = "done"
       /\ stdout[i] = "failed" => code = "raised"
       /\ stdout[i] = "runner_error" => code \in {"none", "unreported"}

\* What the backend made of the end of the process.
EndInv ==
  place \in {"after", "map", "mapped"}
    => /\ raw.stdout \in {stdout, <<>>}
       /\ ended = "self" => raw.stdout = stdout /\ ~raw.timedOut
       /\ raw.timedOut => ended = "deadline" \/ raw.duration >= 4 * limit
       /\ kind = "shell" /\ ~raw.timedOut /\ raw.exit = 0 => code = "done"
       /\ ended = "deadline"
            => /\ raw.duration >= 4 * limit - Early
               /\ raw.timedOut \/ raw.exit \in {NoExit, 137, 143}
               /\ raw.duration >= 4 * limit /\ stdout = <<>> /\ ~stderr => raw.timedOut

\* A manifest m taken now, or taken after the command, differs from the first one in the
\* files last written in between with a new time, and in files not written in between
\* only if the first one failed.
ToldApart(m) ==
  \A f \in {g \in Paths : m[g] # NoFile} :
    /\ touched[f] = "new" => m[f].mtime > before[f].mtime
    /\ "before" \in captured /\ touched[f] = "no" => m[f] = before[f]

ManifestInv ==
  /\ "before" \notin captured => before = Empty
  /\ place \in {"exec", "after"} => ToldApart(files) /\ "after" \notin captured
  /\ place \in {"map", "mapped"} /\ "after" \in captured => ToldApart(after)

\* Whatever other processes write meanwhile, the result of a call is of its own command.
PipelineInv ==
  /\ TypeOK /\ OutputInv /\ EndInv /\ ManifestInv
  /\ place = "mapped" => result = Mapped

-----------------------------------------------------------------------------
(* What the repository says of the program, and the program does not do. *)

\* README: "Modal deadline expirations are normalized into structured `timed_out`
\* results across library, CLI, and HTTP surfaces".
DeadlineIsTimedOut ==
  place = "mapped" /\ ended = "deadline" /\ code = "running"
    => result.status = "timed_out"
=============================================================================
