--------------------------- MODULE RunPipelineProofs ---------------------------
(***************************************************************************)
(* Proofs about RunPipeline, for any files, limits and number of runs, and *)
(* any lead of Modal's clock.                                              *)
(*                                                                         *)
(* PipelineInv has a part for the command's output, one for the end of its *)
(* process and one for the manifests; each is kept by every step, and the  *)
(* properties are what the mapping of the result makes of them.  A process *)
(* of an earlier run may write at any moment: ToldApart says what such a   *)
(* write does to the two manifests.                                        *)
(***************************************************************************)
EXTENDS RunPipeline, TLAPS

-----------------------------------------------------------------------------
(* The output of a command. *)

\* The chunks the actions append are chunks, and the responses are the three of the runner.
LEMMA ChunkKinds ==
  /\ "line" \in Chunks /\ "text" \in Chunks
  /\ "succeeded" \in Chunks /\ "failed" \in Chunks /\ "runner_error" \in Chunks
  /\ "line" \notin Payloads /\ "text" \notin Payloads
  /\ Payloads = {"succeeded", "failed", "runner_error"}
  BY DEF Chunks, Payloads

\* No output is a sequence of chunks.
LEMMA NoOutput == ASSUME NEW S PROVE <<>> \in Seq(S) /\ DOMAIN <<>> = {}
  OBVIOUS

\* The report of a runner that fails is all of its output.
LEMMA OneChunk == ASSUME NEW S, NEW c \in S PROVE <<c>> \in Seq(S) /\ DOMAIN <<c>> = {1} /\ <<c>>[1] = c
  OBVIOUS

\* What a write to the output leaves of it.
LEMMA Appended ==
  ASSUME NEW S, NEW s \in Seq(S), NEW c \in S
  PROVE  /\ Append(s, c) \in Seq(S)
         /\ DOMAIN Append(s, c) = DOMAIN s \cup {Len(s) + 1}
         /\ Append(s, c)[Len(s) + 1] = c
         /\ \A i \in DOMAIN s : Append(s, c)[i] = s[i]
  OBVIOUS

-----------------------------------------------------------------------------
(* Types. *)

(* Types hold before the first run. *)
LEMMA InitType == Init => TypeOK
<1> SUFFICES ASSUME Init PROVE TypeOK
  OBVIOUS
<1>1. stdout \in Seq(Chunks) /\ stderr \in BOOLEAN
  BY NoOutput DEF Init
<1>2. Empty \in [Paths -> Entries] /\ \A f \in Paths : Empty[f].mtime = 0
  BY DEF Empty, Entries, NoFile
<1>3. QED
  BY <1>1, <1>2, DefaultAssumption DEF Init, TypeOK, NoRaw

(* Every step keeps the types. *)
LEMMA TypeStep == TypeOK /\ [Next]_vars => TypeOK'
<1> SUFFICES ASSUME TypeOK, [Next]_vars PROVE TypeOK'
  OBVIOUS
<1> USE DEF TypeOK, fileVars, commandVars
<1>1. ASSUME NEW f \in Paths, Write(f) PROVE TypeOK'
  <2>1. PICK s \in Sizes, t \in 1..writes' :
           /\ files' = [files EXCEPT ![f] = [size |-> s, mtime |-> t]]
           /\ touched' = IF place \notin {"exec", "after"} THEN touched
                         ELSE [touched EXCEPT ![f] = IF t = writes' THEN "new" ELSE "old"]
    BY <1>1 DEF Write
  <2>2. /\ t \in 1 .. MaxWrites /\ writes' = writes + 1 /\ t <= writes'
        /\ [size |-> s, mtime |-> t] \in Entries
        /\ [size |-> s, mtime |-> t].mtime = t
        /\ writes' \in Nat
    BY <1>1, BoundAssumption DEF Write, Entries
  <2>3. files' \in [Paths -> Entries]
    BY <2>1, <2>2
  <2>4. \A g \in Paths : files'[g].mtime <= writes' /\ before[g].mtime <= writes'
    <3> TAKE g \in Paths
    <3>1. files[g].mtime \in Nat /\ before[g].mtime \in Nat
      BY DEF Entries, NoFile
    <3>2. QED
      BY <2>1, <2>2, <3>1
  <2>5. touched' \in [Paths -> {"no", "new", "old"}]
    BY <2>1
  <2>6. QED
    BY <1>1, <2>2, <2>3, <2>4, <2>5 DEF Write
<1>2. ASSUME NEW f \in Paths, Remove(f) PROVE TypeOK'
  BY <1>2 DEF Remove, Entries, NoFile
<1>3. ASSUME NEW k \in {"python", "shell"}, NEW r \in Requests, Begin(k, r) PROVE TypeOK'
  <2>1. stdout' \in Seq(Chunks) /\ stderr' \in BOOLEAN /\ limit' \in Nat \ {0}
        /\ limit' \in Requests \cup {Default}
    BY <1>3, DefaultAssumption, NoOutput DEF Begin
  <2>2. Empty \in [Paths -> Entries] /\ \A f \in Paths : Empty[f].mtime = 0
    BY DEF Empty, Entries, NoFile
  <2>3. QED
    BY <1>3, <2>1, <2>2 DEF Begin, NoRaw
<1>4. CASE CaptureBefore
  BY <1>4 DEF CaptureBefore, Empty, Entries, NoFile
<1>5. CASE CaptureAfter
  BY <1>5 DEF CaptureAfter, Empty, Entries, NoFile
<1>6. CASE RunnerFails \/ RunnerExecs
  <2>1. stdout' \in Seq(Chunks)
    <3>1. <<"runner_error">> \in Seq(Chunks)
      BY ChunkKinds, OneChunk
    <3>2. QED
      BY <1>6, <3>1 DEF RunnerFails, RunnerExecs
  <2>2. QED
    BY <1>6, <2>1 DEF RunnerFails, RunnerExecs
<1>7. CASE WriteOut
  <2>1. stdout' \in Seq(Chunks)
    <3>1. stdout \in Seq(Chunks) /\ \A c \in {"line", "text"} : Append(stdout, c) \in Seq(Chunks)
      BY ChunkKinds, Appended
    <3>2. stdout' = stdout \/ \E c \in {"line", "text"} : stdout' = Append(stdout, c)
      BY <1>7 DEF WriteOut
    <3>3. QED
      BY <3>1, <3>2
  <2>2. stderr' \in BOOLEAN
    BY <1>7 DEF WriteOut
  <2>3. QED
    BY <1>7, <2>1, <2>2 DEF WriteOut
<1>8. CASE CodeEnds
  <2>1. stdout' \in Seq(Chunks)
    <3>1. \A c \in {"succeeded", "failed", "runner_error"} : Append(stdout, c) \in Seq(Chunks)
      BY ChunkKinds, Appended
    <3>2. QED
      BY <1>8, <3>1 DEF CodeEnds
  <2>2. QED
    BY <1>8, <2>1 DEF CodeEnds
<1>9. CASE Exits \/ Killed \/ DeadlinePasses
  <2>1. raw'.duration \in Int /\ code' \in {"none", "running", "done", "raised", "unreported"}
    BY <1>9, EarlyAssumption DEF Exits, Killed, DeadlinePasses, Waited, TimeoutRaised
  <2>2. \E why : EndProcess(why)
    BY <1>9 DEF Exits, Killed, DeadlinePasses
  <2>3. QED
    BY <2>1, <2>2 DEF EndProcess
<1>10. CASE Map
  BY <1>10 DEF Map
<1>11. CASE UNCHANGED vars
  BY <1>11 DEF vars
<1>12. QED
  BY <1>1, <1>2, <1>3, <1>4, <1>5, <1>6, <1>7, <1>8, <1>9, <1>10, <1>11 DEF Next

-----------------------------------------------------------------------------
(* The output of the command. *)

\* A write to the command's output keeps what it tells, if the new chunk tells the truth.
LEMMA OutputGrows ==
  ASSUME TypeOK, OutputInv, NEW c \in Chunks, stdout' = Append(stdout, c),
         place' = "exec", kind' = kind,
         c \in Payloads => kind = "python",
         c = "succeeded" => code' = "done",
         c = "failed" => code' = "raised",
         c = "runner_error" => code' \in {"none", "unreported"},
         code' = code \/ code = "running"
  PROVE  OutputInv'
<1>1. /\ DOMAIN stdout' = DOMAIN stdout \cup {Len(stdout) + 1}
      /\ stdout'[Len(stdout) + 1] = c
      /\ \A i \in DOMAIN stdout : stdout'[i] = stdout[i]
  BY Appended DEF TypeOK
<1>2. ASSUME NEW i \in DOMAIN stdout'
      PROVE  /\ stdout'[i] \in Payloads => kind' = "python"
             /\ stdout'[i] = "succeeded" => code' = "done"
             /\ stdout'[i] = "failed" => code' = "raised"
             /\ stdout'[i] = "runner_error" => code' \in {"none", "unreported"}
  <2>1. CASE i = Len(stdout) + 1
    BY <1>1, <2>1
  <2>2. CASE i \in DOMAIN stdout
    BY <1>1, <2>2, ChunkKinds DEF OutputInv
  <2>3. QED
    BY <1>1, <1>2, <2>1, <2>2
<1>3. QED
  BY <1>2 DEF OutputInv

\* Every step of a run keeps what its output tells of the code.
LEMMA OutputStep == TypeOK /\ OutputInv /\ [Next]_vars => OutputInv'
<1> SUFFICES ASSUME TypeOK, OutputInv, [Next]_vars PROVE OutputInv'
  OBVIOUS
<1>1. CASE UNCHANGED <<stdout, kind, code>> /\ place' # "before"
  BY <1>1 DEF OutputInv
<1>2. CASE UNCHANGED <<stdout, kind, code, place>>
  BY <1>2 DEF OutputInv
<1>3. ASSUME NEW k \in {"python", "shell"}, NEW r \in Requests, Begin(k, r) PROVE OutputInv'
  BY <1>3, NoOutput DEF Begin, OutputInv
<1>4. CASE CaptureBefore
  BY <1>4, NoOutput DEF CaptureBefore, OutputInv
<1>5. CASE RunnerFails
  <2>1. DOMAIN stdout' = {1} /\ stdout'[1] = "runner_error"
    BY <1>5, OneChunk DEF RunnerFails
  <2>2. QED
    BY <1>5, <2>1, ChunkKinds DEF RunnerFails, Alive, OutputInv
<1>6. CASE RunnerExecs
  BY <1>6, NoOutput DEF RunnerExecs, Alive, OutputInv
<1>7. CASE WriteOut
  <2>1. ASSUME NEW c \in {"line", "text"}, stdout' = Append(stdout, c) PROVE OutputInv'
    BY <1>7, <2>1, ChunkKinds, OutputGrows DEF WriteOut, Alive
  <2>2. CASE UNCHANGED stdout
    BY <1>1, <1>7, <2>2 DEF WriteOut, Alive
  <2>3. QED
    BY <1>7, <2>1, <2>2 DEF WriteOut
<1>8. CASE CodeEnds
  <2>1. ASSUME NEW c \in {"succeeded", "failed", "runner_error"}, stdout' = Append(stdout, c),
               c = "succeeded" => code' = "done", c = "failed" => code' = "raised",
               c = "runner_error" => code' = "unreported"
        PROVE  OutputInv'
    BY <1>8, <2>1, ChunkKinds, OutputGrows DEF CodeEnds, Alive
  <2>2. CASE UNCHANGED stdout /\ code = "running"
    BY <1>8, <2>2, ChunkKinds DEF CodeEnds, Alive, OutputInv
  <2>3. QED
    BY <1>8, <2>1, <2>2 DEF CodeEnds
<1>9. CASE Exits
  <2>1. CASE kind = "shell"
    BY <1>9, <2>1, ChunkKinds DEF Exits, EndProcess, OutputInv
  <2>2. CASE kind # "shell"
    BY <1>1, <1>9, <2>2 DEF Exits, EndProcess
  <2>3. QED
    BY <2>1, <2>2
<1>10. CASE Killed \/ DeadlinePasses
  BY <1>1, <1>10 DEF Killed, DeadlinePasses, EndProcess
<1>11. CASE CaptureAfter \/ Map
  BY <1>1, <1>11 DEF CaptureAfter, Map, commandVars
<1>12. ASSUME NEW f \in Paths, Write(f) \/ Remove(f) PROVE OutputInv'
  BY <1>2, <1>12 DEF Write, Remove, commandVars
<1>13. CASE UNCHANGED vars
  BY <1>2, <1>13 DEF vars, commandVars
<1>14. QED
  BY <1>3, <1>4, <1>5, <1>6, <1>7, <1>8, <1>9, <1>10, <1>11, <1>12, <1>13 DEF Next

-----------------------------------------------------------------------------
(* The end of its process. *)

\* What a wait that returned makes of an exit code.
LEMMA WaitReturned ==
  ASSUME NEW exit \in Int, NEW elapsed \in Int, Waited(exit, elapsed)
  PROVE  /\ raw'.stdout = stdout /\ raw'.duration = elapsed
         /\ raw'.timedOut => exit = -1 \/ elapsed >= 4 * limit
         /\ raw'.timedOut => exit \in {-1, NoExit, 137, 143}
         /\ raw'.exit = 0 => exit = 0
         /\ ~raw'.timedOut => raw'.exit = exit
         /\ exit = -1 => raw'.timedOut
         /\ exit \in {NoExit, 137, 143} /\ elapsed >= 4 * limit /\ stdout = <<>> /\ ~stderr
              => raw'.timedOut
<1> DEFINE timedOut == exit = -1 \/ DeadlineSignalExit(exit, elapsed)
<1>1. raw' = [timedOut |-> timedOut, exit |-> IF timedOut THEN NoExit ELSE exit,
              stdout |-> stdout, duration |-> elapsed]
  BY DEF Waited
<1>2. /\ raw'.timedOut = timedOut /\ raw'.exit = IF timedOut THEN NoExit ELSE exit
      /\ raw'.stdout = stdout /\ raw'.duration = elapsed
  BY <1>1
<1>3. CASE timedOut
  <2>1. raw'.timedOut /\ raw'.exit = NoExit
    BY <1>2, <1>3 DEF DeadlineSignalExit
  <2>2. QED
    BY <1>2, <1>3, <2>1 DEF DeadlineSignalExit, NoExit
<1>4. CASE ~timedOut
  <2>1. ~raw'.timedOut /\ raw'.exit = exit
    BY <1>2, <1>4 DEF DeadlineSignalExit
  <2>2. QED
    BY <1>2, <1>4, <2>1 DEF DeadlineSignalExit
<1>5. QED
  BY <1>3, <1>4

\* A process that exits by itself.
LEMMA ExitsEnd == ASSUME TypeOK, Exits PROVE EndInv'
<1>1. /\ UNCHANGED <<kind, limit, stdout, stderr>>
      /\ ended' = "self"
  BY DEF Exits, EndProcess
<1>2. PICK elapsed \in 0..(4 * limit), exit \in {0, 1} :
        Waited(exit, elapsed) /\ (kind = "shell" /\ exit = 0 => code' = "done")
  BY DEF Exits
<1>3. elapsed \in Int /\ exit \in Int /\ exit # -1
  BY <1>2 DEF TypeOK
<1>4. /\ raw'.stdout = stdout /\ raw'.duration = elapsed
      /\ ~raw'.timedOut
      /\ raw'.exit = 0 => exit = 0
  BY <1>2, <1>3, WaitReturned DEF NoExit
<1>5. QED
  BY <1>1, <1>2, <1>4 DEF EndInv

\* A process that is killed, and one that Modal ends.
LEMMA KilledEnd == ASSUME TypeOK, Killed PROVE EndInv'
<1>1. UNCHANGED <<kind, limit, stdout, stderr>> /\ ended' = "kill"
  BY DEF Killed, EndProcess
<1>2. PICK elapsed \in 0..(4 * limit), exit \in {137, 143} : Waited(exit, elapsed)
  BY DEF Killed
<1>3. elapsed \in Int /\ exit \in Int /\ exit # -1 /\ exit # 0
  BY <1>2 DEF TypeOK
<1>4. /\ raw'.stdout = stdout /\ raw'.duration = elapsed
      /\ raw'.timedOut => elapsed >= 4 * limit
      /\ raw'.exit # 0
  BY <1>2, <1>3, WaitReturned
<1>5. QED
  BY <1>1, <1>4 DEF EndInv

(* The result of a command that Modal ends at its deadline says so in one of Modal's
   ways. *)
LEMMA DeadlineEnd == ASSUME TypeOK, DeadlinePasses PROVE EndInv'
<1>1. UNCHANGED <<kind, limit, stdout, stderr>> /\ ended' = "deadline"
  BY DEF DeadlinePasses, EndProcess
<1>2. PICK elapsed \in (4 * limit - Early)..(4 * limit + 1) :
        \/ TimeoutRaised(elapsed)
        \/ \E exit \in {-1, NoExit, 137, 143} : Waited(exit, elapsed)
  BY DEF DeadlinePasses
<1>3. elapsed \in Int /\ elapsed >= 4 * limit - Early
  BY <1>2, EarlyAssumption DEF TypeOK
<1>4. CASE TimeoutRaised(elapsed)
  <2>1. raw'.stdout \in {stdout, <<>>} /\ raw'.timedOut /\ raw'.duration = elapsed
    BY <1>4 DEF TimeoutRaised
  <2>2. QED
    BY <1>1, <1>3, <2>1 DEF EndInv
<1>5. ASSUME NEW exit \in {-1, NoExit, 137, 143}, Waited(exit, elapsed) PROVE EndInv'
  <2>1. exit \in Int /\ exit # 0
    BY DEF NoExit
  <2>2. /\ raw'.stdout = stdout /\ raw'.duration = elapsed
        /\ raw'.exit # 0
        /\ ~raw'.timedOut => raw'.exit = exit /\ exit # -1
        /\ exit \in {NoExit, 137, 143} /\ elapsed >= 4 * limit /\ stdout = <<>> /\ ~stderr
             => raw'.timedOut
    BY <1>3, <1>5, <2>1, WaitReturned
  <2>3. QED
    BY <1>1, <1>3, <1>5, <2>2 DEF EndInv
<1>6. QED
  BY <1>2, <1>4, <1>5

(* Every step keeps the account of how the command ended. *)
LEMMA EndStep == TypeOK /\ EndInv /\ [Next]_vars => EndInv'
<1> SUFFICES ASSUME TypeOK, EndInv, [Next]_vars PROVE EndInv'
  OBVIOUS
<1>1. CASE place' \in {"before", "exec"}
  BY <1>1 DEF EndInv
<1>2. CASE /\ UNCHANGED <<kind, limit, commandVars>>
           /\ place' \in {"after", "map", "mapped"} => place \in {"after", "map", "mapped"}
  BY <1>2 DEF EndInv, commandVars
<1>3. ASSUME NEW f \in Paths, Write(f) \/ Remove(f) PROVE EndInv'
  BY <1>2, <1>3 DEF Write, Remove
<1>4. ASSUME NEW k \in {"python", "shell"}, NEW r \in Requests, Begin(k, r) PROVE EndInv'
  BY <1>1, <1>4 DEF Begin
<1>5. CASE CaptureBefore \/ RunnerFails \/ RunnerExecs \/ WriteOut \/ CodeEnds
  BY <1>1, <1>5 DEF CaptureBefore, RunnerFails, RunnerExecs, WriteOut, CodeEnds, Alive
<1>6. CASE CaptureAfter \/ Map
  BY <1>2, <1>6 DEF CaptureAfter, Map
<1>7. CASE UNCHANGED vars
  BY <1>2, <1>7 DEF vars
<1>8. QED
  BY <1>3, <1>4, <1>5, <1>6, <1>7, ExitsEnd, KilledEnd, DeadlineEnd DEF Next

-----------------------------------------------------------------------------
(* The manifests. *)

\* A write between the manifests with a new time makes the file newer than the first one,
\* and a removal makes it one that is not reported.
LEMMA ManifestStep == TypeOK /\ ManifestInv /\ [Next]_vars => ManifestInv'
<1> SUFFICES ASSUME TypeOK, ManifestInv, [Next]_vars PROVE ManifestInv'
  OBVIOUS
<1>1. CASE UNCHANGED <<files, touched, place, before, after, captured>>
  BY <1>1 DEF ManifestInv, ToldApart
<1>2. ASSUME NEW f \in Paths, Write(f) PROVE ManifestInv'
  <2>1. PICK s \in Sizes, t \in 1..writes' :
           /\ files' = [files EXCEPT ![f] = [size |-> s, mtime |-> t]]
           /\ touched' = IF place \notin {"exec", "after"} THEN touched
                         ELSE [touched EXCEPT ![f] = IF t = writes' THEN "new" ELSE "old"]
    BY <1>2 DEF Write
  <2>2. UNCHANGED <<place, before, after, captured>>
    BY <1>2 DEF Write
  <2>3. ASSUME place \in {"exec", "after"} PROVE ToldApart(files)'
    <3>1. /\ touched' = [touched EXCEPT ![f] = IF t = writes' THEN "new" ELSE "old"]
          /\ writes' = writes + 1 /\ writes \in Nat
      BY <1>2, <2>1, <2>3 DEF Write, TypeOK
    <3>2. before[f].mtime <= writes /\ before[f].mtime \in Nat
      BY DEF TypeOK, Entries, NoFile
    <3>3. touched'[f] # "no" /\ (touched'[f] = "new" => files'[f].mtime > before[f].mtime)
      BY <2>1, <3>1, <3>2 DEF TypeOK
    <3>4. \A g \in Paths : g # f => files'[g] = files[g] /\ touched'[g] = touched[g]
      BY <2>1, <3>1 DEF TypeOK
    <3>5. ToldApart(files)
      BY <2>3 DEF ManifestInv
    <3>6. QED
      BY <2>2, <3>3, <3>4, <3>5 DEF ToldApart
  <2>4. place \in {"map", "mapped"} => touched' = touched
    BY <2>1
  <2>5. QED
    BY <2>2, <2>3, <2>4 DEF ManifestInv, ToldApart
<1>3. ASSUME NEW f \in Paths, Remove(f) PROVE ManifestInv'
  <2>1. UNCHANGED <<touched, place, before, after, captured>>
    BY <1>3 DEF Remove
  <2>2. files'[f] = NoFile /\ \A g \in Paths : g # f => files'[g] = files[g]
    BY <1>3 DEF Remove, TypeOK
  <2>3. QED
    BY <2>1, <2>2 DEF ManifestInv, ToldApart
<1>4. ASSUME NEW k \in {"python", "shell"}, NEW r \in Requests, Begin(k, r) PROVE ManifestInv'
  BY <1>4 DEF Begin, ManifestInv
<1>5. CASE CaptureBefore
  <2>1. /\ place' = "exec" /\ touched' = [f \in Paths |-> "no"] /\ files' = files
        /\ "after" \notin captured'
        /\ "before" \in captured' => before' = files
        /\ "before" \notin captured' => before' = Empty
    BY <1>5 DEF CaptureBefore
  <2>2. ToldApart(files)'
    BY <2>1 DEF ToldApart
  <2>3. QED
    BY <2>1, <2>2 DEF ManifestInv
<1>6. CASE CaptureAfter
  <2>1. /\ place = "after" /\ place' = "map" /\ UNCHANGED <<before, touched>>
        /\ "before" \in captured' <=> "before" \in captured
        /\ "after" \in captured' => after' = files
    BY <1>6 DEF CaptureAfter, fileVars, ManifestInv
  <2>2. "after" \in captured' => ToldApart(after)'
    BY <2>1 DEF ManifestInv, ToldApart
  <2>3. QED
    BY <2>1, <2>2 DEF ManifestInv, Empty
<1>7. CASE RunnerFails \/ RunnerExecs \/ WriteOut \/ CodeEnds
  BY <1>1, <1>7 DEF RunnerFails, RunnerExecs, WriteOut, CodeEnds, fileVars
<1>8. CASE Exits \/ Killed \/ DeadlinePasses
  <2>1. place' = "after" /\ place = "exec" /\ UNCHANGED <<files, touched, before, after, captured>>
    BY <1>8 DEF Exits, Killed, DeadlinePasses, EndProcess, Alive, fileVars
  <2>2. QED
    BY <2>1 DEF ManifestInv, ToldApart
<1>9. CASE Map
  <2>1. place' = "mapped" /\ place = "map" /\ UNCHANGED <<files, touched, before, after, captured>>
    BY <1>9 DEF Map, fileVars
  <2>2. QED
    BY <2>1 DEF ManifestInv, ToldApart
<1>10. CASE UNCHANGED vars
  BY <1>1, <1>10 DEF vars, fileVars
<1>11. QED
  BY <1>2, <1>3, <1>4, <1>5, <1>6, <1>7, <1>8, <1>9, <1>10 DEF Next

-----------------------------------------------------------------------------
(* The result, and the invariant. *)

\* What a call returns is not touched by what other processes write afterwards.
LEMMA ResultStep ==
  (place = "mapped" => result = Mapped) /\ [Next]_vars => (place = "mapped" => result = Mapped)'
<1> SUFFICES ASSUME place = "mapped" => result = Mapped, [Next]_vars, place' = "mapped"
             PROVE  result' = Mapped'
  OBVIOUS
<1>1. UNCHANGED <<kind, limit, before, after, captured, raw>> => Mapped' = Mapped
  BY DEF Mapped, PythonStatus, ShellStatus, Artifacts, Differs, Response,
         MissingPayloadIsTimeout, BoundaryReached, Tolerance
<1>2. CASE UNCHANGED <<kind, limit, before, after, captured, raw, place, result>>
  BY <1>1, <1>2
<1>3. CASE Map
  BY <1>1, <1>3 DEF Map, commandVars
<1>4. ASSUME NEW f \in Paths, Write(f) \/ Remove(f) PROVE result' = Mapped'
  BY <1>2, <1>4 DEF Write, Remove, commandVars
<1>5. CASE UNCHANGED vars
  BY <1>2, <1>5 DEF vars, commandVars
<1>6. ~(CaptureBefore \/ CaptureAfter \/ Exits \/ Killed \/ DeadlinePasses)
  BY DEF CaptureBefore, CaptureAfter, Exits, Killed, DeadlinePasses, EndProcess
<1>7. ~(RunnerFails \/ RunnerExecs \/ WriteOut \/ CodeEnds)
  BY DEF RunnerFails, RunnerExecs, WriteOut, CodeEnds, Alive
<1>8. ~(\E k \in {"python", "shell"}, r \in Requests : Begin(k, r))
  BY DEF Begin
<1>9. QED
  BY <1>3, <1>4, <1>5, <1>6, <1>7, <1>8 DEF Next

\* The inductive invariant holds from the first call on.
THEOREM PipelineInvariance == Spec => []PipelineInv
<1>1. Init => PipelineInv
  <2> SUFFICES ASSUME Init PROVE PipelineInv
    OBVIOUS
  <2>1. TypeOK
    BY InitType
  <2>2. OutputInv
    BY NoOutput DEF Init, OutputInv
  <2>3. QED
    BY <2>1, <2>2 DEF Init, PipelineInv, EndInv, ManifestInv
<1>2. PipelineInv /\ [Next]_vars => PipelineInv'
  <2> SUFFICES ASSUME PipelineInv, [Next]_vars PROVE PipelineInv'
    OBVIOUS
  <2>1. TypeOK' /\ OutputInv' /\ EndInv' /\ ManifestInv'
    BY TypeStep, OutputStep, EndStep, ManifestStep DEF PipelineInv
  <2>2. (place = "mapped" => result = Mapped)'
    BY ResultStep DEF PipelineInv
  <2>3. QED
    BY <2>1, <2>2 DEF PipelineInv
<1>3. QED
  BY <1>1, <1>2, PTL DEF Spec

-----------------------------------------------------------------------------
(* What the mapping makes of it. *)

\* What parse_python_response can say, and of which output it says that the runner responded.
LEMMA Responses ==
  ASSUME NEW out \in Seq(Chunks)
  PROVE  /\ Response(out) \in {"malformed", "succeeded", "failed", "runner_error"}
         /\ out = <<>> => Response(out) = "malformed"
         /\ Response(out) # "malformed"
              => \E i \in DOMAIN out : out[i] = Response(out)
<1>1. out # <<>> => Len(out) \in DOMAIN out
  OBVIOUS
<1>2. QED
  BY <1>1, ChunkKinds DEF Response

\* The statuses a returned result can have, and why.
LEMMA Statuses ==
  ASSUME PipelineInv, Returned
  PROVE  /\ result.artifacts = Artifacts
         /\ kind = "python" => result.status = PythonStatus /\ PythonStatus # "raised"
         /\ kind = "shell" => result.status = ShellStatus
<1> DEFINE status == IF kind = "python" THEN PythonStatus ELSE ShellStatus
<1>1. result = IF status = "raised" THEN Raised ELSE [status |-> status, artifacts |-> Artifacts]
  BY DEF PipelineInv, Returned, Mapped
<1>2. status # "raised"
  BY <1>1 DEF Returned, Raised
<1>3. result.status = status /\ result.artifacts = Artifacts
  BY <1>1, <1>2
<1>4. QED
  BY <1>2, <1>3

\* The output the backend handed on, and what the runner's response in it says of the code.
LEMMA ResponseTells ==
  ASSUME PipelineInv, place = "mapped"
  PROVE  /\ raw.stdout \in Seq(Chunks)
         /\ Response(raw.stdout) \in {"malformed", "succeeded", "failed", "runner_error"}
         /\ Response(raw.stdout) = "succeeded" => code = "done"
         /\ Response(raw.stdout) = "failed" => code = "raised"
         /\ Response(raw.stdout) = "runner_error" => code \in {"none", "unreported"}
<1>1. raw.stdout \in {stdout, <<>>} /\ stdout \in Seq(Chunks)
  BY DEF PipelineInv, EndInv, TypeOK
<1>2. raw.stdout \in Seq(Chunks)
  BY <1>1, NoOutput
<1>3. ASSUME Response(raw.stdout) # "malformed"
      PROVE  \E i \in DOMAIN stdout : stdout[i] = Response(raw.stdout)
  BY <1>1, <1>2, <1>3, Responses
<1>4. QED
  BY <1>2, <1>3, Responses DEF PipelineInv, OutputInv

\* The tolerance is half a second or less, and the limits are whole seconds.
LEMMA ToleranceBounds == TypeOK => Tolerance \in Nat /\ Tolerance <= 2 /\ Tolerance <= limit
  BY DEF TypeOK, Tolerance

\* A silent command that Modal ends at its deadline is timed out: the shapes Modal has for
\* that are told by _looks_like_modal_deadline_signal_exit and, for Python, with the tolerance.
THEOREM QuietDeadlines == Spec => []QuietDeadlineTimedOut
<1>1. PipelineInv => QuietDeadlineTimedOut
  <2> SUFFICES ASSUME PipelineInv, Returned, ended = "deadline", stdout = <<>>, ~stderr,
                      raw.duration >= 4 * limit \/ (kind = "python" /\ Early <= Tolerance)
               PROVE  result.status = "timed_out"
    BY DEF QuietDeadlineTimedOut
  <2>1. place = "mapped" /\ kind \in {"python", "shell"} /\ raw.duration \in Int /\ limit \in Nat
    BY DEF Returned, PipelineInv, TypeOK
  <2>2. /\ raw.duration >= 4 * limit - Early
        /\ raw.timedOut \/ raw.exit \in {NoExit, 137, 143}
        /\ raw.duration >= 4 * limit => raw.timedOut
        /\ raw.stdout = <<>>
    BY <2>1 DEF PipelineInv, EndInv
  <2>3. CASE raw.timedOut
    BY <2>1, <2>3, Statuses DEF PythonStatus, ShellStatus
  <2>4. CASE ~raw.timedOut
    <3>1. kind = "python" /\ Early <= Tolerance
      BY <2>2, <2>4
    <3>2. raw.duration >= 4 * limit - Tolerance
      BY <2>1, <2>2, <3>1, ToleranceBounds, EarlyAssumption DEF PipelineInv
    <3>3. MissingPayloadIsTimeout
      BY <2>2, <2>4, <3>2 DEF MissingPayloadIsTimeout, BoundaryReached
    <3>4. Response(raw.stdout) = "malformed"
      BY <2>2, NoOutput, Responses
    <3>5. PythonStatus = "timed_out"
      BY <2>4, <3>3, <3>4 DEF PythonStatus
    <3>6. QED
      BY <3>1, <3>5, Statuses
  <2>5. QED
    BY <2>3, <2>4
<1>2. QED
  BY <1>1, PipelineInvariance, PTL

\* A run that is timed_out was ended by its deadline or had used up its time, within the
\* tolerance of _timeout_boundary_reached.
THEOREM TimeoutsAreTimeouts == Spec => []TimedOutSpentItsTime
<1>1. PipelineInv => TimedOutSpentItsTime
  <2> SUFFICES ASSUME PipelineInv, Returned, result.status = "timed_out"
               PROVE  ended = "deadline" \/ raw.duration >= 4 * limit - Tolerance
    BY DEF TimedOutSpentItsTime
  <2>1. place = "mapped" /\ kind \in {"python", "shell"} /\ raw.duration \in Int /\ limit \in Nat
    BY DEF Returned, PipelineInv, TypeOK
  <2>2. CASE raw.timedOut
    <3>1. ended = "deadline" \/ raw.duration >= 4 * limit
      BY <2>1, <2>2 DEF PipelineInv, EndInv
    <3>2. QED
      BY <2>1, <3>1, ToleranceBounds DEF PipelineInv
  <2>3. CASE ~raw.timedOut
    <3>1. kind = "python"
      BY <2>1, <2>3, Statuses DEF ShellStatus
    <3>2. PythonStatus = "timed_out"
      BY <3>1, Statuses
    <3>3. MissingPayloadIsTimeout
      BY <2>1, <2>3, <3>2, ResponseTells DEF PythonStatus
    <3>4. QED
      BY <3>3 DEF MissingPayloadIsTimeout, BoundaryReached
  <2>4. QED
    BY <2>2, <2>3
<1>2. QED
  BY <1>1, PipelineInvariance, PTL

\* No killed or crashed command, and no runner that could not begin, passes for a success.
THEOREM SuccessesEnded == Spec => []SucceededRanToItsEnd
<1>1. PipelineInv => SucceededRanToItsEnd
  <2> SUFFICES ASSUME PipelineInv, Returned, result.status = "succeeded" PROVE code = "done"
    BY DEF SucceededRanToItsEnd
  <2>1. place = "mapped" /\ kind \in {"python", "shell"}
    BY DEF Returned, PipelineInv, TypeOK
  <2>2. CASE kind = "python"
    <3>1. PythonStatus = "succeeded"
      BY <2>2, Statuses
    <3>2. Response(raw.stdout) = "succeeded"
      BY <2>1, <3>1, ResponseTells DEF PythonStatus
    <3>3. QED
      BY <2>1, <3>2, ResponseTells
  <2>3. CASE kind = "shell"
    <3>1. ShellStatus = "succeeded"
      BY <2>3, Statuses
    <3>2. ~raw.timedOut /\ raw.exit = 0
      BY <3>1 DEF ShellStatus
    <3>3. QED
      BY <2>1, <2>3, <3>2 DEF PipelineInv, EndInv
  <2>4. QED
    BY <2>1, <2>2, <2>3
<1>2. QED
  BY <1>1, PipelineInvariance, PTL

\* backend_error is said only of a Python run whose code never began or whose end the
\* runner could not report, and failed only of one whose code raised.
THEOREM BlameRight == Spec => []BlameIsRight
<1>1. PipelineInv => BlameIsRight
  <2> SUFFICES ASSUME PipelineInv, Returned, kind = "python"
               PROVE  /\ result.status = "backend_error" => code \in {"none", "unreported"}
                      /\ result.status = "failed" => code = "raised"
    BY DEF BlameIsRight
  <2>1. place = "mapped" /\ result.status = PythonStatus
    BY Statuses DEF Returned
  <2>2. /\ PythonStatus = "backend_error" => Response(raw.stdout) = "runner_error"
        /\ PythonStatus = "failed" => Response(raw.stdout) = "failed"
    BY <2>1, ResponseTells DEF PythonStatus
  <2>3. QED
    BY <2>1, <2>2, ResponseTells
<1>2. QED
  BY <1>1, PipelineInvariance, PTL

\* A Python run whose process exited in time after the runner's response to its code has
\* the result of that response, if only whole lines come before it and nothing after it.
THEOREM CompletedRunsReturn == Spec => []CompletedRunIsNotLost
<1>1. PipelineInv => CompletedRunIsNotLost
  <2> SUFFICES ASSUME PipelineInv, place = "mapped", kind = "python", ended = "self",
                      stdout # <<>>, stdout[Len(stdout)] \in {"succeeded", "failed"},
                      \A i \in 1..(Len(stdout) - 1) : stdout[i] = "line"
               PROVE  result.status = stdout[Len(stdout)]
    BY DEF CompletedRunIsNotLost
  <2>1. raw.stdout = stdout /\ stdout \in Seq(Chunks) /\ ~raw.timedOut
    BY DEF PipelineInv, EndInv, TypeOK
  <2>2. Len(stdout) > 1 => stdout[Len(stdout) - 1] = "line"
    <3> SUFFICES ASSUME Len(stdout) > 1 PROVE stdout[Len(stdout) - 1] = "line"
      OBVIOUS
    <3>1. Len(stdout) - 1 \in 1..(Len(stdout) - 1)
      BY <2>1
    <3>2. QED
      BY <3>1
  <2>3. Response(raw.stdout) = stdout[Len(stdout)]
    BY <2>1, <2>2, ChunkKinds DEF Response
  <2>4. PythonStatus = stdout[Len(stdout)]
    BY <2>1, <2>3 DEF PythonStatus
  <2>5. result = [status |-> PythonStatus, artifacts |-> Artifacts]
    BY <2>4 DEF PipelineInv, Mapped
  <2>6. QED
    BY <2>4, <2>5
<1>2. QED
  BY <1>1, PipelineInvariance, PTL

\* The paths of the artifacts are those of the files the manifests tell apart.
LEMMA ReportedPaths ==
  ASSUME PipelineInv, Returned
  PROVE  Reported = {f \in Paths : after[f] # NoFile /\ before[f] # after[f]}
<1>1. result.artifacts = Artifacts
  BY Statuses
<1>2. ASSUME NEW a \in Artifacts
      PROVE  a.path \in Paths /\ after[a.path] # NoFile /\ before[a.path] # after[a.path]
  <2>1. PICK f \in Paths : /\ after[f] # NoFile /\ before[f] # after[f]
                           /\ a = [path |-> f, change |-> IF before[f] = NoFile THEN "added" ELSE "modified"]
    BY <1>2 DEF Artifacts, Differs
  <2>2. a.path = f
    BY <2>1
  <2>3. QED
    BY <2>1, <2>2
<1>3. ASSUME NEW f \in Paths, after[f] # NoFile, before[f] # after[f]
      PROVE  \E a \in Artifacts : a.path = f
  <2> DEFINE a == [path |-> f, change |-> IF before[f] = NoFile THEN "added" ELSE "modified"]
  <2>1. a \in Artifacts
    BY <1>3 DEF Artifacts, Differs
  <2>2. a.path = f
    OBVIOUS
  <2>3. QED
    BY <2>1, <2>2
<1>4. QED
  BY <1>1, <1>2, <1>3 DEF Reported

\* Whatever happened to the first manifest, a file last written between the manifests, with
\* a new modification time, is missed only if the second one fails.
THEOREM NoFileMissed == Spec => []NoWrittenFileMissed
<1>1. PipelineInv => NoWrittenFileMissed
  <2> SUFFICES ASSUME PipelineInv, Returned, "after" \in captured,
                      NEW f \in Paths, touched[f] = "new", after[f] # NoFile
               PROVE  f \in Reported
    BY DEF NoWrittenFileMissed
  <2>1. ToldApart(after)
    BY DEF PipelineInv, ManifestInv, Returned
  <2>2. after[f].mtime > before[f].mtime
    BY <2>1 DEF ToldApart
  <2>3. before[f].mtime \in Int
    BY DEF PipelineInv, TypeOK, Entries, NoFile
  <2>4. before[f] # after[f]
    BY <2>2, <2>3
  <2>5. QED
    BY <2>4, ReportedPaths
<1>2. QED
  BY <1>1, PipelineInvariance, PTL

\* When both manifests succeed, every artifact was written between them: no other file of an
\* earlier run comes up again.
THEOREM ArtifactsRight == Spec => []ArtifactsWereJustWritten
<1>1. PipelineInv => ArtifactsWereJustWritten
  <2> SUFFICES ASSUME PipelineInv, Returned, captured = {"before", "after"}, NEW f \in Reported
               PROVE  touched[f] # "no"
    BY DEF ArtifactsWereJustWritten
  <2>1. ToldApart(after)
    BY DEF PipelineInv, ManifestInv, Returned
  <2>2. f \in Paths /\ after[f] # NoFile /\ before[f] # after[f]
    BY ReportedPaths
  <2>3. QED
    BY <2>1, <2>2 DEF ToldApart
<1>2. QED
  BY <1>1, PipelineInvariance, PTL
=============================================================================
