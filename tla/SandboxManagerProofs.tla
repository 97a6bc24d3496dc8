------------------------- MODULE SandboxManagerProofs -------------------------
(***************************************************************************)
(* Proofs about SandboxManager, for any number of processes, session ids   *)
(* and sandboxes.                                                          *)
(*                                                                         *)
(* ManagerInv is inductive under every step, a killed process and a failed *)
(* save included.  The file lock carries it: of the processes that work on *)
(* one session id only one has the lock, so the record it read is the      *)
(* record it writes over.  MethodFrame and MethodResult are all that is    *)
(* needed of the session methods a process calls; the steps of the manager *)
(* then differ only in what they do to the process itself.                 *)
(***************************************************************************)
EXTENDS SandboxManager, SandboxSessionProofs

\* What another process sees of its own call and its own session object.
SameObject(q) ==
  /\ pc'[q] = pc[q] /\ op'[q] = op[q] /\ out'[q] = out[q]
  /\ (closed'[q] <=> closed[q]) /\ (detached'[q] <=> detached[q])
  /\ status'[q] = status[q] /\ sandboxId'[q] = sandboxId[q]
  /\ runCount'[q] = runCount[q] /\ lastRun'[q] = lastRun[q] /\ runId'[q] = runId[q]

\* A sandbox Modal has made stays made, and one that has ended does not run again.
RemoteForward ==
  \A b \in Sandboxes : remote[b] # "absent" => /\ remote'[b] # "absent"
                                               /\ remote'[b] = "running" => remote[b] = "running"

\* A step of a method: it is the process's own object it works on.
MethodFrame(p) ==
  /\ on' = on
  /\ \A q \in Threads \ {p} : SameObject(q)
  /\ RemoteForward
  /\ nextRun' >= nextRun

\* What a step of the method makes of the object, and of the call.
MethodResult(p) ==
  /\ pc'[p] # "lock"
  /\ pc'[p] # "idle" => op'[p] = op[p]
  /\ sandboxId[p] # NoSandbox => sandboxId'[p] = sandboxId[p]
  /\ runCount'[p] >= runCount[p]
  /\ runCount'[p] # runCount[p] => op[p] = "run"
  /\ lastRun'[p] # lastRun[p] => op[p] = "run" /\ Returned(p)'
  /\ pc[p] \in RunPhases
       => runCount'[p] = runCount[p] /\ status'[p] = status[p]
  /\ pc'[p] \in RunPhases /\ pc[p] \notin RunPhases
       => runCount'[p] > runCount[p] /\ status'[p] = "active"
  /\ Returned(p)'
       => /\ op[p] = "run" => pc[p] \in RunPhases
          /\ op[p] = "start" => status'[p] = "active"
          /\ op[p] = "detach" => status'[p] = "detached"
          /\ op[p] = "close" => \/ status'[p] = "terminated"
                                \/ pc[p] = "lock" /\ (~Usable(p) \/ sandboxId[p] = NoSandbox)
                                \/ pc[p] = "finally" /\ out[p] # "raised"
                                     /\ status'[p] = status[p]
  /\ pc'[p] = "finally" => out'[p] = "raised" \/ status'[p] = "terminated"

\* Each process works on its own object.
OwnObjects == Sessions = Threads /\ \A q \in Threads : on[q] = q

\* No step of a method touches the object or the call of another process.
LEMMA MethodFrames ==
  ASSUME IInv, OwnObjects, NEW p \in Threads, SessionStep(p)
  PROVE  MethodFrame(p)
<1> USE OwnObjectAssumption DEF IInv, SessionTypeOK, BackendTypeOK, RemoteStates,
       Statuses, Operations, Critical, ControlInv, CallPlace, OwnObjects, Leave, EndCall,
       Goto, Continue, Fail, objectVars, callVars, backendVars, MethodFrame, SameObject,
       RemoteForward
<1>1. ~CancelWaiting(p)
  BY DEF CancelWaiting
<1>2. CASE EnterRejected(p)
  BY <1>2 DEF EnterRejected, CanEnter
<1>3. CASE EnterUsable(p)
  BY <1>3 DEF EnterUsable, CanEnter, Acquire
<1>4. CASE EnterCloseLocal(p)
  BY <1>4 DEF EnterCloseLocal, CanEnter
<1>5. CASE EnterClose(p)
  BY <1>5 DEF EnterClose, CanEnter, Acquire
<1>6. CASE StartCached(p)
  BY <1>6 DEF StartCached, Started, Activate, NumberRun
<1>7. CASE Hydrate(p)
  BY <1>7 DEF Hydrate, HydrateReturns, Create
<1>8. CASE HydrateFails(p)
  BY <1>8 DEF HydrateFails, HydrateRaises, Create
<1>9. CASE Prepare(p)
  BY <1>9 DEF Prepare, PrepareReturns, Started, Activate, NumberRun
<1>10. CASE PrepareFails(p)
  BY <1>10 DEF PrepareFails, PrepareRaises
<1>11. CASE CaptureBefore(p)
  BY <1>11 DEF CaptureBefore, CallReturns
<1>12. CASE Exec(p)
  BY <1>12 DEF Exec, CallReturns
<1>13. CASE CaptureAfter(p)
  BY <1>13 DEF CaptureAfter, CallReturns
<1>14. CASE Record(p)
  BY <1>14 DEF Record
<1>15. CASE RecordFails(p)
  BY <1>15 DEF RecordFails
<1>16. CASE Fetch(p)
  BY <1>16 DEF Fetch, CallReturns
<1>17. CASE CallFails(p)
  BY <1>17 DEF CallFails, CallRaises
<1>18. CASE Detach(p)
  BY <1>18 DEF Detach, DropHandle
<1>19. CASE DetachFails(p)
  BY <1>19 DEF DetachFails, DropHandle
<1>20. CASE Terminate(p)
  BY <1>20 DEF Terminate, TerminateReturns, Kill
<1>21. CASE TerminateFails(p)
  BY <1>21 DEF TerminateFails, TerminateRaises, Kill
<1>22. CASE Finally(p)
  BY <1>22 DEF Finally, DropHandle
<1>23. CASE FinallyFails(p)
  BY <1>23 DEF FinallyFails, DropHandle
<1> HIDE DEF IInv, SessionTypeOK, BackendTypeOK, RemoteStates, Statuses, Operations,
       Critical, ControlInv, CallPlace, OwnObjects, Leave, EndCall, Goto, Continue, Fail,
       objectVars, callVars, backendVars, MethodFrame, SameObject, RemoteForward
<1>24. QED
  BY <1>1, <1>2, <1>3, <1>4, <1>5, <1>6, <1>7, <1>8, <1>9, <1>10, <1>11, <1>12, <1>13,
     <1>14, <1>15, <1>16, <1>17, <1>18, <1>19, <1>20, <1>21, <1>22, <1>23 DEF SessionStep,
     Enter, Work

\* Every step of a method has one of those results.
LEMMA MethodResults ==
  ASSUME IInv, OwnObjects, NEW p \in Threads, SessionStep(p)
  PROVE  MethodResult(p)
<1> USE OwnObjectAssumption DEF IInv, SessionTypeOK, BackendTypeOK, RemoteStates,
       Statuses, Operations, Critical, ControlInv, CallPlace, OwnObjects, Leave, EndCall,
       Goto, Continue, Fail, objectVars, callVars, backendVars, MethodResult, RunPhases,
       Returned, Usable
<1>1. ~CancelWaiting(p)
  BY DEF CancelWaiting
<1>2. CASE EnterRejected(p)
  BY <1>2 DEF EnterRejected, CanEnter
<1>3. CASE EnterUsable(p)
  BY <1>3 DEF EnterUsable, CanEnter, Acquire
<1>4. CASE EnterCloseLocal(p)
  BY <1>4 DEF EnterCloseLocal, CanEnter
<1>5. CASE EnterClose(p)
  BY <1>5 DEF EnterClose, CanEnter, Acquire
<1>6. CASE StartCached(p)
  BY <1>6 DEF StartCached, Started, Activate, NumberRun
<1>7. CASE Hydrate(p)
  BY <1>7 DEF Hydrate, HydrateReturns, Create
<1>8. CASE HydrateFails(p)
  BY <1>8 DEF HydrateFails, HydrateRaises, Create
<1>9. CASE Prepare(p)
  BY <1>9 DEF Prepare, PrepareReturns, Started, Activate, NumberRun
<1>10. CASE PrepareFails(p)
  BY <1>10 DEF PrepareFails, PrepareRaises
<1>11. CASE CaptureBefore(p)
  BY <1>11 DEF CaptureBefore, CallReturns
<1>12. CASE Exec(p)
  BY <1>12 DEF Exec, CallReturns
<1>13. CASE CaptureAfter(p)
  BY <1>13 DEF CaptureAfter, CallReturns
<1>14. CASE Record(p)
  BY <1>14 DEF Record
<1>15. CASE RecordFails(p)
  BY <1>15 DEF RecordFails
<1>16. CASE Fetch(p)
  BY <1>16 DEF Fetch, CallReturns
<1>17. CASE CallFails(p)
  BY <1>17 DEF CallFails, CallRaises
<1>18. CASE Detach(p)
  BY <1>18 DEF Detach, DropHandle
<1>19. CASE DetachFails(p)
  BY <1>19 DEF DetachFails, DropHandle
<1>20. CASE Terminate(p)
  BY <1>20 DEF Terminate, TerminateReturns, Kill
<1>21. CASE TerminateFails(p)
  BY <1>21 DEF TerminateFails, TerminateRaises, Kill
<1>22. CASE Finally(p)
  BY <1>22 DEF Finally, DropHandle
<1>23. CASE FinallyFails(p)
  BY <1>23 DEF FinallyFails, DropHandle
<1> HIDE DEF IInv, SessionTypeOK, BackendTypeOK, RemoteStates, Statuses, Operations,
       Critical, ControlInv, CallPlace, OwnObjects, Leave, EndCall, Goto, Continue, Fail,
       objectVars, callVars, backendVars, MethodResult, RunPhases, Returned, Usable
<1>24. QED
  BY <1>1, <1>2, <1>3, <1>4, <1>5, <1>6, <1>7, <1>8, <1>9, <1>10, <1>11, <1>12, <1>13,
     <1>14, <1>15, <1>16, <1>17, <1>18, <1>19, <1>20, <1>21, <1>22, <1>23 DEF SessionStep,
     Enter, Work

-----------------------------------------------------------------------------
\* A step of the sessions' specification keeps what their locks protect.
LEMMA SessionInv == IInv /\ [Next]_vars => IInv'
BY TypeStep, ControlStep, HandleStep, NumberStep DEF IInv

\* So does building the object of a process that is in no method, for no sandbox or
\* one Modal has made, and dropping it.
LEMMA BuildInv ==
  ASSUME IInv, OwnObjects, NEW p \in Threads,
         NEW b \in Sandboxes \cup {NoSandbox}, NEW n \in Nat, NEW r \in Nat,
         b # NoSandbox => remote[b] # "absent", r < nextRun,
         Build(p, b, n, r), UNCHANGED <<on, nextRun>>, CallTypeOK',
         pc'[p] \in {"idle", "lock"},
         \A q \in Threads \ {p} : /\ pc'[q] = pc[q] /\ op'[q] = op[q]
                                  /\ seq'[q] = seq[q] /\ runId'[q] = runId[q]
                                  /\ lock'[q] = lock[q] /\ out'[q] = out[q]
  PROVE  IInv'
<1> USE DEF OwnObjects
<1>a. /\ SessionTypeOK /\ BackendTypeOK
      /\ \A q \in Threads : pc'[q] \in Critical => q # p /\ pc[q] \in Critical
  BY DEF IInv, SessionTypeOK, Critical
<1>b. \A s \in Sessions \ {p} :
        /\ sandboxId'[s] = sandboxId[s] /\ status'[s] = status[s]
        /\ (attached'[s] <=> attached[s]) /\ (closed'[s] <=> closed[s])
        /\ (detached'[s] <=> detached[s])
        /\ runCount'[s] = runCount[s] /\ lastRun'[s] = lastRun[s]
  BY <1>a DEF Build, SessionTypeOK, BackendTypeOK
<1>c. /\ sandboxId'[p] = b /\ status'[p] = "created"
      /\ ~attached'[p] /\ ~closed'[p] /\ ~detached'[p]
      /\ runCount'[p] = n /\ lastRun'[p] = r
      /\ remote' = remote
  BY <1>a DEF Build, SessionTypeOK, BackendTypeOK
<1>1. SessionTypeOK'
  <2>1. BackendTypeOK'
    BY <1>a DEF Build, BackendTypeOK
  <2>2. ObjectTypeOK'
    BY <1>a DEF Build, ObjectTypeOK, SessionTypeOK, Statuses
  <2>3. QED
    BY <2>1, <2>2, TypeSplit DEF TypeParts, SessionTypeOK, ObjectTypeOK, CallTypeOK
<1>2. ControlInv'
  BY <1>a, <1>b, <1>c DEF IInv, ControlInv, LockHeld, CallPlace, CloseOutcome, Critical,
     Usable, Cached, RunPhases
<1>3. HandleInv'
  <2>1. HandleHasId'
    BY <1>b, <1>c DEF IInv, HandleInv, HandleHasId
  <2>2. DetachedStatus'
    BY <1>b, <1>c DEF IInv, HandleInv, DetachedStatus
  <2>3. CommandsHaveAttachment'
    BY <1>a, <1>b DEF IInv, HandleInv, CommandsHaveAttachment, Critical, Cached
  <2>4. ReleasedHoldsNothing'
    BY <1>b, <1>c DEF IInv, HandleInv, ReleasedHoldsNothing
  <2>5. TerminatedIsGone'
    BY <1>b, <1>c DEF IInv, HandleInv, TerminatedIsGone
  <2>6. QED
    BY <2>1, <2>2, <2>3, <2>4, <2>5 DEF HandleInv
<1>4. NumberInv'
  BY <1>a, <1>b, <1>c DEF IInv, NumberInv, NumbersInOrder, RunHoldsLatestNumber, RunPhases,
     Critical
<1>5. QED
  BY <1>1, <1>2, <1>3, <1>4 DEF IInv

-----------------------------------------------------------------------------
\* What ManagerInv says of one process.
ProcessOK(p) == PlaceOf(p) /\ FreshOf(p) /\ SnapshotOf(p) /\ OutcomeOf(p)

\* What another process sees of itself during a step.
SameProcess(q) ==
  /\ SameObject(q)
  /\ mpc'[q] = mpc[q] /\ mop'[q] = mop[q] /\ key'[q] = key[q] /\ mout'[q] = mout[q]

(* The parts of the manager's invariant that nearly every step uses. *)
LEMMA ManagerFacts ==
  ASSUME ManagerInv
  PROVE  /\ IInv /\ SessionTypeOK /\ BackendTypeOK /\ ManagerTypeOK /\ OwnObjects
         /\ \A q \in Threads : ProcessOK(q)
BY OwnObjectAssumption DEF ManagerInv, ManagerTypeOK, SessionTypeOK, ProcessInv, ProcessOK,
   PlaceOf, OwnObjects

\* Two processes with the file lock of one session id are one process.
LEMMA OneHolder ==
  ASSUME ManagerInv, NEW p \in Threads, NEW q \in Threads, Holds(p), Holds(q), key[p] = key[q]
  PROVE  p = q
BY DEF ManagerInv, ProcessInv, PlaceOf

\* A process stays as it is described while another one makes a step that frees or
\* takes only its own file lock, writes only with it, and draws only fresh ids.
LEMMA OthersFrame ==
  ASSUME ManagerInv, NEW p \in Threads, on' = on,
         \A q \in Threads \ {p} : SameProcess(q),
         \A k \in Keys : flock[k] \notin {p, NoThread} => flock'[k] = flock[k],
         \A k \in Keys : k # key[p] \/ ~Holds(p) => sess'[k] = sess[k],
         Creating(p)' => \/ Creating(p) /\ key'[p] = key[p]
                         \/ \A q \in Threads : key[q] # key'[p]
  PROVE  \A q \in Threads \ {p} : ProcessOK(q)'
<1> TAKE q \in Threads \ {p}
<1>a. ManagerTypeOK /\ ProcessOK(p) /\ ProcessOK(q) /\ SameProcess(q) /\ NoThread # q
  BY ManagerFacts, NoThreadAssumption
<1>b. /\ Holds(q)' <=> Holds(q)
      /\ Creating(q)' <=> Creating(q)
      /\ Returned(q)' <=> Returned(q)
  BY <1>a DEF SameProcess, SameObject, Holds, Creating, Returned
<1>1. PlaceOf(q)'
  BY <1>a, <1>b DEF ProcessOK, PlaceOf, SameProcess, SameObject, Holds
<1>2. Holds(q) \/ Creating(q) => sess'[key[q]] = sess[key[q]]
  <2>1. CASE Holds(q)
    BY <1>a, <2>1, OneHolder DEF ProcessOK, PlaceOf, Holds
  <2>2. CASE Creating(q)
    <3>1. key[q] \in Keys /\ sess[key[q]].status = "none"
      BY <1>a, <2>2 DEF ProcessOK, PlaceOf, FreshOf, Creating, NoRecord, Stored, ManagerOps
    <3>2. ~(Holds(p) /\ key[p] = key[q])
      BY <1>a, <2>2, <3>1 DEF ProcessOK, SnapshotOf, FreshOf
    <3>3. QED
      BY <3>1, <3>2
  <2>3. QED
    BY <2>1, <2>2
<1>3. FreshOf(q)'
  <2>1. ASSUME Creating(q), NEW u \in Threads, Creating(u)', key'[u] = key[q]
        PROVE  u = q
    <3>1. CASE u = p
      BY <1>a, <2>1, <3>1 DEF ProcessOK, FreshOf
    <3>2. CASE u # p
      <4>1. SameProcess(u)
        BY <3>2
      <4>2. QED
        BY <1>a, <2>1, <4>1 DEF ProcessOK, FreshOf, SameProcess, Creating
    <3>3. QED
      BY <3>1, <3>2
  <2>2. QED
    BY <1>a, <1>b, <1>2, <2>1 DEF ProcessOK, FreshOf, SameProcess, SameObject
<1>4. SnapshotOf(q)'
  BY <1>a, <1>b, <1>2 DEF ProcessOK, SnapshotOf, SameProcess, SameObject
<1>5. OutcomeOf(q)'
  <2>1. Numbered(q)' <=> Numbered(q)
    BY <1>a, <1>b DEF Numbered, SameProcess, SameObject
  <2>2. Numbered(q) \/ Saved(q) => Holds(q)
    BY DEF Numbered, Saved, Holds
  <2>3. QED
    BY <1>a, <1>b, <1>2, <2>1, <2>2 DEF ProcessOK, OutcomeOf, SameProcess, SameObject, Saved,
       Usable
<1>6. QED
  BY <1>1, <1>3, <1>4, <1>5 DEF ProcessOK

\* A process without an operation has nothing.
LEMMA IdleProcess ==
  ASSUME NEW p \in Threads, (on[p] = p)', mpc'[p] = "idle", mop'[p] = "none",
         key'[p] = NoKey, pc'[p] = "idle", lastRun'[p] = 0
  PROVE  ProcessOK(p)'
BY DEF ProcessOK, PlaceOf, FreshOf, SnapshotOf, OutcomeOf, Holds, Creating, Numbered, Saved

\* The records stay what they were while sandboxes only go forward.
LEMMA RecordsKept ==
  ASSUME ManagerInv, sess' = sess, RemoteForward, nextRun' \in Nat, nextRun' >= nextRun
  PROVE  RecordInv' /\ TerminatedRecordIsGone'
<1>1. ManagerTypeOK /\ SessionTypeOK /\ RecordInv /\ TerminatedRecordIsGone
  BY DEF ManagerInv, ManagerTypeOK
<1>2. \A k \in Keys : /\ sess[k].last \in Nat
                      /\ sess[k].sandbox \in Sandboxes \cup {NoSandbox}
  BY <1>1 DEF ManagerTypeOK
<1>3. nextRun \in Nat
  BY <1>1 DEF SessionTypeOK
<1>4. RecordInv'
  BY <1>1, <1>2, <1>3 DEF RecordInv, RemoteForward
<1>5. TerminatedRecordIsGone'
  BY <1>1, <1>2 DEF RecordInv, TerminatedRecordIsGone, RemoteForward
<1>6. QED
  BY <1>4, <1>5

\* A process describes its object truthfully.
LEMMA RecordWritten ==
  ASSUME ManagerInv, NEW p \in Threads, key[p] \in Keys,
         sess' = [sess EXCEPT ![key[p]] = Describe(p)], UNCHANGED <<remote, nextRun>>
  PROVE  RecordInv' /\ TerminatedRecordIsGone'
<1>1. ManagerTypeOK /\ SessionTypeOK /\ RecordInv /\ TerminatedRecordIsGone /\ p \in Sessions
  BY OwnObjectAssumption DEF ManagerInv, ManagerTypeOK
<1>2. /\ Describe(p).status \in Statuses /\ Describe(p).status = status[p]
      /\ Describe(p).sandbox = sandboxId[p] /\ Describe(p).last = lastRun[p]
  BY <1>1 DEF Describe, Stored, SessionTypeOK
<1>3. /\ sandboxId[p] # NoSandbox => remote[sandboxId[p]] # "absent"
      /\ status[p] = "terminated" => /\ sandboxId[p] # NoSandbox
                                     /\ remote[sandboxId[p]] # "running"
      /\ lastRun[p] < nextRun
  BY <1>1 DEF ManagerInv, IInv, HandleInv, HandleHasId, TerminatedIsGone, NumberInv,
     NumbersInOrder
<1>4. /\ sess'[key[p]] = Describe(p)
      /\ \A k \in Keys \ {key[p]} : sess'[k] = sess[k]
  BY <1>1 DEF ManagerTypeOK
<1>5. RecordInv'
  BY <1>1, <1>2, <1>3, <1>4 DEF RecordInv, Statuses
<1>6. TerminatedRecordIsGone'
  BY <1>1, <1>2, <1>3, <1>4 DEF TerminatedRecordIsGone
<1>7. QED
  BY <1>5, <1>6

\* ManagerInv, put together again.
LEMMA ManagerParts ==
  ASSUME ManagerTypeOK', IInv', (\A q \in Threads : ProcessOK(q))',
         RecordInv', TerminatedRecordIsGone'
  PROVE  ManagerInv'
BY DEF ManagerInv, ProcessInv, ProcessOK

-----------------------------------------------------------------------------
(* Steps that end an operation. *)

\* The operation ends, and its record is kept or written; the file lock is free again.
LEMMA FinishStep ==
  ASSUME ManagerInv, NEW p \in Threads, mpc[p] # "idle", pc[p] = "idle",
         flock[key[p]] \in {p, NoThread}, NEW outcome \in {"none", "ok", "raised"},
         Finish(p, outcome), UNCHANGED runs,
         \/ sess' = sess
         \/ Holds(p) /\ sess' = [sess EXCEPT ![key[p]] = Describe(p)]
  PROVE  ManagerInv'
<1> USE DEF OwnObjects
<1>a. /\ IInv /\ SessionTypeOK /\ BackendTypeOK /\ ManagerTypeOK /\ OwnObjects
      /\ ProcessOK(p) /\ key[p] \in Keys
  BY ManagerFacts DEF ProcessOK, PlaceOf
<1>b. on' = on /\ lock' = lock /\ pc' = pc /\ op' = op /\ seq' = seq /\ runId' = runId
      /\ nextRun' = nextRun /\ remote' = remote
  BY DEF Finish, Discard, Build, callVars
<1>1. CallTypeOK'
  BY <1>a, <1>b DEF Finish, CallTypeOK, SessionTypeOK
<1>2. IInv'
  <2>1. Build(p, NoSandbox, 0, 0) /\ 0 < nextRun /\ NoSandbox \in Sandboxes \cup {NoSandbox}
    BY <1>a DEF Finish, Discard, SessionTypeOK
  <2>2. \A q \in Threads \ {p} : out'[q] = out[q]
    BY <1>a DEF Finish, SessionTypeOK
  <2>3. QED
    BY <1>a, <1>b, <1>1, <2>1, <2>2, BuildInv
<1>3. \A q \in Threads \ {p} : SameProcess(q)
  BY <1>a, <1>b DEF Finish, Discard, Build, At, SameProcess, SameObject, ManagerTypeOK,
     SessionTypeOK, BackendTypeOK
<1>4. ~Creating(p)'
  BY <1>a DEF Finish, Creating, ManagerTypeOK
<1>5. \A k \in Keys : flock[k] \notin {p, NoThread} => flock'[k] = flock[k]
  BY <1>a DEF Finish, ManagerTypeOK
<1>6. \A q \in Threads \ {p} : ProcessOK(q)'
  BY <1>a, <1>b, <1>3, <1>4, <1>5, OthersFrame DEF ManagerTypeOK
<1>7. ProcessOK(p)'
  <2>1. lastRun'[p] = 0 /\ mpc'[p] = "idle" /\ mop'[p] = "none" /\ key'[p] = NoKey
    BY <1>a DEF Finish, Discard, Build, At, ManagerTypeOK, SessionTypeOK
  <2>2. QED
    BY <1>a, <1>b, <2>1, IdleProcess
<1>8. ManagerTypeOK'
  <2>1. Describe(p) \in [status : Statuses \cup {"none"},
                         sandbox : Sandboxes \cup {NoSandbox}, count : Nat, last : Nat]
    BY <1>a DEF Describe, Stored, SessionTypeOK, BackendTypeOK
  <2>2. sess' \in [Keys -> [status : Statuses \cup {"none"},
                            sandbox : Sandboxes \cup {NoSandbox}, count : Nat, last : Nat]]
    BY <1>a, <2>1 DEF ManagerTypeOK
  <2>3. QED
    BY <1>a, <1>2, <2>2 DEF Finish, At, ManagerTypeOK, IInv
<1>9. RecordInv' /\ TerminatedRecordIsGone'
  <2>1. RemoteForward /\ nextRun' \in Nat /\ nextRun' >= nextRun
    BY <1>a, <1>b DEF RemoteForward, SessionTypeOK
  <2>2. QED
    BY <1>a, <1>b, <2>1, RecordsKept, RecordWritten
<1>10. QED
  BY <1>2, <1>6, <1>7, <1>8, <1>9, ManagerParts

\* The process is killed with its file lock, its call and its objects.
LEMMA CrashStep ==
  ASSUME ManagerInv, NEW p \in Threads, Crash(p)
  PROVE  ManagerInv'
<1> USE DEF OwnObjects
<1>a. IInv /\ SessionTypeOK /\ BackendTypeOK /\ ManagerTypeOK /\ OwnObjects
  BY ManagerFacts
<1>b. /\ on' = on /\ nextRun' = nextRun /\ remote' = remote
      /\ sess' = sess /\ runs' = runs
  BY DEF Crash, Discard, Build, EndCall
<1>1. CallTypeOK'
  BY <1>a DEF Crash, EndCall, Goto, CallTypeOK, SessionTypeOK
<1>2. IInv'
  <2>1. /\ pc'[p] = "idle"
        /\ \A q \in Threads \ {p} : /\ pc'[q] = pc[q] /\ op'[q] = op[q]
                                    /\ seq'[q] = seq[q] /\ runId'[q] = runId[q]
                                    /\ lock'[q] = lock[q] /\ out'[q] = out[q]
    BY <1>a DEF Crash, EndCall, Goto, SessionTypeOK
  <2>2. Build(p, NoSandbox, 0, 0) /\ 0 < nextRun /\ NoSandbox \in Sandboxes \cup {NoSandbox}
    BY <1>a DEF Crash, Discard, SessionTypeOK
  <2>3. QED
    BY <1>a, <1>b, <1>1, <2>1, <2>2, BuildInv
<1>3. \A q \in Threads \ {p} : SameProcess(q)
  BY <1>a DEF Crash, EndCall, Goto, Discard, Build, At, SameProcess, SameObject,
     ManagerTypeOK, SessionTypeOK, BackendTypeOK
<1>4. \A q \in Threads \ {p} : ProcessOK(q)'
  <2>1. ~Creating(p)'
    BY <1>a DEF Crash, Creating, ManagerTypeOK
  <2>2. \A k \in Keys : flock[k] \notin {p, NoThread} => flock'[k] = flock[k]
    BY <1>a DEF Crash, ManagerTypeOK
  <2>3. QED
    BY <1>b, <1>3, <2>1, <2>2, OthersFrame
<1>5. ProcessOK(p)'
  <2>1. /\ lastRun'[p] = 0 /\ mpc'[p] = "idle" /\ mop'[p] = "none" /\ key'[p] = NoKey
        /\ pc'[p] = "idle"
    BY <1>a DEF Crash, EndCall, Goto, Discard, Build, At, ManagerTypeOK, SessionTypeOK
  <2>2. QED
    BY <1>a, <1>b, <2>1, IdleProcess
<1>6. ManagerTypeOK'
  BY <1>a, <1>b, <1>2 DEF Crash, At, ManagerTypeOK, IInv
<1>7. RecordInv' /\ TerminatedRecordIsGone'
  <2>1. RemoteForward /\ nextRun' \in Nat /\ nextRun' >= nextRun
    BY <1>a, <1>b DEF RemoteForward, SessionTypeOK
  <2>2. QED
    BY <1>b, <2>1, RecordsKept
<1>8. QED
  BY <1>2, <1>4, <1>5, <1>6, <1>7, ManagerParts

-----------------------------------------------------------------------------
(* Steps that ask for an operation. *)

\* What the three requests have in common: the process waits for a file lock.
LEMMA RequestStep ==
  ASSUME ManagerInv, NEW p \in Threads, NEW o \in ManagerOps, NEW k \in Keys,
         Request(p, o, k), UNCHANGED <<on, pc, remote, nextRun>>, IInv',
         \A q \in Threads \ {p} : SameObject(q), lastRun'[p] = lastRun[p],
         o \in {"start", "attach"} => Unused(k)
  PROVE  ManagerInv'
<1> USE DEF OwnObjects
<1>a. IInv /\ SessionTypeOK /\ ManagerTypeOK /\ OwnObjects /\ ProcessOK(p)
  BY ManagerFacts
<1>b. /\ mpc[p] = "idle" /\ mpc'[p] = "flock" /\ mop'[p] = o /\ key'[p] = k
      /\ UNCHANGED <<flock, sess, runs>>
      /\ \A q \in Threads \ {p} : SameProcess(q)
  BY <1>a DEF Request, At, ManagerTypeOK, SameProcess
<1>1. \A q \in Threads \ {p} : ProcessOK(q)'
  BY <1>b, OthersFrame DEF Creating, Unused
<1>2. ProcessOK(p)'
  <2>1. PlaceOf(p)'
    BY <1>a, <1>b DEF PlaceOf, Holds, ProcessOK
  <2>2. FreshOf(p)'
    BY <1>a, <1>b DEF FreshOf, ProcessOK, Creating, Unused, SameProcess
  <2>3. SnapshotOf(p)' /\ OutcomeOf(p)'
    BY <1>b DEF SnapshotOf, OutcomeOf, Holds, Numbered, Saved
  <2>4. QED
    BY <2>1, <2>2, <2>3 DEF ProcessOK
<1>3. ManagerTypeOK'
  BY <1>a, <1>b DEF Request, At, ManagerTypeOK, IInv
<1>4. RecordInv' /\ TerminatedRecordIsGone'
  <2>1. RemoteForward /\ nextRun' \in Nat /\ nextRun' >= nextRun
    BY <1>a DEF RemoteForward, SessionTypeOK
  <2>2. QED
    BY <1>b, <2>1, RecordsKept
<1>5. QED
  BY <1>1, <1>2, <1>3, <1>4, ManagerParts

(* A request is put before the file lock is asked for: nothing stored changes. *)
LEMMA AskStep ==
  ASSUME ManagerInv, NEW p \in Threads, Ask(p)
  PROVE  ManagerInv'
<1> USE DEF OwnObjects
<1>a. IInv /\ SessionTypeOK /\ BackendTypeOK /\ ManagerTypeOK /\ OwnObjects /\ ProcessOK(p)
  BY ManagerFacts
<1>b. PICK k \in Keys : \/ RequestStart(p, k)
                        \/ \E b \in Sandboxes : RequestAttach(p, k, b)
                        \/ \E o \in ManagerOps : RequestStored(p, k, o)
  BY DEF Ask
<1>1. ASSUME NEW o \in ManagerOps, Request(p, o, k), UNCHANGED vars,
             o \in {"start", "attach"} => Unused(k)
      PROVE  ManagerInv'
  <2>1. IInv'
    BY <1>a, <1>1, SessionInv
  <2>2. /\ UNCHANGED <<on, pc, remote, nextRun, lastRun>>
        /\ \A q \in Threads \ {p} : SameObject(q)
    BY <1>1 DEF vars, backendVars, objectVars, callVars, SameObject
  <2>3. QED
    BY <1>1, <2>1, <2>2, RequestStep
<1>2. ASSUME NEW b \in Sandboxes, RequestAttach(p, k, b) PROVE ManagerInv'
  <2>1. mpc[p] = "idle" /\ pc[p] = "idle" /\ lastRun[p] = 0
    BY <1>a, <1>2 DEF RequestAttach, Request, ProcessOK, PlaceOf, FreshOf
  <2>2. CallTypeOK'
    BY <1>a, <1>2 DEF RequestAttach, CallTypeOK, SessionTypeOK, callVars
  <2>3. IInv'
    BY <1>a, <1>2, <2>1, <2>2, BuildInv DEF RequestAttach, SessionTypeOK, callVars
  <2>4. /\ UNCHANGED <<on, pc, remote, nextRun>>
        /\ \A q \in Threads \ {p} : SameObject(q)
        /\ lastRun'[p] = lastRun[p]
    BY <1>a, <1>2, <2>1 DEF RequestAttach, Build, callVars, SameObject, SessionTypeOK,
       BackendTypeOK
  <2>5. QED
    BY <1>2, <2>3, <2>4, RequestStep DEF RequestAttach, ManagerOps
<1>3. QED
  BY <1>1, <1>2, <1>b DEF RequestStart, RequestStored, ManagerOps

-----------------------------------------------------------------------------
(* Steps with the file lock. *)

\* The method calls of the manager are calls of the sessions' specification.
LEMMA CallFrame ==
  ASSUME ManagerInv, NEW p \in Threads, NEW o \in {"start", "detach"}, NEW place,
         Call(p, o, place)
  PROVE  /\ IInv' /\ on' = on /\ remote' = remote /\ nextRun' = nextRun
         /\ pc[p] = "idle" /\ pc'[p] = "lock" /\ op'[p] = o /\ mpc'[p] = place
         /\ \A q \in Threads \ {p} : SameObject(q) /\ mpc'[q] = mpc[q]
         /\ UNCHANGED <<sandboxId, status, closed, detached, runCount, lastRun>>
<1> USE DEF OwnObjects
<1>a. IInv /\ SessionTypeOK /\ ManagerTypeOK /\ OwnObjects
  BY ManagerFacts
<1>1. IInv'
  BY <1>a, SessionInv DEF Call, Next, Operations
<1>2. QED
  BY <1>a, <1>1 DEF Call, Begin, At, Goto, SameObject, SessionTypeOK, ManagerTypeOK,
     backendVars, objectVars

\* With the lock at hand or already held, a step that leaves records and runs alone.
LEMMA LockedStep ==
  ASSUME ManagerInv, NEW p \in Threads, on' = on, IInv', RemoteForward, nextRun' >= nextRun,
         \A q \in Threads \ {p} : SameProcess(q), ProcessOK(p)',
         UNCHANGED <<mop, key, sess, runs>>,
         flock' = flock \/ (Granted(p) /\ TakeFlock(p)),
         mpc' \in [Threads -> {"idle", "flock", "starting", "detaching", "calling",
                               "saverun", "finalize", "releasing", "save"}],
         mout' \in [Threads -> {"none", "ok", "raised"}]
  PROVE  ManagerInv'
<1>a. ManagerTypeOK /\ SessionTypeOK /\ nextRun' \in Nat
  BY ManagerFacts DEF IInv, SessionTypeOK
<1>1. \A q \in Threads \ {p} : ProcessOK(q)'
  <2>1. \A k \in Keys : flock[k] \notin {p, NoThread} => flock'[k] = flock[k]
    BY <1>a DEF Granted, TakeFlock, ManagerTypeOK
  <2>2. QED
    BY <2>1, OthersFrame DEF Creating
<1>2. ManagerTypeOK'
  BY <1>a DEF ManagerTypeOK, TakeFlock, IInv
<1>3. RecordInv' /\ TerminatedRecordIsGone'
  BY <1>a, RecordsKept
<1>4. QED
  BY <1>1, <1>2, <1>3, ManagerParts

(* The file lock is granted: the operation is refused, or a session is built for it. *)
LEMMA EnterStep ==
  ASSUME ManagerInv, NEW p \in Threads, EnterFlock(p)
  PROVE  ManagerInv'
<1> USE DEF OwnObjects
<1>a. /\ IInv /\ SessionTypeOK /\ BackendTypeOK /\ ManagerTypeOK /\ OwnObjects
      /\ ProcessOK(p) /\ RecordInv
  BY ManagerFacts DEF ManagerInv
<1>b. /\ mpc[p] = "flock" /\ flock[key[p]] = NoThread /\ pc[p] = "idle"
      /\ key[p] \in Keys /\ mop[p] \in ManagerOps
  BY <1>a DEF EnterFlock, EnterNew, EnterRefused, EnterStored, Granted, ProcessOK, PlaceOf
<1>1. CASE EnterRefused(p)
  BY <1>b, <1>1, FinishStep DEF EnterRefused
<1>2. CASE EnterNew(p)
  <2>1. /\ IInv' /\ on' = on /\ remote' = remote /\ nextRun' = nextRun
        /\ pc'[p] = "lock" /\ op'[p] = "start" /\ mpc'[p] = "starting"
        /\ \A q \in Threads \ {p} : SameObject(q) /\ mpc'[q] = mpc[q]
        /\ UNCHANGED <<sandboxId, status, closed, detached, runCount, lastRun>>
    BY <1>2, CallFrame DEF EnterNew
  <2>2. /\ UNCHANGED <<mop, key, mout, sess, runs>> /\ Creating(p) /\ flock'[key[p]] = p
        /\ Granted(p) /\ TakeFlock(p)
    BY <1>a, <1>b, <1>2 DEF EnterNew, Creating, TakeFlock, ManagerTypeOK
  <2>3. ProcessOK(p)'
    <3>1. PlaceOf(p)'
      BY <1>a, <1>b, <2>1, <2>2 DEF PlaceOf, Creating, ProcessOK
    <3>2. FreshOf(p)'
      BY <1>a, <2>1, <2>2 DEF FreshOf, Creating, ProcessOK
    <3>3. SnapshotOf(p)' /\ OutcomeOf(p)'
      BY <2>1, <2>2 DEF SnapshotOf, OutcomeOf, Creating, Numbered, Saved, Returned
    <3>4. QED
      BY <3>1, <3>2, <3>3 DEF ProcessOK
  <2>4. /\ RemoteForward /\ nextRun' >= nextRun
        /\ \A q \in Threads \ {p} : SameProcess(q)
        /\ mpc' \in [Threads -> {"idle", "flock", "starting", "detaching", "calling",
                                 "saverun", "finalize", "releasing", "save"}]
        /\ mout' \in [Threads -> {"none", "ok", "raised"}]
    BY <1>a, <1>2, <2>1, <2>2 DEF RemoteForward, SameProcess, SessionTypeOK, ManagerTypeOK,
       EnterNew, Call, At
  <2>5. QED
    BY <2>1, <2>2, <2>3, <2>4, LockedStep
<1>3. CASE EnterStored(p)
  <2> DEFINE info == sess[key[p]]
  <2>1. /\ Attachable(key[p]) /\ ~Creating(p) /\ mop[p] \in {"run", "artifact", "terminate"}
        /\ Build(p, info.sandbox, info.count, info.last)
        /\ UNCHANGED <<lock, on, seq, runId, nextRun, mop, key, mout, sess, runs>>
        /\ Granted(p) /\ TakeFlock(p) /\ remote' = remote
    BY <1>a, <1>b, <1>3 DEF EnterStored, Creating, Build
  <2>2. /\ info.sandbox \in Sandboxes /\ info.count \in Nat /\ info.last \in Nat
        /\ remote[info.sandbox] # "absent" /\ info.last < nextRun
        /\ info.status \notin {"none", "terminated"}
    BY <1>a, <1>b, <2>1 DEF Attachable, ManagerTypeOK, RecordInv
  <2>3. /\ pc'[p] = "lock" /\ op'[p] = MethodOf(mop[p]) /\ out'[p] = "none"
        /\ mpc'[p] = "calling" /\ flock'[key[p]] = p
        /\ sandboxId'[p] = info.sandbox /\ runCount'[p] = info.count /\ lastRun'[p] = info.last
        /\ ~closed'[p] /\ ~detached'[p]
    BY <1>a, <1>b, <1>3 DEF EnterStored, Goto, At, TakeFlock, Build, SessionTypeOK,
       BackendTypeOK, ManagerTypeOK
  <2>4. /\ \A q \in Threads \ {p} : SameProcess(q)
        /\ \A q \in Threads \ {p} : pc'[q] = pc[q] /\ op'[q] = op[q] /\ out'[q] = out[q]
    BY <1>a, <1>3, <2>1 DEF EnterStored, Goto, At, Build, SameProcess, SameObject,
       SessionTypeOK, BackendTypeOK, ManagerTypeOK
  <2>5. CallTypeOK'
    BY <1>a, <1>3, <2>1 DEF EnterStored, Goto, CallTypeOK, SessionTypeOK, MethodOf, Operations
  <2>6. IInv'
    BY <1>a, <2>1, <2>2, <2>3, <2>4, <2>5, BuildInv
  <2>7. ProcessOK(p)'
    <3>1. PlaceOf(p)'
      BY <1>a, <1>b, <2>1, <2>3 DEF PlaceOf
    <3>2. FreshOf(p)'
      BY <2>1, <2>3 DEF FreshOf, Creating
    <3>3. SnapshotOf(p)'
      BY <2>1, <2>2, <2>3, NoSandboxAssumption DEF SnapshotOf
    <3>4. OutcomeOf(p)'
      BY <2>3 DEF OutcomeOf, Numbered, Saved, Returned, RunPhases, Usable
    <3>5. QED
      BY <3>1, <3>2, <3>3, <3>4 DEF ProcessOK
  <2>8. /\ RemoteForward /\ nextRun' >= nextRun
        /\ mpc' \in [Threads -> {"idle", "flock", "starting", "detaching", "calling",
                                 "saverun", "finalize", "releasing", "save"}]
        /\ mout' \in [Threads -> {"none", "ok", "raised"}]
    BY <1>a, <1>3, <2>1 DEF EnterStored, At, RemoteForward, SessionTypeOK, ManagerTypeOK
  <2>9. QED
    BY <2>1, <2>4, <2>6, <2>7, <2>8, LockedStep
<1>4. QED
  BY <1>1, <1>2, <1>3 DEF EnterFlock

-----------------------------------------------------------------------------
(* Steps of a process with the file lock. *)

\* A step of the session method a process has called.
LEMMA DriveStep ==
  ASSUME ManagerInv, NEW p \in Threads, Drive(p)
  PROVE  ManagerInv'
<1> USE DEF OwnObjects
<1>a. /\ IInv /\ SessionTypeOK /\ BackendTypeOK /\ ManagerTypeOK /\ OwnObjects /\ ProcessOK(p)
      /\ Holds(p) /\ key[p] \in Keys
      /\ UNCHANGED <<mpc, mop, key, mout, flock, sess, runs>>
      /\ mpc[p] \in {"starting", "detaching", "calling", "releasing"}
  BY ManagerFacts DEF Drive, managerVars, ProcessOK, PlaceOf, Holds
<1>b. IInv' /\ MethodFrame(p) /\ MethodResult(p)
  BY <1>a, SessionInv, MethodFrames, MethodResults DEF Drive, Next
<1>c. runCount'[p] \in Nat /\ runCount[p] \in Nat /\ sess[key[p]].count \in Nat
  BY <1>a, <1>b DEF IInv, SessionTypeOK, ManagerTypeOK
<1>d. pc[p] # "idle"
  BY <1>a DEF Drive, SessionStep, CancelWaiting, Enter, EnterRejected, EnterUsable,
     EnterCloseLocal, EnterClose, CanEnter, Work, StartCached, Hydrate, HydrateFails,
     Prepare, PrepareFails, CaptureBefore, Exec, CaptureAfter, Record, RecordFails, Fetch,
     CallFails, Detach, DetachFails, Terminate, TerminateFails, Finally, FinallyFails
<1>1. PlaceOf(p)'
  BY <1>a, <1>b, <1>d DEF ProcessOK, PlaceOf, Holds, MethodFrame, MethodResult
<1>2. FreshOf(p)'
  <2>1. Creating(p) => op[p] # "run"
    BY <1>a, <1>d DEF ProcessOK, PlaceOf, Creating
  <2>2. QED
    BY <1>a, <1>b, <2>1 DEF ProcessOK, FreshOf, Creating, MethodResult
<1>3. SnapshotOf(p)'
  <2>1. op[p] = "run" => mop[p] = "run"
    BY <1>a, <1>d DEF ProcessOK, PlaceOf, MethodOf
  <2>2. QED
    BY <1>a, <1>b, <1>c, <2>1 DEF ProcessOK, SnapshotOf, Holds, Creating, MethodResult
<1>4. OutcomeOf(p)'
  <2>1. ASSUME mpc[p] = "calling", mop[p] = "run", (pc[p] \in RunPhases \/ Returned(p))'
        PROVE  status'[p] = "active" /\ sess[key[p]].count < runCount'[p]
    <3>1. op[p] = "run" /\ sess[key[p]].count <= runCount[p]
      BY <1>a, <1>d, <2>1 DEF ProcessOK, PlaceOf, SnapshotOf, Creating, MethodOf
    <3>2. CASE pc[p] \in RunPhases
      BY <1>a, <1>b, <2>1, <3>2 DEF ProcessOK, OutcomeOf, Numbered, MethodResult
    <3>3. CASE pc[p] \notin RunPhases
      BY <1>b, <1>c, <2>1, <3>1, <3>3 DEF MethodResult
    <3>4. QED
      BY <3>2, <3>3
  <2>2. Numbered(p)' => status'[p] = "active" /\ sess'[key'[p]].count < runCount'[p]
    BY <1>a, <2>1 DEF Numbered
  <2>3. mpc[p] = "starting" /\ Returned(p)' => status'[p] = "active"
    BY <1>a, <1>b, <1>d DEF ProcessOK, PlaceOf, MethodResult
  <2>4. mpc[p] \in {"detaching", "releasing"} /\ Returned(p)' => status'[p] = "detached"
    BY <1>a, <1>b, <1>d DEF ProcessOK, PlaceOf, MethodResult
  <2>5. ASSUME mpc[p] = "calling", mop[p] = "terminate"
        PROVE  /\ pc'[p] # "lock"
               /\ pc'[p] = "finally" => out'[p] = "raised" \/ status'[p] = "terminated"
               /\ Returned(p)' => status'[p] = "terminated"
    <3>1. /\ op[p] = "close" /\ sandboxId[p] # NoSandbox
          /\ pc[p] = "lock" => Usable(p)
          /\ pc[p] = "finally" => out[p] = "raised" \/ status[p] = "terminated"
      BY <1>a, <1>d, <2>5 DEF ProcessOK, PlaceOf, SnapshotOf, OutcomeOf, Creating, MethodOf
    <3>2. QED
      BY <1>b, <3>1 DEF MethodResult
  <2>6. QED
    BY <1>a, <2>2, <2>3, <2>4, <2>5 DEF OutcomeOf, Saved
<1>5. ProcessOK(p)'
  BY <1>1, <1>2, <1>3, <1>4 DEF ProcessOK
<1>6. \A q \in Threads \ {p} : SameProcess(q)
  BY <1>a, <1>b DEF MethodFrame, SameProcess
<1>7. QED
  BY <1>a, <1>b, <1>5, <1>6, LockedStep DEF MethodFrame, ManagerTypeOK

\* A step of the manager's handler that calls nothing and ends nothing.
LEMMA HandlerStep ==
  ASSUME ManagerInv, NEW p \in Threads, Holds(p), pc[p] = "idle",
         \/ ReadyToSave(p) \/ RunReturned(p) \/ CallEnded(p)
  PROVE  ManagerInv'
<1> USE DEF OwnObjects
<1>a. /\ IInv /\ SessionTypeOK /\ ManagerTypeOK /\ OwnObjects /\ ProcessOK(p)
      /\ UNCHANGED <<vars, mop, key, flock, sess, runs>>
  BY ManagerFacts DEF ReadyToSave, RunReturned, CallEnded
<1>b. /\ UNCHANGED <<on, remote, nextRun, pc, op, out, sandboxId, status, closed, detached,
                     runCount, lastRun, runId>>
      /\ IInv'
  BY <1>a, SessionInv DEF vars, backendVars, objectVars, callVars
<1>1. ProcessOK(p)'
  <2>1. CASE ReadyToSave(p)
    BY <1>a, <1>b, <2>1 DEF ReadyToSave, Ended, At, ManagerTypeOK, ProcessOK, PlaceOf, FreshOf,
       SnapshotOf, OutcomeOf, Numbered, Saved, Returned, Holds, Creating
  <2>2. CASE RunReturned(p)
    BY <1>a, <1>b, <2>2 DEF RunReturned, Ended, At, ManagerTypeOK, ProcessOK, PlaceOf, FreshOf,
       SnapshotOf, OutcomeOf, Numbered, Saved, Returned, Holds, Creating
  <2>3. CASE CallEnded(p)
    BY <1>a, <1>b, <2>3 DEF CallEnded, At, ManagerTypeOK, SessionTypeOK, ProcessOK, PlaceOf,
       FreshOf, SnapshotOf, OutcomeOf, Numbered, Saved, Returned, Holds, Creating
  <2>4. QED
    BY <2>1, <2>2, <2>3
<1>2. \A q \in Threads \ {p} : mpc'[q] = mpc[q] /\ mout'[q] = mout[q]
  BY <1>a DEF ReadyToSave, RunReturned, CallEnded, At, ManagerTypeOK
<1>3. \A q \in Threads \ {p} : SameProcess(q)
  BY <1>a, <1>b, <1>2 DEF SameProcess, SameObject
<1>4. RemoteForward /\ nextRun' >= nextRun
  BY <1>a, <1>b DEF RemoteForward, SessionTypeOK
<1>5. /\ mpc' \in [Threads -> {"idle", "flock", "starting", "detaching", "calling",
                               "saverun", "finalize", "releasing", "save"}]
      /\ mout' \in [Threads -> {"none", "ok", "raised"}]
  BY <1>a DEF ReadyToSave, RunReturned, CallEnded, At, ManagerTypeOK, SessionTypeOK
<1>6. QED
  BY <1>a, <1>b, <1>1, <1>3, <1>4, <1>5, LockedStep

\* The run is stored, or saving it fails.
LEMMA SaveRunStep ==
  ASSUME ManagerInv, NEW p \in Threads, mpc[p] = "saverun", At(p, "finalize"),
         NEW outcome \in {"ok", "raised"}, mout' = [mout EXCEPT ![p] = outcome],
         UNCHANGED <<vars, mop, key, flock, sess>>,
         runs' \in {runs, runs \cup {[id |-> lastRun[p], key |-> key[p], seq |-> runCount[p]]}}
  PROVE  ManagerInv'
<1> USE DEF OwnObjects
<1>a. /\ IInv /\ SessionTypeOK /\ ManagerTypeOK /\ OwnObjects /\ ProcessOK(p)
      /\ key[p] \in Keys /\ pc[p] = "idle"
  BY ManagerFacts DEF ProcessOK, PlaceOf
<1>b. /\ UNCHANGED <<on, remote, nextRun, pc, op, out, sandboxId, status, closed, detached,
                     runCount, lastRun, runId>>
      /\ IInv'
      /\ mpc'[p] = "finalize" /\ mout'[p] = outcome
  BY <1>a, SessionInv DEF vars, backendVars, objectVars, callVars, At, ManagerTypeOK
<1>1. ProcessOK(p)'
  BY <1>a, <1>b DEF ProcessOK, PlaceOf, FreshOf, SnapshotOf, OutcomeOf, Numbered, Saved,
     Returned, Holds, Creating
<1>2. \A q \in Threads \ {p} : ProcessOK(q)'
  <2>1. \A q \in Threads \ {p} : SameProcess(q)
    BY <1>a, <1>b DEF At, SameProcess, SameObject, ManagerTypeOK
  <2>2. QED
    BY <1>b, <2>1, OthersFrame DEF Creating
<1>3. ManagerTypeOK'
  BY <1>a, <1>b DEF At, ManagerTypeOK, SessionTypeOK, IInv
<1>4. RecordInv' /\ TerminatedRecordIsGone'
  <2>1. RemoteForward /\ nextRun' \in Nat /\ nextRun' >= nextRun
    BY <1>a, <1>b DEF RemoteForward, SessionTypeOK
  <2>2. QED
    BY <2>1, RecordsKept
<1>5. QED
  BY <1>1, <1>2, <1>3, <1>4, <1>b, ManagerParts

\* The started session of a creation is detached.
LEMMA DetachNewStep ==
  ASSUME ManagerInv, NEW p \in Threads, DetachNew(p)
  PROVE  ManagerInv'
<1> USE DEF OwnObjects
<1>a. /\ IInv /\ SessionTypeOK /\ ManagerTypeOK /\ OwnObjects /\ ProcessOK(p)
      /\ UNCHANGED <<mop, key, mout, flock, sess, runs>> /\ mpc[p] = "starting"
  BY ManagerFacts DEF DetachNew
<1>b. /\ IInv' /\ on' = on /\ remote' = remote /\ nextRun' = nextRun
      /\ pc'[p] = "lock" /\ op'[p] = "detach" /\ mpc'[p] = "detaching"
      /\ \A q \in Threads \ {p} : SameObject(q) /\ mpc'[q] = mpc[q]
      /\ UNCHANGED <<sandboxId, status, closed, detached, runCount, lastRun>>
  BY CallFrame DEF DetachNew
<1>1. ProcessOK(p)'
  BY <1>a, <1>b DEF ProcessOK, PlaceOf, FreshOf, SnapshotOf, OutcomeOf, Numbered, Saved,
     Returned, Holds, Creating
<1>2. /\ \A q \in Threads \ {p} : SameProcess(q)
      /\ RemoteForward /\ nextRun' >= nextRun
      /\ mpc' \in [Threads -> {"idle", "flock", "starting", "detaching", "calling",
                               "saverun", "finalize", "releasing", "save"}]
      /\ mout' \in [Threads -> {"none", "ok", "raised"}]
  BY <1>a, <1>b DEF DetachNew, Call, At, SameProcess, RemoteForward, ManagerTypeOK,
     SessionTypeOK
<1>3. QED
  BY <1>a, <1>b, <1>1, <1>2, LockedStep

\* The record of an active session is saved before the session is detached.
LEMMA FinalizeStep ==
  ASSUME ManagerInv, NEW p \in Threads, FinalizeActive(p)
  PROVE  ManagerInv'
<1> USE DEF OwnObjects
<1>a. /\ IInv /\ SessionTypeOK /\ BackendTypeOK /\ ManagerTypeOK /\ OwnObjects /\ ProcessOK(p)
      /\ UNCHANGED <<mop, key, mout, flock, runs>> /\ mpc[p] = "finalize"
      /\ sess' = [sess EXCEPT ![key[p]] = Describe(p)] /\ status[p] = "active"
      /\ key[p] \in Keys /\ Holds(p)
  BY ManagerFacts DEF FinalizeActive, ProcessOK, PlaceOf, Holds
<1>b. /\ IInv' /\ on' = on /\ remote' = remote /\ nextRun' = nextRun
      /\ pc'[p] = "lock" /\ op'[p] = "detach" /\ mpc'[p] = "releasing"
      /\ \A q \in Threads \ {p} : SameObject(q) /\ mpc'[q] = mpc[q]
      /\ UNCHANGED <<sandboxId, status, closed, detached, runCount, lastRun>>
  BY CallFrame DEF FinalizeActive
<1>c. /\ sess'[key[p]].status = "active" /\ sess'[key[p]].sandbox = sandboxId[p]
      /\ sess'[key[p]].count = runCount[p] /\ runCount[p] \in Nat
      /\ sess'[key[p]].last = lastRun[p]
  BY <1>a DEF Describe, Stored, ManagerTypeOK, SessionTypeOK
<1>1. ProcessOK(p)'
  <2>1. PlaceOf(p)' /\ FreshOf(p)' /\ OutcomeOf(p)'
    BY <1>a, <1>b DEF ProcessOK, PlaceOf, FreshOf, OutcomeOf, Numbered, Saved,
       Returned, Holds, Creating
  <2>2. SnapshotOf(p)'
    BY <1>a, <1>b, <1>c DEF ProcessOK, SnapshotOf, Holds, Creating
  <2>3. QED
    BY <2>1, <2>2 DEF ProcessOK
<1>2. \A q \in Threads \ {p} : ProcessOK(q)'
  <2>1. \A q \in Threads \ {p} : SameProcess(q)
    BY <1>a, <1>b DEF SameProcess
  <2>2. QED
    BY <1>a, <1>b, <2>1, OthersFrame DEF Creating, ManagerTypeOK
<1>3. ManagerTypeOK'
  <2>1. Describe(p) \in [status : Statuses \cup {"none"},
                         sandbox : Sandboxes \cup {NoSandbox}, count : Nat, last : Nat]
    BY <1>a DEF Describe, Stored, SessionTypeOK, BackendTypeOK
  <2>2. sess' \in [Keys -> [status : Statuses \cup {"none"},
                            sandbox : Sandboxes \cup {NoSandbox}, count : Nat, last : Nat]]
    BY <1>a, <2>1 DEF ManagerTypeOK
  <2>3. QED
    BY <1>a, <1>b, <2>2 DEF FinalizeActive, Call, At, ManagerTypeOK, IInv
<1>4. RecordInv' /\ TerminatedRecordIsGone'
  BY <1>a, <1>b, RecordWritten
<1>5. QED
  BY <1>1, <1>2, <1>3, <1>4, <1>b, ManagerParts

\* What a process with the file lock does keeps the invariant.
LEMMA OperateStep ==
  ASSUME ManagerInv, NEW p \in Threads, Operate(p)
  PROVE  ManagerInv'
<1>a. ManagerTypeOK /\ SessionTypeOK /\ ProcessOK(p)
  BY ManagerFacts
<1>b. Holds(p) => mpc[p] # "idle" /\ flock[key[p]] \in {p, NoThread}
  BY <1>a DEF ProcessOK, PlaceOf, Holds
<1>1. CASE Drive(p)
  BY <1>1, DriveStep
<1>2. CASE DetachNew(p)
  BY <1>2, DetachNewStep
<1>3. CASE ReadyToSave(p) \/ RunReturned(p) \/ CallEnded(p)
  BY <1>3, HandlerStep DEF ReadyToSave, RunReturned, CallEnded, Ended, Holds
<1>4. CASE NotStored(p)
  BY <1>b, <1>4, FinishStep DEF NotStored, Ended, Holds
<1>5. CASE Save(p)
  <2>1. pc[p] = "idle" /\ mout[p] \in {"none", "ok", "raised"} /\ Holds(p)
    BY <1>a, <1>5 DEF Save, ProcessOK, PlaceOf, ManagerTypeOK, Holds
  <2>2. QED
    BY <1>b, <1>5, <2>1, FinishStep DEF Save
<1>6. CASE SaveRun(p)
  BY <1>6, SaveRunStep DEF SaveRun
<1>7. CASE FinalizeInactive(p)
  <2>1. pc[p] = "idle" /\ mout[p] \in {"none", "ok", "raised"} /\ Holds(p)
    BY <1>a, <1>7 DEF FinalizeInactive, ProcessOK, PlaceOf, ManagerTypeOK, Holds
  <2>2. QED
    BY <1>b, <1>7, <2>1, FinishStep DEF FinalizeInactive
<1>8. CASE FinalizeActive(p)
  BY <1>8, FinalizeStep
<1>9. CASE ReleaseFails(p)
  BY <1>b, <1>9, FinishStep DEF ReleaseFails, Ended, Holds
<1>10. QED
  BY <1>1, <1>2, <1>3, <1>4, <1>5, <1>6, <1>7, <1>8, <1>9 DEF Operate

\* A save that raises, a run that is not stored, a record that cannot be read.
LEMMA StoreFailsStep ==
  ASSUME ManagerInv, NEW p \in Threads, StoreFails(p)
  PROVE  ManagerInv'
<1>a. ProcessOK(p)
  BY ManagerFacts
<1>1. CASE mpc[p] = "saverun"
  BY <1>1, SaveRunStep DEF StoreFails, Granted
<1>2. CASE mpc[p] # "saverun"
  <2>1. /\ mpc[p] # "idle" /\ pc[p] = "idle" /\ flock[key[p]] \in {p, NoThread}
        /\ Finish(p, "raised") /\ UNCHANGED <<sess, runs>>
    BY <1>a, <1>2 DEF StoreFails, Granted, ProcessOK, PlaceOf, Holds
  <2>2. QED
    BY <2>1, FinishStep
<1>3. QED
  BY <1>1, <1>2

\* A sandbox reaches its timeout, or nothing happens.
LEMMA QuietStep ==
  ASSUME ManagerInv, UNCHANGED managerVars, SandboxExpires \/ UNCHANGED vars
  PROVE  ManagerInv'
<1>a. IInv /\ SessionTypeOK /\ BackendTypeOK /\ ManagerTypeOK /\ \A q \in Threads : ProcessOK(q)
  BY ManagerFacts
<1>b. /\ UNCHANGED <<mpc, mop, key, mout, flock, sess, runs>>
      /\ UNCHANGED <<on, nextRun, pc, op, out, sandboxId, status, closed, detached, runCount,
                     lastRun>>
  BY DEF managerVars, vars, backendVars, objectVars, callVars, SandboxExpires, Expire
<1>1. IInv'
  BY <1>a, SessionInv DEF Next
<1>2. RemoteForward
  BY <1>a DEF RemoteForward, SandboxExpires, Expire, vars, backendVars, BackendTypeOK
<1>3. \A q \in Threads : ProcessOK(q)'
  BY <1>a, <1>b DEF ProcessOK, PlaceOf, FreshOf, SnapshotOf, OutcomeOf, Numbered, Saved,
     Returned, Holds, Creating, Usable
<1>4. ManagerTypeOK'
  BY <1>a, <1>b, <1>1 DEF ManagerTypeOK, IInv
<1>5. RecordInv' /\ TerminatedRecordIsGone'
  BY <1>a, <1>b, <1>2, RecordsKept DEF SessionTypeOK
<1>6. QED
  BY <1>1, <1>3, <1>4, <1>5, ManagerParts

-----------------------------------------------------------------------------
(* The invariant, and what follows from it. *)

\* At the start nobody has asked for anything and nothing is stored.
LEMMA ManagerInitInv == ManagerInit => ManagerInv
<1> SUFFICES ASSUME ManagerInit PROVE ManagerInv
  OBVIOUS
<1>1. IInv
  BY InitInv DEF ManagerInit
<1>2. ManagerTypeOK
  BY <1>1 DEF ManagerInit, ManagerTypeOK, NoRecord, Stored, IInv
<1>3. ProcessInv
  BY OwnObjectAssumption DEF ManagerInit, Init, ProcessInv, PlaceOf, FreshOf, SnapshotOf, OutcomeOf,
     Holds, Creating, Numbered, Saved
<1>4. RecordInv /\ TerminatedRecordIsGone
  BY DEF ManagerInit, Init, RecordInv, TerminatedRecordIsGone, NoRecord, Stored
<1>5. QED
  BY <1>1, <1>2, <1>3, <1>4 DEF ManagerInv

\* Every step keeps the invariant.
LEMMA ManagerStep == ManagerInv /\ [FaultyNext]_mvars => ManagerInv'
<1> SUFFICES ASSUME ManagerInv, [FaultyNext]_mvars PROVE ManagerInv'
  OBVIOUS
<1>1. ASSUME NEW p \in Threads, Ask(p) \/ EnterFlock(p) \/ Operate(p) PROVE ManagerInv'
  BY <1>1, AskStep, EnterStep, OperateStep
<1>2. ASSUME NEW p \in Threads, Crash(p) \/ StoreFails(p) PROVE ManagerInv'
  BY <1>2, CrashStep, StoreFailsStep
<1>3. CASE SandboxExpires /\ UNCHANGED managerVars
  BY <1>3, QuietStep
<1>4. CASE UNCHANGED mvars
  BY <1>4, QuietStep DEF mvars
<1>5. QED
  BY <1>1, <1>2, <1>3, <1>4 DEF FaultyNext, CrashNext, ManagerNext

\* Whatever processes do at once, and whichever of them are killed or cannot store what
\* they did, a process with a session's file lock knows all there is in its record.
THEOREM ManagerInvariance == FaultySpec => []ManagerInv
BY ManagerInitInv, ManagerStep, PTL DEF FaultySpec

\* A record that says "terminated" is of a sandbox that is gone: the process wrote it
\* after Modal had answered, or after nothing was left to end.
THEOREM TerminatedRecordsAreGone == FaultySpec => []TerminatedRecordIsGone
<1>1. ManagerInv => TerminatedRecordIsGone
  BY DEF ManagerInv
<1>2. QED
  BY ManagerInvariance, <1>1, PTL

\* Only the holder of a session's file lock writes its record, from its object.
LEMMA RecordChange ==
  ASSUME ManagerInv, [FaultyNext]_mvars, NEW k \in Keys, sess'[k] # sess[k]
  PROVE  \E p \in Threads : /\ key[p] = k /\ Holds(p)
                            /\ Save(p) \/ FinalizeActive(p)
                            /\ sess' = [sess EXCEPT ![k] = Describe(p)]
                            /\ sess'[k] = Describe(p)
                            /\ UNCHANGED runs
<1>1. PICK p \in Threads : Save(p) \/ FinalizeActive(p)
  BY DEF FaultyNext, CrashNext, ManagerNext, Ask, RequestStart, RequestAttach, RequestStored,
     Request, EnterFlock, EnterNew, EnterRefused, EnterStored, Operate, Drive, DetachNew,
     NotStored, ReadyToSave, RunReturned, SaveRun, CallEnded, FinalizeInactive, ReleaseFails,
     Crash, StoreFails, managerVars, mvars
<1>2. sess' = [sess EXCEPT ![key[p]] = Describe(p)] /\ UNCHANGED runs /\ Holds(p)
  BY <1>1 DEF Save, FinalizeActive, Holds
<1>3. k = key[p] /\ sess'[k] = Describe(p)
  BY <1>2, ManagerFacts DEF ManagerTypeOK
<1>4. QED
  BY <1>1, <1>2, <1>3

\* Its object is no older than the record, and of the same sandbox.
LEMMA RecordForward ==
  ASSUME ManagerInv, [FaultyNext]_mvars, NEW k \in Keys, sess[k] # NoRecord
  PROVE  sess'[k].count >= sess[k].count /\ sess'[k].sandbox = sess[k].sandbox
<1>a. ManagerTypeOK /\ SessionTypeOK /\ \A p \in Threads : ProcessOK(p)
  BY ManagerFacts
<1>1. CASE sess'[k] = sess[k]
  BY <1>a, <1>1 DEF ManagerTypeOK
<1>2. CASE sess'[k] # sess[k]
  <2>1. PICK p \in Threads : key[p] = k /\ Holds(p) /\ sess'[k] = Describe(p)
    BY <1>2, RecordChange
  <2>2. ~Creating(p)
    BY <1>a, <2>1 DEF ProcessOK, FreshOf
  <2>3. sess[k].sandbox = sandboxId[p] /\ sess[k].count <= runCount[p]
    BY <1>a, <2>1, <2>2 DEF ProcessOK, SnapshotOf
  <2>4. QED
    BY <2>1, <2>3, <1>a, OwnObjectAssumption DEF Describe, Stored, SessionTypeOK, ManagerTypeOK
<1>3. QED
  BY <1>1, <1>2

\* No process writes an older snapshot over a newer one.
THEOREM RecordsNeverGoBack == FaultySpec => RecordNeverGoesBack
<1>1. ManagerInv /\ [FaultyNext]_mvars
        => [\A k \in Keys :
              sess[k] # NoRecord => /\ sess'[k].count >= sess[k].count
                                    /\ sess'[k].sandbox = sess[k].sandbox]_mvars
  BY RecordForward
<1>2. QED
  BY <1>1, ManagerInvariance, PTL DEF FaultySpec, RecordNeverGoesBack

\* A run is stored by the process that has its session's file lock.
LEMMA RunStored ==
  ASSUME ManagerInv, [FaultyNext]_mvars, runs' # runs
  PROVE  \E p \in Threads : SaveRun(p) /\ UNCHANGED sess
BY DEF FaultyNext, CrashNext, ManagerNext, Ask, RequestStart, RequestAttach, RequestStored,
   Request, EnterFlock, EnterNew, EnterRefused, EnterStored, Operate, Drive, DetachNew,
   NotStored, ReadyToSave, RunReturned, Save, CallEnded, FinalizeInactive, FinalizeActive,
   ReleaseFails, Crash, StoreFails, managerVars, mvars, SaveRun

\* A process that waited for the lock of a session while another one terminated it finds
\* the terminated record, so nothing is in flight when a record becomes terminated.
THEOREM TerminatedRecordsAreFinal == FaultySpec => TerminatedRecordIsFinal
<1> DEFINE RunsOf(k) == {r \in runs : r.key = k}
<1>1. ASSUME ManagerInv, [FaultyNext]_mvars, NEW k \in Keys, sess[k].status = "terminated"
      PROVE  sess'[k] = sess[k] /\ RunsOf(k)' = RunsOf(k)
  <2>a. \A p \in Threads : ProcessOK(p)
    BY <1>1, ManagerFacts
  <2>1. ASSUME NEW p \in Threads, Holds(p) PROVE key[p] # k
    <3>1. CASE Creating(p)
      BY <1>1, <2>a, <3>1 DEF ProcessOK, FreshOf, NoRecord, Stored
    <3>2. CASE ~Creating(p)
      BY <1>1, <2>a, <2>1, <3>2 DEF ProcessOK, SnapshotOf
    <3>3. QED
      BY <3>1, <3>2
  <2>2. sess'[k] = sess[k]
    BY <1>1, <2>1, RecordChange
  <2>3. ASSUME NEW p \in Threads, SaveRun(p) PROVE RunsOf(k)' = RunsOf(k)
    BY <2>1, <2>3 DEF SaveRun, Holds
  <2>4. QED
    BY <1>1, <2>2, <2>3, RunStored
<1>2. ManagerInv /\ [FaultyNext]_mvars
        => [\A k \in Keys :
              sess[k].status = "terminated"
                => /\ sess'[k] = sess[k]
                   /\ {r \in runs' : r.key = k} = {r \in runs : r.key = k}]_mvars
  BY <1>1
<1>3. QED
  BY <1>2, ManagerInvariance, PTL DEF FaultySpec, TerminatedRecordIsFinal

-----------------------------------------------------------------------------
(* What is stored, as long as no save raises. *)

\* A step of one process leaves the others as they are.
LEMMA OneProcessMoves ==
  ASSUME ManagerInv, NEW p \in Threads,
         Ask(p) \/ EnterFlock(p) \/ Operate(p) \/ Crash(p) \/ StoreFails(p)
  PROVE  \A q \in Threads \ {p} : SameProcess(q)
<1> USE DEF OwnObjects
<1>a. IInv /\ SessionTypeOK /\ BackendTypeOK /\ ManagerTypeOK /\ OwnObjects
  BY ManagerFacts
<1> USE <1>a DEF SameProcess, SameObject, ManagerTypeOK, SessionTypeOK, BackendTypeOK, At
<1>1. CASE Ask(p)
  BY <1>1 DEF Ask, RequestStart, RequestAttach, RequestStored, Request, Build, vars,
     backendVars, objectVars, callVars
<1>2. ASSUME NEW o, NEW place, Call(p, o, place), UNCHANGED <<mop, key, mout>>
      PROVE  \A q \in Threads \ {p} : SameProcess(q)
  BY <1>2 DEF Call, Begin, Goto, objectVars, backendVars
<1>3. ASSUME NEW outcome, Finish(p, outcome)
      PROVE  \A q \in Threads \ {p} : SameProcess(q)
  BY <1>3 DEF Finish, Discard, Build, callVars
<1>4. CASE EnterStored(p)
  BY <1>4 DEF EnterStored, Build, Goto
<1>5. CASE Drive(p)
  <2>1. MethodFrame(p)
    BY <1>5, MethodFrames DEF Drive
  <2>2. QED
    BY <1>5, <2>1 DEF Drive, MethodFrame, managerVars
<1>6. CASE Crash(p)
  BY <1>6 DEF Crash, Discard, Build, EndCall, Goto
<1>7. CASE ReadyToSave(p) \/ RunReturned(p) \/ SaveRun(p) \/ CallEnded(p)
  BY <1>7 DEF ReadyToSave, RunReturned, SaveRun, CallEnded, vars, backendVars, objectVars,
     callVars
<1>8. CASE EnterNew(p) \/ DetachNew(p) \/ FinalizeActive(p)
  BY <1>2, <1>8 DEF EnterNew, DetachNew, FinalizeActive
<1>9. CASE EnterRefused(p) \/ NotStored(p) \/ Save(p) \/ FinalizeInactive(p) \/ ReleaseFails(p)
  BY <1>3, <1>9 DEF EnterRefused, NotStored, Save, FinalizeInactive, ReleaseFails
<1>10. CASE StoreFails(p)
  BY <1>3, <1>10 DEF StoreFails, vars, backendVars, objectVars, callVars
<1>11. QED
  BY <1>1, <1>4, <1>5, <1>6, <1>7, <1>8, <1>9, <1>10 DEF EnterFlock, Operate

\* Only a process that is in a method makes a step of one.
LEMMA InMethod == ASSUME NEW p \in Threads, SessionStep(p) PROVE pc[p] # "idle"
BY DEF SessionStep, CancelWaiting, Enter, EnterRejected, EnterUsable, EnterCloseLocal,
   EnterClose, CanEnter, Work, StartCached, Hydrate, HydrateFails, Prepare, PrepareFails,
   CaptureBefore, Exec, CaptureAfter, Record, RecordFails, Fetch, CallFails, Detach,
   DetachFails, Terminate, TerminateFails, Finally, FinallyFails

\* Runs are never removed.
LEMMA RunsStay == ManagerInv /\ [FaultyNext]_mvars => runs \subseteq runs'
BY RunStored DEF SaveRun

\* The run an object names last is stored, or it is the one the process has just made.
LEMMA OwnLastRun ==
  ASSUME ManagerInv, LastRunInv, NEW p \in Threads,
         Ask(p) \/ EnterFlock(p) \/ Operate(p) \/ Crash(p)
  PROVE  LastRunOf(p)'
<1> USE DEF OwnObjects
<1>a. /\ IInv /\ SessionTypeOK /\ BackendTypeOK /\ ManagerTypeOK /\ OwnObjects
      /\ ProcessOK(p) /\ LastRunOf(p)
  BY ManagerFacts DEF LastRunInv
<1>b. runs \subseteq runs'
  BY RunsStay DEF FaultyNext, CrashNext, ManagerNext
<1> DEFINE Named == lastRun[p] = 0 \/ \E r \in runs : r.id = lastRun[p] /\ r.key = key[p]
<1>1. ASSUME mpc'[p] \in {"idle", "flock"} PROVE LastRunOf(p)'
  BY <1>1 DEF LastRunOf, Holds
<1>2. ASSUME Named, lastRun'[p] = lastRun[p], key' = key PROVE LastRunOf(p)'
  BY <1>b, <1>2 DEF LastRunOf
<1>3. CASE Ask(p) \/ Crash(p)
  BY <1>a, <1>1, <1>3 DEF Ask, RequestStart, RequestAttach, RequestStored, Request, Crash, At,
     ManagerTypeOK
<1>4. ASSUME NEW outcome, Finish(p, outcome) PROVE LastRunOf(p)'
  BY <1>a, <1>1, <1>4 DEF Finish, At, ManagerTypeOK
<1>5. CASE EnterNew(p)
  <2>1. lastRun[p] = 0 /\ lastRun'[p] = lastRun[p] /\ key' = key
    BY <1>a, <1>5 DEF EnterNew, Creating, ProcessOK, FreshOf, Call, Begin, objectVars
  <2>2. QED
    BY <1>2, <2>1
<1>6. CASE EnterStored(p)
  <2>1. lastRun'[p] = sess[key[p]].last /\ key' = key /\ runs' = runs /\ key[p] \in Keys
    BY <1>a, <1>6 DEF EnterStored, Build, SessionTypeOK, Granted, ProcessOK, PlaceOf
  <2>2. QED
    BY <2>1 DEF LastRunInv, LastRunIsStored, LastRunOf
<1>7. CASE Drive(p)
  <2>1. /\ UNCHANGED <<mpc, mop, key, runs>> /\ pc[p] # "idle" /\ Holds(p)
        /\ op[p] = "run" => mpc[p] = "calling" /\ mop[p] = "run"
    <3>1. pc[p] # "idle"
      BY <1>7, InMethod DEF Drive
    <3>2. QED
      BY <1>a, <1>7, <3>1 DEF Drive, managerVars, Holds, ProcessOK, PlaceOf, MethodOf
  <2>2. MethodResult(p)
    BY <1>a, <1>7, MethodResults DEF Drive
  <2>3. CASE lastRun'[p] = lastRun[p]
    BY <1>a, <1>2, <2>1, <2>3 DEF LastRunOf, Returned
  <2>4. CASE lastRun'[p] # lastRun[p]
    BY <2>1, <2>2, <2>4 DEF MethodResult, LastRunOf
  <2>5. QED
    BY <2>3, <2>4
<1>8. CASE RunReturned(p)
  BY <1>a, <1>8 DEF RunReturned, At, ManagerTypeOK, LastRunOf
<1>9. CASE SaveRun(p)
  <2>1. /\ lastRun' = lastRun /\ key' = key
        /\ [id |-> lastRun[p], key |-> key[p], seq |-> runCount[p]] \in runs'
    BY <1>9 DEF SaveRun, vars, objectVars
  <2>2. QED
    BY <2>1 DEF LastRunOf
<1>10. CASE DetachNew(p) \/ FinalizeActive(p)
  <2>1. lastRun' = lastRun /\ key' = key /\ Named
    BY <1>a, <1>10 DEF DetachNew, FinalizeActive, Call, Begin, objectVars, LastRunOf, Holds
  <2>2. QED
    BY <1>2, <2>1
<1>11. CASE ReadyToSave(p) \/ CallEnded(p)
  <2>1. lastRun' = lastRun /\ key' = key /\ Named
    BY <1>a, <1>11 DEF ReadyToSave, CallEnded, Ended, vars, objectVars, LastRunOf, Holds, Returned,
       ProcessOK, PlaceOf
  <2>2. QED
    BY <1>2, <2>1
<1>12. CASE EnterRefused(p) \/ NotStored(p) \/ Save(p) \/ FinalizeInactive(p) \/ ReleaseFails(p)
  BY <1>4, <1>12 DEF EnterRefused, NotStored, Save, FinalizeInactive, ReleaseFails
<1>13. QED
  BY <1>3, <1>5, <1>6, <1>7, <1>8, <1>9, <1>10, <1>11, <1>12 DEF EnterFlock, Operate

\* Unless a save raises, records name only stored runs, after every step.
LEMMA LastRunStep == ManagerInv /\ LastRunInv /\ [CrashNext]_mvars => LastRunInv'
<1> SUFFICES ASSUME ManagerInv, LastRunInv, [CrashNext]_mvars PROVE LastRunInv'
  OBVIOUS
<1>a. ManagerTypeOK /\ SessionTypeOK /\ [FaultyNext]_mvars /\ runs \subseteq runs'
  BY ManagerFacts, RunsStay DEF FaultyNext
<1>1. ASSUME NEW q \in Threads PROVE LastRunOf(q)'
  <2>a. LastRunOf(q)
    BY DEF LastRunInv
  <2>1. CASE SameProcess(q)
    BY <1>a, <2>a, <2>1 DEF SameProcess, SameObject, LastRunOf, Holds, Returned
  <2>2. ASSUME NEW p \in Threads, Ask(p) \/ EnterFlock(p) \/ Operate(p) \/ Crash(p)
        PROVE  LastRunOf(q)'
    BY <2>1, <2>2, OwnLastRun, OneProcessMoves
  <2>3. CASE UNCHANGED mvars \/ (SandboxExpires /\ UNCHANGED managerVars)
    BY <2>1, <2>3 DEF mvars, managerVars, vars, backendVars, objectVars, callVars,
       SandboxExpires, Expire, SameProcess, SameObject
  <2>4. QED
    BY <2>2, <2>3 DEF CrashNext, ManagerNext
<1>2. ASSUME NEW k \in Keys, sess'[k].last # 0
      PROVE  \E r \in runs' : r.id = sess'[k].last /\ r.key = k
  <2>1. CASE sess'[k] = sess[k]
    BY <1>a, <1>2, <2>1 DEF LastRunInv, LastRunIsStored
  <2>2. CASE sess'[k] # sess[k]
    <3>1. PICK p \in Threads : /\ key[p] = k /\ Holds(p)
                               /\ Save(p) \/ FinalizeActive(p)
                               /\ sess'[k] = Describe(p)
      BY <1>a, <2>2, RecordChange
    <3>2. lastRun[p] = 0 \/ \E r \in runs : r.id = lastRun[p] /\ r.key = k
      BY <3>1 DEF LastRunInv, LastRunOf, Save, FinalizeActive
    <3>3. QED
      BY <1>a, <1>2, <3>1, <3>2 DEF Describe, Stored
  <2>3. QED
    BY <2>1, <2>2
<1>3. QED
  BY <1>1, <1>2 DEF LastRunInv, LastRunIsStored

\* Whoever is killed at whatever point, a record that names a run names a stored one.
THEOREM LastRunsAreStored == CrashSpec => []LastRunIsStored
<1>1. ManagerInit => LastRunInv
  BY DEF ManagerInit, LastRunInv, LastRunIsStored, LastRunOf, Holds, NoRecord, Stored
<1>2. ManagerInv /\ [CrashNext]_mvars => ManagerInv'
  BY ManagerStep DEF FaultyNext
<1>3. LastRunInv => LastRunIsStored
  BY DEF LastRunInv
<1>4. QED
  BY <1>1, <1>2, <1>3, ManagerInitInv, LastRunStep, PTL DEF CrashSpec

-----------------------------------------------------------------------------
(* The ledger, as long as no process is killed and no save raises. *)

\* A step that is neither a killed process nor a failed save.
LEMMA RunsCountedStep ==
  ASSUME ManagerInv, RunsCounted, [ManagerNext]_mvars
  PROVE  RunsCounted'
<1>a. /\ ManagerTypeOK /\ SessionTypeOK /\ [FaultyNext]_mvars /\ Sessions = Threads
      /\ \A p \in Threads : ProcessOK(p)
  BY ManagerFacts DEF FaultyNext, CrashNext, OwnObjects
<1> DEFINE Counted(r) == \/ r.seq <= sess[r.key].count
                         \/ \E p \in Threads : /\ Saved(p) /\ key[p] = r.key
                                               /\ r.seq <= runCount[p]
<1>1. \A k \in Keys : sess'[k].count \in Nat /\ sess'[k].count >= sess[k].count
  <2> TAKE k \in Keys
  <2>1. ManagerTypeOK'
    BY ManagerStep, <1>a DEF ManagerInv
  <2>2. sess[k].count \in Nat /\ sess'[k].count \in Nat
    BY <1>a, <2>1 DEF ManagerTypeOK
  <2>3. QED
    BY <1>a, <2>2, RecordForward DEF NoRecord, Stored
<1>2. ASSUME NEW r \in runs, r.seq <= sess[r.key].count PROVE Counted(r)'
  <2>1. r.key \in Keys /\ r.seq \in Nat /\ sess[r.key].count \in Nat
    BY <1>a DEF ManagerTypeOK
  <2>2. QED
    BY <1>1, <1>2, <2>1
<1>3. ASSUME NEW r \in runs, NEW p \in Threads, Saved(p), key[p] = r.key, r.seq <= runCount[p]
      PROVE  Counted(r)'
  <2>1. CASE SameProcess(p)
    BY <1>3, <2>1 DEF SameProcess, SameObject, Saved
  <2>2. CASE FinalizeActive(p)
    <3>1. key[p] \in Keys /\ sess'[key[p]] = Describe(p)
      BY <1>a, <2>2 DEF FinalizeActive, ProcessOK, PlaceOf, ManagerTypeOK
    <3>2. QED
      BY <1>3, <3>1 DEF Describe, Stored
  <2>3. ~(Ask(p) \/ EnterFlock(p)) /\ (Operate(p) => FinalizeActive(p))
    BY <1>a, <1>3 DEF Saved, Ask, RequestStart, RequestAttach, RequestStored, Request,
       EnterFlock, EnterNew, EnterRefused, EnterStored, Granted, Operate, Drive, DetachNew,
       NotStored, ReadyToSave, Save, RunReturned, SaveRun, CallEnded, FinalizeInactive,
       ReleaseFails, ProcessOK, OutcomeOf
  <2>4. ASSUME NEW q \in Threads \ {p}, Ask(q) \/ EnterFlock(q) \/ Operate(q)
        PROVE  SameProcess(p)
    BY <2>4, OneProcessMoves
  <2>5. CASE UNCHANGED mvars \/ (SandboxExpires /\ UNCHANGED managerVars)
    BY <2>1, <2>5 DEF mvars, managerVars, vars, backendVars, objectVars, callVars, SandboxExpires,
       Expire, SameProcess, SameObject
  <2>6. QED
    BY <2>1, <2>2, <2>3, <2>4, <2>5 DEF ManagerNext
<1>4. ASSUME NEW p \in Threads, SaveRun(p),
             NEW r \in {[id |-> lastRun[p], key |-> key[p], seq |-> runCount[p]]}
      PROVE  Counted(r)'
  <2>1. /\ mop[p] = "run" /\ mop' = mop /\ key' = key /\ runCount' = runCount
        /\ mpc'[p] = "finalize" /\ mout'[p] = "ok" /\ runCount[p] \in Nat
    BY <1>a, <1>4 DEF SaveRun, At, ManagerTypeOK, SessionTypeOK, vars, objectVars, ProcessOK,
       PlaceOf
  <2>2. QED
    BY <2>1 DEF Saved
<1>5. ASSUME NEW r \in runs' PROVE Counted(r)'
  <2>1. CASE r \in runs
    BY <1>2, <1>3, <2>1 DEF RunsCounted
  <2>2. CASE r \notin runs
    BY <1>a, <1>4, <1>5, <2>2, RunStored DEF SaveRun
  <2>3. QED
    BY <2>1, <2>2
<1>6. QED
  BY <1>5 DEF RunsCounted

\* The number of a run that is about to be stored is above those of its session's runs.
LEMMA NumberIsNew ==
  ASSUME ManagerInv, RunsCounted, NEW p \in Threads, SaveRun(p),
         NEW r \in runs, r.key = key[p]
  PROVE  r.seq < runCount[p]
<1>a. /\ ManagerTypeOK /\ SessionTypeOK /\ Sessions = Threads
      /\ \A q \in Threads : ProcessOK(q)
  BY ManagerFacts DEF OwnObjects
<1>1. mpc[p] = "saverun" /\ Holds(p) /\ key[p] \in Keys
  BY <1>a DEF SaveRun, Holds, ProcessOK, PlaceOf
<1>2. sess[key[p]].count < runCount[p]
  BY <1>a, <1>1 DEF ProcessOK, PlaceOf, OutcomeOf, Numbered
<1>3. ~\E q \in Threads : Saved(q) /\ key[q] = r.key
  BY <1>1, OneHolder DEF Saved, Holds
<1>4. r.seq <= sess[key[p]].count
  BY <1>3 DEF RunsCounted
<1>5. r.seq \in Nat /\ runCount[p] \in Nat /\ sess[key[p]].count \in Nat
  BY <1>a, <1>1 DEF ManagerTypeOK, SessionTypeOK
<1>6. QED
  BY <1>2, <1>4, <1>5

\* A number is used once, and stays below those still to come.
LEMMA LedgerInvStep == ManagerInv /\ LedgerInv /\ [ManagerNext]_mvars => LedgerInv'
<1> SUFFICES ASSUME ManagerInv, LedgerInv, [ManagerNext]_mvars PROVE LedgerInv'
  OBVIOUS
<1>a. ManagerTypeOK /\ SessionTypeOK /\ [FaultyNext]_mvars /\ Sessions = Threads
  BY ManagerFacts DEF FaultyNext, CrashNext, OwnObjects
<1>1. StoredRunsUnique'
  <2>1. CASE runs' = runs
    BY <2>1 DEF LedgerInv, StoredRunsUnique
  <2>2. ASSUME NEW p \in Threads, SaveRun(p) PROVE StoredRunsUnique'
    <3> DEFINE new == [id |-> lastRun[p], key |-> key[p], seq |-> runCount[p]]
    <3>1. runs' = runs \cup {new} /\ runCount[p] \in Nat
      BY <1>a, <2>2 DEF SaveRun, SessionTypeOK
    <3>2. \A r \in runs : r.key = key[p] => r.seq # runCount[p]
      <4> SUFFICES ASSUME NEW r \in runs, r.key = key[p] PROVE r.seq # runCount[p]
        OBVIOUS
      <4>1. r.seq \in Nat /\ r.seq < runCount[p]
        BY <1>a, <2>2, NumberIsNew DEF LedgerInv, ManagerTypeOK
      <4>2. QED
        BY <3>1, <4>1
    <3>3. QED
      BY <3>1, <3>2 DEF LedgerInv, StoredRunsUnique
  <2>3. QED
    BY <1>a, <2>1, <2>2, RunStored
<1>2. RunsCounted'
  BY RunsCountedStep DEF LedgerInv
<1>3. QED
  BY <1>1, <1>2 DEF LedgerInv

\* Without kills and failed saves, records and runs start and stay in step.
LEMMA LedgerInvariance == ManagerSpec => [](ManagerInv /\ LedgerInv)
<1>1. ManagerInit => LedgerInv
  BY DEF ManagerInit, LedgerInv, StoredRunsUnique, RunsCounted
<1>2. ManagerInv /\ [ManagerNext]_mvars => ManagerInv'
  BY ManagerStep DEF FaultyNext, CrashNext
<1>3. QED
  BY <1>1, <1>2, ManagerInitInv, LedgerInvStep, PTL DEF ManagerSpec

\* No number is used twice within a session.
THEOREM NumbersUnique == ManagerSpec => []StoredRunsUnique
<1>1. LedgerInv => StoredRunsUnique
  BY DEF LedgerInv
<1>2. QED
  BY LedgerInvariance, <1>1, PTL

-----------------------------------------------------------------------------
(* The stored files implement the ledger. *)

(* SessionLedger's variables for one session id, as `LedgerSpec` reads them off the
   files. *)
PhaseOf(k) == CASE sess[k].status = "none" -> "none"
                [] sess[k].status = "terminated" -> "ended"
                [] OTHER -> "open"

NumbersOf(k) == {r.seq : r \in {x \in runs : x.key = k}}

(* ... and for all of them. *)
Phase == [k \in Keys |-> PhaseOf(k)]
Numbers == [k \in Keys |-> NumbersOf(k)]

(* The ledger's variables change only with the record or the run files of a session. *)
LEMMA LedgerVars ==
  /\ UNCHANGED <<Phase, Numbers>> => UNCHANGED Ledger!ledgerVars
  /\ \A k \in Keys : Ledger!Open(k) <=> /\ Phase[k] = "none"
                                        /\ Phase' = [Phase EXCEPT ![k] = "open"]
                                        /\ UNCHANGED Numbers
  /\ \A k \in Keys : Ledger!End(k) <=> /\ Phase[k] = "open"
                                       /\ Phase' = [Phase EXCEPT ![k] = "ended"]
                                       /\ UNCHANGED Numbers
  /\ \A k \in Keys : Ledger!Enter(k) <=> /\ Phase[k] = "open"
                                         /\ \E n \in Numbers'[k] :
                                              /\ \A m \in Numbers[k] : m < n
                                              /\ Numbers' = [Numbers EXCEPT ![k] = @ \cup {n}]
                                         /\ UNCHANGED Phase
BY DEF Ledger!ledgerVars, Ledger!Open, Ledger!End, Ledger!Enter, Phase, Numbers, PhaseOf,
       NumbersOf

\* Every step enters, opens or ends something in the ledger, or nothing its readers see.
LEMMA LedgerStep ==
  ManagerInv /\ LedgerInv /\ [ManagerNext]_mvars => [Ledger!Next]_(Ledger!ledgerVars)
<1> SUFFICES ASSUME ManagerInv, LedgerInv, [ManagerNext]_mvars
             PROVE  Ledger!Next \/ UNCHANGED Ledger!ledgerVars
  OBVIOUS
<1>a. /\ ManagerTypeOK /\ SessionTypeOK /\ [FaultyNext]_mvars /\ Sessions = Threads
      /\ \A q \in Threads : ProcessOK(q)
  BY ManagerFacts DEF FaultyNext, CrashNext, OwnObjects
<1>1. CASE sess' = sess /\ runs' = runs
  BY <1>1, LedgerVars DEF Phase, Numbers, PhaseOf, NumbersOf
<1>2. ASSUME NEW p \in Threads, SaveRun(p), sess' = sess PROVE Ledger!Next
  <2> DEFINE k == key[p]
  <2>1. /\ k \in Keys /\ mpc[p] = "saverun" /\ mop[p] = "run"
        /\ runs' = runs \cup {[id |-> lastRun[p], key |-> k, seq |-> runCount[p]]}
    BY <1>a, <1>2 DEF SaveRun, ProcessOK, PlaceOf
  <2>2. Phase[k] = "open" /\ Phase' = Phase
    <3>1. sess[k].status \notin {"none", "terminated"}
      BY <1>a, <2>1 DEF ProcessOK, SnapshotOf, Holds, Creating
    <3>2. QED
      BY <1>2, <2>1, <3>1 DEF Phase, PhaseOf
  <2>3. \A m \in Numbers[k] : m < runCount[p]
    BY <1>2, <2>1, NumberIsNew DEF LedgerInv, Numbers, NumbersOf
  <2>4. Numbers' = [Numbers EXCEPT ![k] = @ \cup {runCount[p]}]
    <3> DEFINE new == [id |-> lastRun[p], key |-> k, seq |-> runCount[p]]
    <3>1. \A j \in Keys : {x \in runs' : x.key = j}
                           = {x \in runs : x.key = j} \cup IF j = k THEN {new} ELSE {}
      BY <2>1
    <3>2. \A j \in Keys : Numbers'[j] = Numbers[j] \cup IF j = k THEN {new.seq} ELSE {}
      <4> TAKE j \in Keys
      <4> DEFINE of == {x \in runs : x.key = j}
                 more == IF j = k THEN {new} ELSE {}
      <4>1. Numbers[j] = {r.seq : r \in of} /\ Numbers'[j] = {r.seq : r \in of'}
        BY DEF Numbers, NumbersOf
      <4>2. of' = of \cup more
        BY <3>1
      <4> HIDE DEF of
      <4>3. {r.seq : r \in of \cup more} = {r.seq : r \in of} \cup {r.seq : r \in more}
        OBVIOUS
      <4>4. {r.seq : r \in more} = IF j = k THEN {new.seq} ELSE {}
        OBVIOUS
      <4>5. QED
        BY <4>1, <4>2, <4>3, <4>4
    <3>3. \A j \in Keys : Numbers'[j] = IF j = k THEN Numbers[k] \cup {runCount[p]}
                                       ELSE Numbers[j]
      BY <3>2
    <3>4. Numbers = [j \in Keys |-> Numbers[j]] /\ Numbers' = [j \in Keys |-> Numbers'[j]]
      BY DEF Numbers
    <3>5. QED
      BY <2>1, <3>3, <3>4
  <2>5. runCount[p] \in Numbers'[k]
    BY <2>1, <2>4 DEF Numbers
  <2>6. QED
    BY <2>1, <2>2, <2>3, <2>4, <2>5, LedgerVars DEF Ledger!Next
<1>3. ASSUME NEW k \in Keys, sess'[k] # sess[k]
      PROVE  Ledger!Next \/ UNCHANGED Ledger!ledgerVars
  <2>1. PICK p \in Threads : /\ key[p] = k /\ Holds(p)
                             /\ Save(p) \/ FinalizeActive(p)
                             /\ sess' = [sess EXCEPT ![k] = Describe(p)]
                             /\ UNCHANGED runs
    BY <1>a, <1>3, RecordChange
  <2>2. Numbers' = Numbers
    BY <2>1 DEF Numbers, NumbersOf
  <2>3. /\ sess'[k].status = status[p]
        /\ \A j \in Keys \ {k} : sess'[j] = sess[j]
    BY <1>a, <2>1 DEF Describe, Stored, ManagerTypeOK
  <2>4. /\ PhaseOf(k)' = CASE status[p] = "none" -> "none"
                           [] status[p] = "terminated" -> "ended"
                           [] OTHER -> "open"
        /\ Phase' = [Phase EXCEPT ![k] = PhaseOf(k)']
    BY <2>3 DEF Phase, PhaseOf
  <2>5. CASE Creating(p)
    <3>1. Phase[k] = "none"
      BY <1>a, <2>1, <2>5 DEF ProcessOK, FreshOf, NoRecord, Stored, Phase, PhaseOf
    <3>2. status[p] = "detached"
      BY <1>a, <2>1, <2>5 DEF ProcessOK, PlaceOf, OutcomeOf, Save, FinalizeActive, Creating
    <3>3. QED
      BY <2>2, <2>4, <3>1, <3>2, LedgerVars DEF Ledger!Next
  <2>6. CASE ~Creating(p)
    <3>1. Phase[k] = "open"
      BY <1>a, <2>1, <2>6 DEF ProcessOK, SnapshotOf, Phase, PhaseOf
    <3>2. status[p] \in {"active", "detached", "terminated"}
      BY <1>a, <2>1 DEF ProcessOK, OutcomeOf, Save, FinalizeActive
    <3>3. CASE status[p] = "terminated"
      BY <2>2, <2>4, <3>1, <3>3, LedgerVars DEF Ledger!Next
    <3>4. CASE status[p] # "terminated"
      <4>1. Phase' = Phase
        BY <2>4, <3>1, <3>2, <3>4 DEF Phase
      <4>2. QED
        BY <2>2, <4>1, LedgerVars
    <3>5. QED
      BY <3>3, <3>4
  <2>7. QED
    BY <2>5, <2>6
<1>4. CASE runs' = runs /\ \A k \in Keys : sess'[k] = sess[k]
  BY <1>4, LedgerVars DEF Phase, Numbers, PhaseOf, NumbersOf
<1>5. QED
  BY <1>a, <1>2, <1>3, <1>4, RunStored

\* The stored files, seen without processes, locks and sandboxes, are the ledger.
THEOREM LedgerImplemented == ManagerSpec => LedgerSpec
<1>1. ManagerInit => Ledger!Init
  BY DEF ManagerInit, Ledger!Init, NoRecord, Stored
<1>2. QED
  BY <1>1, LedgerInvariance, LedgerStep, PTL DEF ManagerSpec, LedgerSpec, Ledger!Spec

-----------------------------------------------------------------------------
(* The ids of runs. *)

\* A method draws the next id when it numbers its run, keeps it, and records the run under it.
LEMMA IdDrawn ==
  ASSUME IInv, OwnObjects, NEW p \in Threads, SessionStep(p)
  PROVE  /\ nextRun' \in {nextRun, nextRun + 1}
         /\ pc'[p] \in RunPhases
              => \/ pc[p] \in RunPhases /\ runId'[p] = runId[p]
                 \/ runId'[p] = nextRun /\ nextRun' = nextRun + 1
         /\ Returned(p)' /\ op[p] = "run" => pc[p] \in RunPhases /\ lastRun'[p] = runId[p]
<1> USE OwnObjectAssumption DEF IInv, SessionTypeOK, BackendTypeOK, Operations, Critical,
       ControlInv, CallPlace, OwnObjects, Leave, EndCall, Goto, Continue, Fail,
       objectVars, callVars, backendVars, RunPhases, Returned
<1>1. ~CancelWaiting(p)
  BY DEF CancelWaiting
<1>2. CASE Enter(p)
  BY <1>2 DEF Enter, EnterRejected, EnterUsable, EnterCloseLocal, EnterClose, CanEnter, Acquire
<1>3. CASE StartCached(p)
  BY <1>3 DEF StartCached, Started, Activate, NumberRun
<1>4. CASE Prepare(p)
  BY <1>4 DEF Prepare, PrepareReturns, Started, Activate, NumberRun
<1>5. CASE Hydrate(p) \/ HydrateFails(p) \/ PrepareFails(p)
  BY <1>5 DEF Hydrate, HydrateFails, PrepareFails
<1>6. CASE CaptureBefore(p) \/ Exec(p) \/ CaptureAfter(p)
  BY <1>6 DEF CaptureBefore, Exec, CaptureAfter
<1>7. CASE Record(p)
  BY <1>7 DEF Record
<1>8. CASE RecordFails(p) \/ CallFails(p) \/ Fetch(p)
  BY <1>8 DEF RecordFails, CallFails, Fetch
<1>9. CASE Detach(p) \/ DetachFails(p)
  BY <1>9 DEF Detach, DetachFails
<1>10. CASE Terminate(p) \/ TerminateFails(p) \/ Finally(p) \/ FinallyFails(p)
  BY <1>10 DEF Terminate, TerminateFails, Finally, FinallyFails
<1> HIDE DEF IInv, SessionTypeOK, BackendTypeOK, Operations, Critical, ControlInv, CallPlace,
       OwnObjects, Leave, EndCall, Goto, Continue, Fail, objectVars, callVars, backendVars,
       RunPhases, Returned
<1>11. QED
  BY <1>1, <1>2, <1>3, <1>4, <1>5, <1>6, <1>7, <1>8, <1>9, <1>10 DEF SessionStep, Work

\* A process has the run it had, under its id, or one it has just begun, under a new id.
LEMMA OwnRunId ==
  ASSUME ManagerInv, NEW p \in Threads, Numbered(p)',
         Ask(p) \/ EnterFlock(p) \/ Operate(p) \/ Crash(p) \/ StoreFails(p)
  PROVE  /\ nextRun' \in Nat /\ nextRun' >= nextRun /\ UNCHANGED runs
         /\ \/ Numbered(p) /\ InHand(p)' = InHand(p)
            \/ InHand(p)' = nextRun /\ nextRun' = nextRun + 1
<1> USE DEF OwnObjects
<1>a. /\ IInv /\ SessionTypeOK /\ BackendTypeOK /\ ManagerTypeOK /\ OwnObjects
      /\ ProcessOK(p) /\ nextRun \in Nat
  BY ManagerFacts DEF SessionTypeOK
<1>b. mpc'[p] \in {"calling", "saverun"} /\ mop'[p] = "run"
  BY DEF Numbered
<1>1. ~Ask(p) /\ ~Crash(p)
  BY <1>a, <1>b DEF Ask, RequestStart, RequestAttach, RequestStored, Request, Crash, At,
     ManagerTypeOK
<1>2. ~(\E outcome : Finish(p, outcome))
  BY <1>a, <1>b DEF Finish, At, ManagerTypeOK
<1>3. ~StoreFails(p)
  BY <1>a, <1>b, <1>2 DEF StoreFails, At, ManagerTypeOK
<1>4. ~EnterStored(p)
  BY <1>a DEF EnterStored, Goto, At, SessionTypeOK, ManagerTypeOK, Numbered, RunPhases, Returned
<1>5. ~EnterNew(p) /\ ~EnterRefused(p)
  BY <1>a, <1>b, <1>2 DEF EnterNew, EnterRefused, Call, At, ManagerTypeOK
<1>6. ~(DetachNew(p) \/ NotStored(p) \/ ReadyToSave(p) \/ Save(p) \/ SaveRun(p) \/ CallEnded(p)
          \/ FinalizeInactive(p) \/ FinalizeActive(p) \/ ReleaseFails(p))
  BY <1>a, <1>b, <1>2 DEF DetachNew, NotStored, ReadyToSave, Save, SaveRun, CallEnded,
     FinalizeInactive, FinalizeActive, ReleaseFails, Call, At, ManagerTypeOK
<1>7. CASE RunReturned(p)
  <2>1. Numbered(p) /\ Numbered(p)' /\ pc[p] = "idle"
    BY <1>7 DEF RunReturned, Ended, Numbered, Returned
  <2>2. UNCHANGED <<pc, runId, lastRun, nextRun, runs>>
    BY <1>7 DEF RunReturned, vars, objectVars, callVars
  <2>3. QED
    BY <1>a, <2>1, <2>2 DEF InHand
<1>8. CASE Drive(p)
  <2>1. UNCHANGED <<mpc, mop, key, runs>> /\ SessionStep(p) /\ mpc[p] = "calling" /\ mop[p] = "run"
    BY <1>b, <1>8 DEF Drive, managerVars
  <2>2. pc[p] # "idle" /\ op[p] = "run"
    BY <1>a, <2>1, InMethod DEF ProcessOK, PlaceOf, MethodOf
  <2>3. CASE pc'[p] \in RunPhases
    BY <1>a, <2>1, <2>3, IdDrawn DEF Numbered, InHand
  <2>4. CASE pc'[p] \notin RunPhases
    <3>1. Returned(p)'
      BY <2>1, <2>4 DEF Numbered
    <3>2. pc[p] \in RunPhases /\ lastRun'[p] = runId[p]
      BY <1>a, <2>1, <2>2, <3>1, IdDrawn
    <3>3. QED
      BY <1>a, <2>1, <2>4, <3>2, IdDrawn DEF Numbered, InHand
  <2>5. QED
    BY <2>3, <2>4
<1>9. QED
  BY <1>1, <1>3, <1>4, <1>5, <1>6, <1>7, <1>8 DEF EnterFlock, Operate

\* Ids are drawn in order.
LEMMA NextRunGrows ==
  ASSUME ManagerInv, [FaultyNext]_mvars
  PROVE  nextRun' \in Nat /\ nextRun' >= nextRun
<1>a. ManagerInv' /\ nextRun \in Nat
  BY ManagerStep, ManagerFacts DEF SessionTypeOK
<1>b. nextRun' \in Nat
  BY <1>a DEF ManagerInv, ManagerTypeOK, SessionTypeOK
<1>1. \A p \in Threads : Drive(p) => nextRun' >= nextRun
  BY ManagerFacts, MethodFrames DEF Drive, MethodFrame
<1>2. (\A p \in Threads : ~Drive(p)) => nextRun' = nextRun
  BY DEF FaultyNext, CrashNext, ManagerNext, Ask, RequestStart, RequestAttach, RequestStored,
     EnterFlock, EnterNew, EnterRefused, EnterStored, Operate, DetachNew, NotStored, ReadyToSave,
     RunReturned, Save, SaveRun, CallEnded, FinalizeInactive, FinalizeActive, ReleaseFails,
     Crash, StoreFails, Call, Begin, Finish, SandboxExpires, vars, mvars
<1>3. QED
  BY <1>a, <1>b, <1>1, <1>2

\* Another process still has the run it had.
LEMMA OthersRunId ==
  ASSUME NEW q \in Threads, SameProcess(q)
  PROVE  (Numbered(q)' <=> Numbered(q)) /\ InHand(q)' = InHand(q)
BY DEF SameProcess, SameObject, Numbered, InHand, Returned

\* Every step leaves the ids distinct.
LEMMA RunIdsStep == ManagerInv /\ RunIdsInv /\ [FaultyNext]_mvars => RunIdsInv'
<1> SUFFICES ASSUME ManagerInv, RunIdsInv, [FaultyNext]_mvars PROVE RunIdsInv'
  OBVIOUS
<1>a. ManagerTypeOK /\ SessionTypeOK /\ nextRun \in Nat /\ \A r \in runs : r.id \in Nat
  BY ManagerFacts DEF SessionTypeOK, ManagerTypeOK
<1>1. ASSUME \A q \in Threads : SameProcess(q), UNCHANGED <<runs, nextRun>> PROVE RunIdsInv'
  BY <1>1, OthersRunId DEF RunIdsInv
<1>2. CASE UNCHANGED mvars \/ (SandboxExpires /\ UNCHANGED managerVars)
  BY <1>1, <1>2 DEF mvars, managerVars, vars, backendVars, objectVars, callVars,
     SandboxExpires, Expire, SameProcess, SameObject
<1>3. ASSUME NEW p \in Threads,
             Ask(p) \/ EnterFlock(p) \/ Operate(p) \/ Crash(p) \/ StoreFails(p)
      PROVE  RunIdsInv'
  <2>1. \A q \in Threads \ {p} : SameProcess(q)
    BY <1>3, OneProcessMoves
  <2>2. \A q \in Threads \ {p} : (Numbered(q)' <=> Numbered(q)) /\ InHand(q)' = InHand(q)
    BY <2>1, OthersRunId
  <2>3. nextRun' \in Nat /\ nextRun' >= nextRun
    BY <1>a, <1>3, NextRunGrows
  <2>4. CASE Numbered(p)'
    <3>1. /\ UNCHANGED runs
          /\ \/ Numbered(p) /\ InHand(p)' = InHand(p)
             \/ InHand(p)' = nextRun /\ nextRun' = nextRun + 1
      BY <1>3, <2>4, OwnRunId
    <3>2. \A q \in Threads : Numbered(q) => InHand(q) \in Nat
      BY <1>a, OwnObjectAssumption DEF InHand, SessionTypeOK
    <3>3. QED
      BY <1>a, <2>2, <2>3, <2>4, <3>1, <3>2 DEF RunIdsInv
  <2>5. CASE ~Numbered(p)' /\ runs' = runs
    <3>1. \A q \in Threads : Numbered(q) => InHand(q) \in Nat
      BY <1>a, OwnObjectAssumption DEF InHand, SessionTypeOK
    <3>2. QED
      BY <1>a, <2>2, <2>3, <2>5, <3>1 DEF RunIdsInv
  <2>6. CASE ~Numbered(p)' /\ runs' # runs
    <3>1. PICK u \in Threads : SaveRun(u)
      BY <2>6, RunStored
    <3>2. u = p
      BY <1>a, <2>1, <3>1 DEF SaveRun, At, SameProcess, ManagerTypeOK
    <3>3. Numbered(p) /\ InHand(p) = lastRun[p] /\ nextRun' = nextRun
      BY <1>a, <3>1, <3>2, ManagerFacts DEF SaveRun, Numbered, InHand, ProcessOK, PlaceOf, vars, RunPhases
    <3>4. runs' = runs \cup {[id |-> lastRun[p], key |-> key[p], seq |-> runCount[p]]}
      BY <3>1, <3>2 DEF SaveRun
    <3>5. QED
      BY <2>2, <2>6, <3>3, <3>4 DEF RunIdsInv
  <2>7. QED
    BY <2>4, <2>5, <2>6
<1>4. QED
  BY <1>2, <1>3 DEF FaultyNext, CrashNext, ManagerNext

\* No process stores a run over the file of another run, in whatever order the runs began.
THEOREM RunFilesAreNew == FaultySpec => []RunIdsInv
<1>1. ManagerInit => RunIdsInv
  BY DEF ManagerInit, RunIdsInv, Numbered
<1>2. QED
  BY <1>1, RunIdsStep, ManagerInvariance, PTL DEF FaultySpec
=============================================================================
