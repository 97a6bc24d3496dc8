------------------------- MODULE SandboxSessionProofs -------------------------
(***************************************************************************)
(* Proofs about SandboxSession, for any number of threads, session objects *)
(* and sandboxes and any value of the flags.                               *)
(*                                                                         *)
(* The invariants follow from IInv, which every step preserves.  The four  *)
(* lemmas each show what the steps do to one concern: the types, control   *)
(* (who holds a lock, and where), the handle with the remote sandbox, and  *)
(* the numbers of the runs.  What carries all of them is LockHeld: two     *)
(* threads inside methods of the same session are one thread, so nothing   *)
(* another thread does touches the session a thread is working on.         *)
(***************************************************************************)
EXTENDS SandboxSession, TLAPS

\* The types of a session's fields and of the calls, apart from the backend's.
ObjectTypeOK ==
  /\ status \in [Sessions -> Statuses]
  /\ closed \in [Sessions -> BOOLEAN]
  /\ detached \in [Sessions -> BOOLEAN]
  /\ runCount \in [Sessions -> Nat]
  /\ lastRun \in [Sessions -> Nat]
  /\ nextRun \in Nat \ {0}

\* The calls of the threads and the locks they take.
CallTypeOK ==
  /\ lock \in [Sessions -> Threads \cup {NoThread}]
  /\ pc \in [Threads -> {"idle", "lock"} \cup Critical]
  /\ op \in [Threads -> Operations \cup {"none"}]
  /\ on \in [Threads -> Sessions]
  /\ seq \in [Threads -> Nat]
  /\ runId \in [Threads -> Nat]
  /\ out \in [Threads -> {"none", "ok", "raised"}]

TypeParts == BackendTypeOK /\ ObjectTypeOK /\ CallTypeOK

\* The type invariant of SandboxSession is the sum of the three.
LEMMA TypeSplit == SessionTypeOK <=> TypeParts
BY DEF TypeParts, SessionTypeOK, ObjectTypeOK, CallTypeOK

\* A thread that goes on inside its method keeps the types of the calls.
LEMMA ContinueType ==
  ASSUME CallTypeOK, NEW t \in Threads, NEW label \in Critical, Continue(t, label),
         UNCHANGED callVars
  PROVE  CallTypeOK'
BY DEF CallTypeOK, Continue, Goto, callVars

\* A call that ends, with its lock given back or never taken, keeps the types.
LEMMA EndCallType ==
  ASSUME CallTypeOK, NEW t \in Threads, NEW outcome \in {"none", "ok", "raised"},
         EndCall(t, outcome)
  PROVE  /\ UNCHANGED lock => CallTypeOK'
         /\ lock' = [lock EXCEPT ![on[t]] = NoThread] => CallTypeOK'
<1>1. /\ pc' \in [Threads -> {"idle", "lock"} \cup Critical]
      /\ op' \in [Threads -> Operations \cup {"none"}]
      /\ on' \in [Threads -> Sessions]
      /\ seq' \in [Threads -> Nat]
      /\ runId' \in [Threads -> Nat]
      /\ out' \in [Threads -> {"none", "ok", "raised"}]
  BY DEF CallTypeOK, EndCall, Goto
<1>2. QED
  BY <1>1 DEF CallTypeOK

\* So does a method that returns or raises with the lock held.
LEMMA LeaveType ==
  ASSUME CallTypeOK, NEW t \in Threads, NEW outcome \in {"none", "ok", "raised"},
         Leave(t, outcome)
  PROVE  CallTypeOK'
BY EndCallType DEF Leave

\* A backend call that raises keeps the types, in close() and elsewhere.
LEMMA FailType ==
  ASSUME ObjectTypeOK, CallTypeOK, NEW t \in Threads, Fail(t)
  PROVE  ObjectTypeOK' /\ CallTypeOK'
<1>1. ObjectTypeOK'
  BY DEF ObjectTypeOK, Fail, objectVars
<1>2. CASE op[t] = "close"
  BY <1>1, <1>2 DEF CallTypeOK, Fail, Goto, callVars, Critical
<1>3. CASE op[t] # "close"
  BY <1>1, <1>3, LeaveType DEF Fail
<1>4. QED
  BY <1>2, <1>3

\* What the methods do after start() keeps the types, one case per method.
LEMMA StartedType ==
  ASSUME ObjectTypeOK, CallTypeOK, NEW t \in Threads, Started(t)
  PROVE  ObjectTypeOK' /\ CallTypeOK'
<1>1. CASE op[t] = "start" /\ Activate(on[t]) /\ Leave(t, "ok")
           /\ UNCHANGED <<runCount, nextRun>>
  <2>1. ObjectTypeOK'
    BY <1>1 DEF ObjectTypeOK, CallTypeOK, Activate, Statuses
  <2>2. QED
    BY <1>1, <2>1, LeaveType
<1>2. CASE Activate(on[t]) /\ NumberRun(t)
           /\ Continue(t, IF CaptureArtifacts THEN "before" ELSE "exec")
  <2>1. runCount' \in [Sessions -> Nat]
    BY <1>2 DEF ObjectTypeOK, CallTypeOK, NumberRun
  <2>2. ObjectTypeOK'
    BY <1>2, <2>1 DEF ObjectTypeOK, CallTypeOK, Activate, NumberRun, Statuses
  <2>3. seq' \in [Threads -> Nat] /\ runId' \in [Threads -> Nat]
    BY <1>2, <2>1 DEF ObjectTypeOK, CallTypeOK, NumberRun
  <2>4. CallTypeOK'
    BY <1>2, <2>3 DEF CallTypeOK, NumberRun, Continue, Goto, Critical
  <2>5. QED
    BY <2>2, <2>4
<1>3. CASE Activate(on[t])
           /\ Continue(t, IF op[t] = "artifact" THEN "fetch" ELSE "detach")
           /\ UNCHANGED <<runCount, callVars, nextRun>>
  <2>1. ObjectTypeOK'
    BY <1>3 DEF ObjectTypeOK, CallTypeOK, Activate, Statuses
  <2>2. CallTypeOK'
    BY <1>3, ContinueType DEF Critical
  <2>3. QED
    BY <2>1, <2>2
<1>4. CASE Continue(t, "terminate") /\ UNCHANGED <<objectVars, callVars, nextRun>>
  <2>1. ObjectTypeOK'
    BY <1>4 DEF ObjectTypeOK, objectVars
  <2>2. CallTypeOK'
    BY <1>4, ContinueType DEF Critical
  <2>3. QED
    BY <2>1, <2>2
<1>5. QED
  BY <1>1, <1>2, <1>3, <1>4 DEF Started

\* Every step keeps the variables in their types.
LEMMA TypeStep == IInv /\ [Next]_vars => SessionTypeOK'
<1> SUFFICES ASSUME IInv, [Next]_vars PROVE TypeParts'
  BY DEF TypeParts, SessionTypeOK, ObjectTypeOK, CallTypeOK
<1>a. BackendTypeOK /\ ObjectTypeOK /\ CallTypeOK
  BY TypeSplit DEF IInv, TypeParts
<1>b. ASSUME NEW t \in Threads
      PROVE  /\ on[t] \in Sessions
             /\ pc[t] = "prepare" => sandboxId[on[t]] \in Sandboxes
             /\ pc[t] = "detach" => op[t] # "close"
  BY DEF IInv, SessionTypeOK, BackendTypeOK, ControlInv, CallPlace, Cached
<1> USE <1>a DEF TypeParts
<1>1. ASSUME NEW t \in Threads, NEW s \in Sessions, NEW o \in Operations, Begin(t, s, o)
      PROVE  TypeParts'
  BY <1>1 DEF Begin, BackendTypeOK, ObjectTypeOK, CallTypeOK, Goto, backendVars,
              objectVars
<1>2. ASSUME NEW t \in Threads, CancelWaiting(t) PROVE TypeParts'
  <2>1. BackendTypeOK'
    BY <1>2, <1>b DEF CancelWaiting, backendVars, BackendTypeOK
  <2>2. ObjectTypeOK'
    BY <1>2, <1>b DEF CancelWaiting, objectVars, ObjectTypeOK, Statuses
  <2>3. CallTypeOK'
    BY <1>2, EndCallType DEF CancelWaiting
  <2>4. QED
    BY <2>1, <2>2, <2>3
<1>3. ASSUME NEW t \in Threads, EnterRejected(t) PROVE TypeParts'
  <2>1. BackendTypeOK'
    BY <1>3, <1>b DEF EnterRejected, backendVars, BackendTypeOK
  <2>2. ObjectTypeOK'
    BY <1>3, <1>b DEF EnterRejected, objectVars, ObjectTypeOK, Statuses
  <2>3. CallTypeOK'
    BY <1>3, EndCallType DEF EnterRejected
  <2>4. QED
    BY <2>1, <2>2, <2>3
<1>4. ASSUME NEW t \in Threads, EnterUsable(t) PROVE TypeParts'
  <2>1. BackendTypeOK'
    BY <1>4, <1>b DEF EnterUsable, Acquire, backendVars, BackendTypeOK
  <2>2. ObjectTypeOK'
    BY <1>4, <1>b DEF EnterUsable, Acquire, objectVars, ObjectTypeOK, Statuses
  <2>3. CallTypeOK'
    BY <1>4 DEF EnterUsable, Acquire, CallTypeOK, Goto, Critical, callVars
  <2>4. QED
    BY <2>1, <2>2, <2>3
<1>5. ASSUME NEW t \in Threads, EnterCloseLocal(t) PROVE TypeParts'
  <2>1. BackendTypeOK'
    BY <1>5, <1>b DEF EnterCloseLocal, backendVars, BackendTypeOK
  <2>2. ObjectTypeOK'
    BY <1>5, <1>b DEF EnterCloseLocal, objectVars, ObjectTypeOK, Statuses
  <2>3. CallTypeOK'
    BY <1>5, EndCallType DEF EnterCloseLocal
  <2>4. QED
    BY <2>1, <2>2, <2>3
<1>6. ASSUME NEW t \in Threads, EnterClose(t) PROVE TypeParts'
  <2>1. BackendTypeOK'
    BY <1>6, <1>b DEF EnterClose, Acquire, backendVars, BackendTypeOK
  <2>2. ObjectTypeOK'
    BY <1>6, <1>b DEF EnterClose, Acquire, objectVars, ObjectTypeOK, Statuses
  <2>3. CallTypeOK'
    BY <1>6 DEF EnterClose, Acquire, CallTypeOK, Goto, Critical, callVars
  <2>4. QED
    BY <2>1, <2>2, <2>3
<1>7. ASSUME NEW t \in Threads, StartCached(t) PROVE TypeParts'
  <2>1. BackendTypeOK'
    BY <1>7, <1>b DEF StartCached, backendVars, BackendTypeOK
  <2>2. ObjectTypeOK' /\ CallTypeOK'
    BY <1>7, StartedType DEF StartCached
  <2>3. QED
    BY <2>1, <2>2
<1>8. ASSUME NEW t \in Threads, Hydrate(t) PROVE TypeParts'
  <2>1. BackendTypeOK'
    BY <1>8, <1>b DEF Hydrate, HydrateReturns, Create, RemoteStates, BackendTypeOK
  <2>2. ObjectTypeOK'
    BY <1>8, <1>b DEF Hydrate, objectVars, ObjectTypeOK, Statuses
  <2>3. CallTypeOK'
    BY <1>8, ContinueType DEF Hydrate, Critical
  <2>4. QED
    BY <2>1, <2>2, <2>3
<1>9. ASSUME NEW t \in Threads, HydrateFails(t) PROVE TypeParts'
  <2>1. BackendTypeOK'
    BY <1>9, <1>b DEF HydrateFails, HydrateRaises, Create, RemoteStates, BackendTypeOK
  <2>2. ObjectTypeOK' /\ CallTypeOK'
    BY <1>9, FailType DEF HydrateFails
  <2>3. QED
    BY <2>1, <2>2
<1>10. ASSUME NEW t \in Threads, Prepare(t) PROVE TypeParts'
  <2>1. BackendTypeOK'
    BY <1>10, <1>b DEF Prepare, PrepareReturns, BackendTypeOK
  <2>2. ObjectTypeOK' /\ CallTypeOK'
    BY <1>10, StartedType DEF Prepare
  <2>3. QED
    BY <2>1, <2>2
<1>11. ASSUME NEW t \in Threads, PrepareFails(t) PROVE TypeParts'
  <2>1. BackendTypeOK'
    BY <1>11, <1>b DEF PrepareFails, PrepareRaises, BackendTypeOK
  <2>2. ObjectTypeOK' /\ CallTypeOK'
    BY <1>11, FailType DEF PrepareFails
  <2>3. QED
    BY <2>1, <2>2
<1>12. ASSUME NEW t \in Threads, CaptureBefore(t) PROVE TypeParts'
  <2>1. BackendTypeOK'
    BY <1>12, <1>b DEF CaptureBefore, CallReturns, backendVars, BackendTypeOK
  <2>2. ObjectTypeOK'
    BY <1>12, <1>b DEF CaptureBefore, objectVars, ObjectTypeOK, Statuses
  <2>3. CallTypeOK'
    BY <1>12, ContinueType DEF CaptureBefore, Critical
  <2>4. QED
    BY <2>1, <2>2, <2>3
<1>13. ASSUME NEW t \in Threads, Exec(t) PROVE TypeParts'
  <2>1. BackendTypeOK'
    BY <1>13, <1>b DEF Exec, CallReturns, backendVars, BackendTypeOK
  <2>2. ObjectTypeOK'
    BY <1>13, <1>b DEF Exec, objectVars, ObjectTypeOK, Statuses
  <2>3. CallTypeOK'
    BY <1>13, ContinueType DEF Exec, Critical
  <2>4. QED
    BY <2>1, <2>2, <2>3
<1>14. ASSUME NEW t \in Threads, CaptureAfter(t) PROVE TypeParts'
  <2>1. BackendTypeOK'
    BY <1>14, <1>b DEF CaptureAfter, CallReturns, backendVars, BackendTypeOK
  <2>2. ObjectTypeOK'
    BY <1>14, <1>b DEF CaptureAfter, objectVars, ObjectTypeOK, Statuses
  <2>3. CallTypeOK'
    BY <1>14, ContinueType DEF CaptureAfter, Critical
  <2>4. QED
    BY <2>1, <2>2, <2>3
<1>15. ASSUME NEW t \in Threads, Record(t) PROVE TypeParts'
  <2>1. BackendTypeOK'
    BY <1>15, <1>b DEF Record, backendVars, BackendTypeOK
  <2>2. ObjectTypeOK'
    BY <1>15, <1>b DEF Record, objectVars, ObjectTypeOK, CallTypeOK
  <2>3. CallTypeOK'
    BY <1>15, LeaveType DEF Record
  <2>4. QED
    BY <2>1, <2>2, <2>3
<1>16. ASSUME NEW t \in Threads, RecordFails(t) PROVE TypeParts'
  <2>1. BackendTypeOK'
    BY <1>16, <1>b DEF RecordFails, backendVars, BackendTypeOK
  <2>2. ObjectTypeOK' /\ CallTypeOK'
    BY <1>16, FailType DEF RecordFails
  <2>3. QED
    BY <2>1, <2>2
<1>17. ASSUME NEW t \in Threads, Fetch(t) PROVE TypeParts'
  <2>1. BackendTypeOK'
    BY <1>17, <1>b DEF Fetch, CallReturns, backendVars, BackendTypeOK
  <2>2. ObjectTypeOK'
    BY <1>17, <1>b DEF Fetch, objectVars, ObjectTypeOK, Statuses
  <2>3. CallTypeOK'
    BY <1>17, LeaveType DEF Fetch
  <2>4. QED
    BY <2>1, <2>2, <2>3
<1>18. ASSUME NEW t \in Threads, CallFails(t) PROVE TypeParts'
  <2>1. BackendTypeOK'
    BY <1>18, <1>b DEF CallFails, CallRaises, backendVars, BackendTypeOK
  <2>2. ObjectTypeOK' /\ CallTypeOK'
    BY <1>18, FailType DEF CallFails
  <2>3. QED
    BY <2>1, <2>2
<1>19. ASSUME NEW t \in Threads, Detach(t) PROVE TypeParts'
  <2>1. BackendTypeOK'
    BY <1>19, <1>b DEF Detach, DropHandle, BackendTypeOK
  <2>2. ObjectTypeOK'
    BY <1>19, <1>b DEF Detach, objectVars, ObjectTypeOK, Statuses
  <2>3. CallTypeOK'
    BY <1>19, LeaveType DEF Detach
  <2>4. QED
    BY <2>1, <2>2, <2>3
<1>20. ASSUME NEW t \in Threads, DetachFails(t) PROVE TypeParts'
  <2>1. BackendTypeOK'
    BY <1>20, <1>b DEF DetachFails, DropHandle, BackendTypeOK
  <2>2. ObjectTypeOK' /\ CallTypeOK'
    BY <1>20, FailType DEF DetachFails
  <2>3. QED
    BY <2>1, <2>2
<1>21. ASSUME NEW t \in Threads, Terminate(t) PROVE TypeParts'
  <2>1. BackendTypeOK'
    BY <1>21, <1>b DEF Terminate, TerminateReturns, Kill, RemoteStates, BackendTypeOK
  <2>2. ObjectTypeOK'
    BY <1>21, <1>b DEF Terminate, objectVars, ObjectTypeOK, Statuses
  <2>3. CallTypeOK'
    BY <1>21, ContinueType DEF Terminate, Critical
  <2>4. QED
    BY <2>1, <2>2, <2>3
<1>22. ASSUME NEW t \in Threads, TerminateFails(t) PROVE TypeParts'
  <2>1. BackendTypeOK'
    BY <1>22, <1>b DEF TerminateFails, TerminateRaises, Kill, RemoteStates, BackendTypeOK
  <2>2. ObjectTypeOK' /\ CallTypeOK'
    BY <1>22, FailType DEF TerminateFails
  <2>3. QED
    BY <2>1, <2>2
<1>23. ASSUME NEW t \in Threads, Finally(t) PROVE TypeParts'
  <2>1. BackendTypeOK'
    BY <1>23, <1>b DEF Finally, DropHandle, BackendTypeOK
  <2>2. ObjectTypeOK'
    BY <1>23, <1>b DEF Finally, objectVars, ObjectTypeOK, Statuses
  <2>3. CallTypeOK'
    BY <1>23, LeaveType DEF Finally
  <2>4. QED
    BY <2>1, <2>2, <2>3
<1>24. ASSUME NEW t \in Threads, FinallyFails(t) PROVE TypeParts'
  <2>1. BackendTypeOK'
    BY <1>24, <1>b DEF FinallyFails, DropHandle, BackendTypeOK
  <2>2. ObjectTypeOK'
    BY <1>24, <1>b DEF FinallyFails, objectVars, ObjectTypeOK, Statuses
  <2>3. CallTypeOK'
    BY <1>24, LeaveType DEF FinallyFails
  <2>4. QED
    BY <2>1, <2>2, <2>3
<1>25. CASE SandboxExpires
  BY <1>25 DEF SandboxExpires, Expire, RemoteStates, BackendTypeOK, ObjectTypeOK,
               CallTypeOK, objectVars, callVars
<1>26. CASE UNCHANGED vars
  BY <1>26 DEF vars, BackendTypeOK, ObjectTypeOK, CallTypeOK, backendVars, objectVars,
               callVars
<1> HIDE DEF TypeParts
<1>27. QED
    BY <1>1, <1>2, <1>3, <1>4, <1>5, <1>6, <1>7, <1>8, <1>9, <1>10, <1>11, <1>12,
     <1>13, <1>14, <1>15, <1>16, <1>17, <1>18, <1>19, <1>20, <1>21, <1>22, <1>23,
     <1>24, <1>25, <1>26 DEF Next, SessionStep, Enter, Work

\* A thread inside a method keeps its session's lock and what holds at its place.
LEMMA ControlStep == IInv /\ [Next]_vars => ControlInv'
<1> SUFFICES ASSUME IInv, [Next]_vars PROVE ControlInv'
  OBVIOUS
<1> USE NoThreadAssumption DEF IInv, SessionTypeOK, BackendTypeOK, RemoteStates,
       Statuses, Operations, Critical, ControlInv, LockHeld, CallPlace, CloseOutcome,
       Cached, Usable, RunPhases, Leave, EndCall, Goto, Continue, Fail, objectVars,
       callVars, backendVars
<1>1. ASSUME NEW t \in Threads, NEW s \in Sessions, NEW o \in Operations, Begin(t, s, o)
      PROVE  ControlInv'
  BY <1>1 DEF Begin
<1>2. ASSUME NEW t \in Threads, CancelWaiting(t) PROVE ControlInv'
  BY <1>2 DEF CancelWaiting
<1>3. ASSUME NEW t \in Threads, EnterRejected(t) PROVE ControlInv'
  BY <1>3 DEF EnterRejected, CanEnter
<1>4. ASSUME NEW t \in Threads, EnterUsable(t) PROVE ControlInv'
  BY <1>4 DEF EnterUsable, CanEnter, Acquire
<1>5. ASSUME NEW t \in Threads, EnterCloseLocal(t) PROVE ControlInv'
  BY <1>5 DEF EnterCloseLocal, CanEnter
<1>6. ASSUME NEW t \in Threads, EnterClose(t) PROVE ControlInv'
  BY <1>6 DEF EnterClose, CanEnter, Acquire
<1>7. ASSUME NEW t \in Threads, StartCached(t) PROVE ControlInv'
  BY <1>7 DEF StartCached, Started, Activate, NumberRun
<1>8. ASSUME NEW t \in Threads, Hydrate(t) PROVE ControlInv'
  <2>1. LockHeld'
    BY <1>8 DEF Hydrate
  <2>2. Cached(on[t])' /\ \A s \in Sessions : Cached(s) => Cached(s)'
    BY <1>8, NoSandboxAssumption DEF Hydrate, HydrateReturns
  <2> HIDE DEF Cached
  <2>3. CallPlace' /\ CloseOutcome'
    BY <1>8, <2>2 DEF Hydrate
  <2>4. QED
    BY <2>1, <2>3
<1>9. ASSUME NEW t \in Threads, HydrateFails(t) PROVE ControlInv'
  BY <1>9 DEF HydrateFails, HydrateRaises, Create
<1>10. ASSUME NEW t \in Threads, Prepare(t) PROVE ControlInv'
  BY <1>10 DEF Prepare, PrepareReturns, Started, Activate, NumberRun
<1>11. ASSUME NEW t \in Threads, PrepareFails(t) PROVE ControlInv'
  BY <1>11 DEF PrepareFails, PrepareRaises
<1>12. ASSUME NEW t \in Threads, CaptureBefore(t) PROVE ControlInv'
  BY <1>12 DEF CaptureBefore, CallReturns
<1>13. ASSUME NEW t \in Threads, Exec(t) PROVE ControlInv'
  BY <1>13 DEF Exec, CallReturns
<1>14. ASSUME NEW t \in Threads, CaptureAfter(t) PROVE ControlInv'
  BY <1>14 DEF CaptureAfter, CallReturns
<1>15. ASSUME NEW t \in Threads, Record(t) PROVE ControlInv'
  BY <1>15 DEF Record
<1>16. ASSUME NEW t \in Threads, RecordFails(t) PROVE ControlInv'
  BY <1>16 DEF RecordFails
<1>17. ASSUME NEW t \in Threads, Fetch(t) PROVE ControlInv'
  BY <1>17 DEF Fetch, CallReturns
<1>18. ASSUME NEW t \in Threads, CallFails(t) PROVE ControlInv'
  BY <1>18 DEF CallFails, CallRaises
<1>19. ASSUME NEW t \in Threads, Detach(t) PROVE ControlInv'
  BY <1>19 DEF Detach, DropHandle
<1>20. ASSUME NEW t \in Threads, DetachFails(t) PROVE ControlInv'
  BY <1>20 DEF DetachFails, DropHandle
<1>21. ASSUME NEW t \in Threads, Terminate(t) PROVE ControlInv'
  BY <1>21 DEF Terminate, TerminateReturns, Kill
<1>22. ASSUME NEW t \in Threads, TerminateFails(t) PROVE ControlInv'
  BY <1>22 DEF TerminateFails, TerminateRaises, Kill
<1>23. ASSUME NEW t \in Threads, Finally(t) PROVE ControlInv'
  BY <1>23 DEF Finally, DropHandle
<1>24. ASSUME NEW t \in Threads, FinallyFails(t) PROVE ControlInv'
  BY <1>24 DEF FinallyFails, DropHandle
<1>25. CASE SandboxExpires
  BY <1>25 DEF SandboxExpires, Expire
<1>26. CASE UNCHANGED vars
  BY <1>26 DEF vars
<1> HIDE DEF IInv, SessionTypeOK, BackendTypeOK, RemoteStates,
       Statuses, Operations, Critical, ControlInv, LockHeld, CallPlace, CloseOutcome,
       Cached, Usable, RunPhases, Leave, EndCall, Goto, Continue, Fail, objectVars,
       callVars, backendVars
<1>27. QED
    BY <1>1, <1>2, <1>3, <1>4, <1>5, <1>6, <1>7, <1>8, <1>9, <1>10, <1>11, <1>12,
     <1>13, <1>14, <1>15, <1>16, <1>17, <1>18, <1>19, <1>20, <1>21, <1>22, <1>23,
     <1>24, <1>25, <1>26 DEF Next, SessionStep, Enter, Work

\* Handles, ids, statuses and the remote sandboxes stay consistent.
LEMMA HandleStep == IInv /\ [Next]_vars => HandleInv'
<1> SUFFICES ASSUME IInv, [Next]_vars PROVE HandleInv'
  OBVIOUS
<1> USE NoSandboxAssumption, NoThreadAssumption DEF IInv, SessionTypeOK,
       BackendTypeOK, RemoteStates, Statuses, Operations, Critical, ControlInv,
       HandleInv, LockHeld, CallPlace, HandleHasId, DetachedStatus,
       CommandsHaveAttachment, ReleasedHoldsNothing, TerminatedIsGone, Cached,
       Usable, Leave, EndCall, Goto, Continue, Fail, objectVars, callVars,
       backendVars
<1>1. ASSUME NEW t \in Threads, NEW s \in Sessions, NEW o \in Operations, Begin(t, s, o)
      PROVE  HandleInv'
  BY <1>1 DEF Begin
<1>2. ASSUME NEW t \in Threads, CancelWaiting(t) PROVE HandleInv'
  BY <1>2 DEF CancelWaiting
<1>3. ASSUME NEW t \in Threads, EnterRejected(t) PROVE HandleInv'
  BY <1>3 DEF EnterRejected, CanEnter
<1>4. ASSUME NEW t \in Threads, EnterUsable(t) PROVE HandleInv'
  BY <1>4 DEF EnterUsable, CanEnter, Acquire
<1>5. ASSUME NEW t \in Threads, EnterCloseLocal(t) PROVE HandleInv'
  BY <1>5 DEF EnterCloseLocal, CanEnter
<1>6. ASSUME NEW t \in Threads, EnterClose(t) PROVE HandleInv'
  BY <1>6 DEF EnterClose, CanEnter, Acquire
<1>7. ASSUME NEW t \in Threads, StartCached(t) PROVE HandleInv'
  BY <1>7 DEF StartCached, Started, Activate, NumberRun
<1>8. ASSUME NEW t \in Threads, Hydrate(t) PROVE HandleInv'
  BY <1>8 DEF Hydrate, HydrateReturns, Create
<1>9. ASSUME NEW t \in Threads, HydrateFails(t) PROVE HandleInv'
  BY <1>9 DEF HydrateFails, HydrateRaises, Create
<1>10. ASSUME NEW t \in Threads, Prepare(t) PROVE HandleInv'
  BY <1>10 DEF Prepare, PrepareReturns, Started, Activate, NumberRun
<1>11. ASSUME NEW t \in Threads, PrepareFails(t) PROVE HandleInv'
  BY <1>11 DEF PrepareFails, PrepareRaises
<1>12. ASSUME NEW t \in Threads, CaptureBefore(t) PROVE HandleInv'
  BY <1>12 DEF CaptureBefore, CallReturns
<1>13. ASSUME NEW t \in Threads, Exec(t) PROVE HandleInv'
  BY <1>13 DEF Exec, CallReturns
<1>14. ASSUME NEW t \in Threads, CaptureAfter(t) PROVE HandleInv'
  BY <1>14 DEF CaptureAfter, CallReturns
<1>15. ASSUME NEW t \in Threads, Record(t) PROVE HandleInv'
  BY <1>15 DEF Record
<1>16. ASSUME NEW t \in Threads, RecordFails(t) PROVE HandleInv'
  BY <1>16 DEF RecordFails
<1>17. ASSUME NEW t \in Threads, Fetch(t) PROVE HandleInv'
  BY <1>17 DEF Fetch, CallReturns
<1>18. ASSUME NEW t \in Threads, CallFails(t) PROVE HandleInv'
  BY <1>18 DEF CallFails, CallRaises
<1>19. ASSUME NEW t \in Threads, Detach(t) PROVE HandleInv'
  BY <1>19 DEF Detach, DropHandle
<1>20. ASSUME NEW t \in Threads, DetachFails(t) PROVE HandleInv'
  BY <1>20 DEF DetachFails, DropHandle
<1>21. ASSUME NEW t \in Threads, Terminate(t) PROVE HandleInv'
  BY <1>21 DEF Terminate, TerminateReturns, Kill
<1>22. ASSUME NEW t \in Threads, TerminateFails(t) PROVE HandleInv'
  BY <1>22 DEF TerminateFails, TerminateRaises, Kill
<1>23. ASSUME NEW t \in Threads, Finally(t) PROVE HandleInv'
  BY <1>23 DEF Finally, DropHandle
<1>24. ASSUME NEW t \in Threads, FinallyFails(t) PROVE HandleInv'
  BY <1>24 DEF FinallyFails, DropHandle
<1>25. CASE SandboxExpires
  BY <1>25 DEF SandboxExpires, Expire
<1>26. CASE UNCHANGED vars
  BY <1>26 DEF vars
<1> HIDE DEF IInv, SessionTypeOK,
       BackendTypeOK, RemoteStates, Statuses, Operations, Critical, ControlInv,
       HandleInv, LockHeld, CallPlace, HandleHasId, DetachedStatus,
       CommandsHaveAttachment, ReleasedHoldsNothing, TerminatedIsGone, Cached,
       Usable, Leave, EndCall, Goto, Continue, Fail, objectVars, callVars,
       backendVars
<1>27. QED
    BY <1>1, <1>2, <1>3, <1>4, <1>5, <1>6, <1>7, <1>8, <1>9, <1>10, <1>11, <1>12,
     <1>13, <1>14, <1>15, <1>16, <1>17, <1>18, <1>19, <1>20, <1>21, <1>22, <1>23,
     <1>24, <1>25, <1>26 DEF Next, SessionStep, Enter, Work

\* A run keeps the latest number of its session until it is recorded.
LEMMA NumberStep == IInv /\ [Next]_vars => NumberInv'
<1> SUFFICES ASSUME IInv, [Next]_vars PROVE NumberInv'
  OBVIOUS
<1> USE NoThreadAssumption DEF IInv, SessionTypeOK, BackendTypeOK, RemoteStates,
       Statuses, Operations, Critical, ControlInv, NumberInv, LockHeld, RunPhases,
       NumbersInOrder, RunHoldsLatestNumber, Leave, EndCall, Goto, Continue, Fail,
       objectVars, callVars, backendVars
<1>1. ASSUME NEW t \in Threads, NEW s \in Sessions, NEW o \in Operations, Begin(t, s, o)
      PROVE  NumberInv'
  BY <1>1 DEF Begin
<1>2. ASSUME NEW t \in Threads, CancelWaiting(t) PROVE NumberInv'
  BY <1>2 DEF CancelWaiting
<1>3. ASSUME NEW t \in Threads, EnterRejected(t) PROVE NumberInv'
  BY <1>3 DEF EnterRejected, CanEnter
<1>4. ASSUME NEW t \in Threads, EnterUsable(t) PROVE NumberInv'
  BY <1>4 DEF EnterUsable, CanEnter, Acquire
<1>5. ASSUME NEW t \in Threads, EnterCloseLocal(t) PROVE NumberInv'
  BY <1>5 DEF EnterCloseLocal, CanEnter
<1>6. ASSUME NEW t \in Threads, EnterClose(t) PROVE NumberInv'
  BY <1>6 DEF EnterClose, CanEnter, Acquire
<1>7. ASSUME NEW t \in Threads, StartCached(t) PROVE NumberInv'
  BY <1>7 DEF StartCached, Started, Activate, NumberRun
<1>8. ASSUME NEW t \in Threads, Hydrate(t) PROVE NumberInv'
  BY <1>8 DEF Hydrate, HydrateReturns, Create
<1>9. ASSUME NEW t \in Threads, HydrateFails(t) PROVE NumberInv'
  BY <1>9 DEF HydrateFails, HydrateRaises, Create
<1>10. ASSUME NEW t \in Threads, Prepare(t) PROVE NumberInv'
  BY <1>10 DEF Prepare, PrepareReturns, Started, Activate, NumberRun
<1>11. ASSUME NEW t \in Threads, PrepareFails(t) PROVE NumberInv'
  BY <1>11 DEF PrepareFails, PrepareRaises
<1>12. ASSUME NEW t \in Threads, CaptureBefore(t) PROVE NumberInv'
  BY <1>12 DEF CaptureBefore, CallReturns
<1>13. ASSUME NEW t \in Threads, Exec(t) PROVE NumberInv'
  BY <1>13 DEF Exec, CallReturns
<1>14. ASSUME NEW t \in Threads, CaptureAfter(t) PROVE NumberInv'
  BY <1>14 DEF CaptureAfter, CallReturns
<1>15. ASSUME NEW t \in Threads, Record(t) PROVE NumberInv'
  BY <1>15 DEF Record
<1>16. ASSUME NEW t \in Threads, RecordFails(t) PROVE NumberInv'
  BY <1>16 DEF RecordFails
<1>17. ASSUME NEW t \in Threads, Fetch(t) PROVE NumberInv'
  BY <1>17 DEF Fetch, CallReturns
<1>18. ASSUME NEW t \in Threads, CallFails(t) PROVE NumberInv'
  BY <1>18 DEF CallFails, CallRaises
<1>19. ASSUME NEW t \in Threads, Detach(t) PROVE NumberInv'
  BY <1>19 DEF Detach, DropHandle
<1>20. ASSUME NEW t \in Threads, DetachFails(t) PROVE NumberInv'
  BY <1>20 DEF DetachFails, DropHandle
<1>21. ASSUME NEW t \in Threads, Terminate(t) PROVE NumberInv'
  BY <1>21 DEF Terminate, TerminateReturns, Kill
<1>22. ASSUME NEW t \in Threads, TerminateFails(t) PROVE NumberInv'
  BY <1>22 DEF TerminateFails, TerminateRaises, Kill
<1>23. ASSUME NEW t \in Threads, Finally(t) PROVE NumberInv'
  BY <1>23 DEF Finally, DropHandle
<1>24. ASSUME NEW t \in Threads, FinallyFails(t) PROVE NumberInv'
  BY <1>24 DEF FinallyFails, DropHandle
<1>25. CASE SandboxExpires
  BY <1>25 DEF SandboxExpires, Expire
<1>26. CASE UNCHANGED vars
  BY <1>26 DEF vars
<1> HIDE DEF IInv, SessionTypeOK, BackendTypeOK, RemoteStates,
       Statuses, Operations, Critical, ControlInv, NumberInv, LockHeld, RunPhases,
       NumbersInOrder, RunHoldsLatestNumber, Leave, EndCall, Goto, Continue, Fail,
       objectVars, callVars, backendVars
<1>27. QED
    BY <1>1, <1>2, <1>3, <1>4, <1>5, <1>6, <1>7, <1>8, <1>9, <1>10, <1>11, <1>12,
     <1>13, <1>14, <1>15, <1>16, <1>17, <1>18, <1>19, <1>20, <1>21, <1>22, <1>23,
     <1>24, <1>25, <1>26 DEF Next, SessionStep, Enter, Work

-----------------------------------------------------------------------------
\* The inductive invariant holds at the start: nobody is inside a method.
LEMMA InitInv == Init => IInv
<1> SUFFICES ASSUME Init PROVE IInv
  OBVIOUS
<1> USE NoSandboxAssumption, NoThreadAssumption, CountAssumption DEF Init, BackendInit
<1>1. SessionTypeOK
  BY DEF SessionTypeOK, BackendTypeOK, RemoteStates, Statuses
<1>2. ControlInv
  BY DEF ControlInv, LockHeld, CallPlace, CloseOutcome, Critical, RunPhases
<1>3. HandleInv
  BY DEF HandleInv, HandleHasId, DetachedStatus, CommandsHaveAttachment,
         ReleasedHoldsNothing, TerminatedIsGone
<1>4. NumberInv
  BY DEF NumberInv, NumbersInOrder, RunHoldsLatestNumber, RunPhases
<1>5. QED
  BY <1>1, <1>2, <1>3, <1>4 DEF IInv

\* Every reachable state satisfies the inductive invariant.
THEOREM Invariance == Spec => []IInv
<1>1. IInv /\ [Next]_vars => IInv'
  BY TypeStep, ControlStep, HandleStep, NumberStep DEF IInv
<1>2. QED
  BY InitInv, <1>1, PTL DEF Spec

\* The types of the session objects, the calls, the backends and Modal's side.
THEOREM TypeCorrect == Spec => []SessionTypeOK
BY Invariance, PTL DEF IInv

\* No command is ever sent without the handle that start() left, so backend.run
\* never starts a sandbox of its own and _require_sandbox never raises.
THEOREM CommandsAttached == Spec => []CommandsHaveAttachment
<1>1. IInv => CommandsHaveAttachment
  BY DEF IInv, HandleInv
<1>2. QED
  BY Invariance, <1>1, PTL

\* Closed and detached session objects hold no handle, for good.
THEOREM ReleasedHoldNothing == Spec => []ReleasedHoldsNothing
<1>1. IInv => ReleasedHoldsNothing
  BY DEF IInv, HandleInv
<1>2. QED
  BY Invariance, <1>1, PTL

\* A run in progress has the latest number of its session.
THEOREM RunsHoldLatestNumber == Spec => []RunHoldsLatestNumber
<1>1. IInv => RunHoldsLatestNumber
  BY DEF IInv, NumberInv
<1>2. QED
  BY Invariance, <1>1, PTL

\* The sandbox of a session that says TERMINATED has ended.
THEOREM TerminatedAreGone == Spec => []TerminatedIsGone
<1>1. IInv => TerminatedIsGone
  BY DEF IInv, HandleInv
<1>2. QED
  BY Invariance, <1>1, PTL

-----------------------------------------------------------------------------
\* Runs are recorded in the order of their sequence numbers: only the run that
\* holds the lock is recorded, and its id was drawn after the recorded one's.
THEOREM RecordsInOrder == Spec => LastRunAdvances
<1> DEFINE Advances == \A s \in Sessions : lastRun'[s] # lastRun[s] => lastRun'[s] > lastRun[s]
<1>1. ASSUME IInv, [Next]_vars PROVE Advances
  <2>1. ASSUME NEW t \in Threads, Record(t) PROVE Advances
    BY <1>1, <2>1 DEF Record, IInv, SessionTypeOK, NumberInv, NumbersInOrder, RunPhases
  <2>2. ASSUME ~\E t \in Threads : Record(t) PROVE UNCHANGED lastRun
    BY <1>1, <2>2 DEF Next, SessionStep, Enter, Work, Begin, CancelWaiting, EnterRejected,
       EnterUsable, Acquire, EnterCloseLocal, EnterClose, StartCached, Started, Activate,
       Hydrate, HydrateFails, Prepare, PrepareFails, CaptureBefore, Exec, CaptureAfter,
       RecordFails, Fetch, CallFails, Detach, DetachFails, Terminate, TerminateFails,
       Finally, FinallyFails, Fail, SandboxExpires, objectVars, vars
  <2>3. QED
    BY <2>1, <2>2
<1>2. QED
  BY Invariance, <1>1, PTL DEF Spec, LastRunAdvances

\* Only a close() of a session that is not detached ends a running sandbox: its own.
THEOREM DetachLeavesRunning == Spec => OnlyCloseTerminates
<1> DEFINE Ends(b) == remote[b] = "running" /\ remote'[b] = "terminated"
<1> DEFINE Closing(b) == \E t \in Threads : /\ op[t] = "close" /\ lock[on[t]] = t
                                            /\ sandboxId[on[t]] = b /\ Usable(on[t])
<1>1. ASSUME IInv, [Next]_vars, NEW b \in Sandboxes, Ends(b) PROVE Closing(b)
  <2>1. PICK t \in Threads : Terminate(t) \/ TerminateFails(t)
    BY <1>1 DEF Next, SessionStep, Enter, Work, Begin, CancelWaiting, EnterRejected,
       EnterUsable, EnterCloseLocal, EnterClose, Acquire, StartCached, Hydrate,
       HydrateFails, Prepare, PrepareFails, Started, Activate, CaptureBefore, Exec,
       CaptureAfter, Record, RecordFails, Fetch, CallFails, Detach, DetachFails,
       Finally, FinallyFails, Fail, SandboxExpires,
       objectVars, backendVars, vars,
       HydrateReturns, HydrateRaises, Create, PrepareReturns, PrepareRaises,
       CallReturns, CallRaises, DropHandle, Expire, IInv, SessionTypeOK, BackendTypeOK
  <2>2. pc[t] = "terminate" /\ sandboxId[on[t]] = b
    BY <1>1, <2>1 DEF Terminate, TerminateReturns, TerminateFails, TerminateRaises, Kill,
       IInv, SessionTypeOK, BackendTypeOK
  <2>3. op[t] = "close" /\ lock[on[t]] = t /\ Usable(on[t])
    BY <1>1, <2>2 DEF IInv, ControlInv, LockHeld, CallPlace, Critical
  <2>4. QED
    BY <2>2, <2>3
<1>2. IInv /\ [Next]_vars => \A b \in Sandboxes : Ends(b) => Closing(b)
  BY <1>1
<1>3. QED
  BY Invariance, <1>2, PTL DEF Spec, OnlyCloseTerminates

\* A close() that holds the lock gives it up in its finally, and nowhere else.
LEMMA CloseLeavesInFinally ==
  ASSUME IInv, [Next]_vars, NEW t \in Threads,
         op[t] = "close", lock[on[t]] = t, lock'[on[t]] # t
  PROVE  Finally(t) \/ FinallyFails(t)
<1>1. PICK u \in Threads : SessionStep(u)
  BY DEF Next, Begin, SandboxExpires, vars
<1>2. u = t /\ Work(t)
  BY <1>1, NoThreadAssumption DEF SessionStep, CancelWaiting, Enter, EnterRejected, EnterUsable,
     EnterCloseLocal, EnterClose, CanEnter, Acquire, Work, StartCached, Started, Hydrate,
     HydrateFails, Prepare, PrepareFails, CaptureBefore, Exec, CaptureAfter, Record,
     RecordFails, Fetch, CallFails, Detach, DetachFails, Terminate, TerminateFails,
     Finally, FinallyFails, Fail, Continue, Leave, IInv, SessionTypeOK, ControlInv,
     LockHeld, Critical
<1>3. QED
  BY <1>2 DEF Work, StartCached, Started, Hydrate, HydrateFails, Prepare,
     PrepareFails, CaptureBefore, Exec, CaptureAfter, Record, RecordFails, Fetch,
     CallFails, Detach, DetachFails, Terminate, TerminateFails, Fail, Continue,
     IInv, ControlInv, CallPlace, RunPhases

\* A close() that held the lock gives it up without a handle: it can only leave
\* through its finally.
THEOREM CloseDropsHandle == Spec => CloseReleases
<1> DEFINE Leaves(t) == op[t] = "close" /\ lock[on[t]] = t /\ lock'[on[t]] # t
<1>1. ASSUME IInv, [Next]_vars, NEW t \in Threads, Leaves(t) PROVE ~attached'[on[t]]
  <2>1. Finally(t) \/ FinallyFails(t)
    BY <1>1, CloseLeavesInFinally
  <2>2. QED
    BY <1>1, <2>1 DEF Finally, FinallyFails, DropHandle, IInv, SessionTypeOK, BackendTypeOK
<1>2. IInv /\ [Next]_vars => \A t \in Threads : Leaves(t) => ~attached'[on[t]]
  BY <1>1
<1>3. QED
  BY Invariance, <1>2, PTL DEF Spec, CloseReleases

\* A close() that held the lock and returns has ended the session's sandbox: the finally
\* passes a pending exception on, and without one the sandbox has been terminated.
THEOREM ReturnedCloseEndsSandbox == Spec => CloseEndsSandbox
<1> DEFINE Returns(t) == op[t] = "close" /\ lock[on[t]] = t /\ lock'[on[t]] # t /\ out'[t] = "ok"
           Gone(t) == sandboxId[on[t]] # NoSandbox /\ remote'[sandboxId[on[t]]] # "running"
<1>1. ASSUME IInv, [Next]_vars, NEW t \in Threads, Returns(t) PROVE Gone(t)
  <2>1. on[t] \in Sessions /\ out \in [Threads -> {"none", "ok", "raised"}]
    BY <1>1 DEF IInv, SessionTypeOK
  <2>2. Finally(t) \/ FinallyFails(t)
    BY <1>1, CloseLeavesInFinally
  <2>3. pc[t] = "finally" /\ out[t] # "raised" /\ remote' = remote
    BY <1>1, <2>1, <2>2 DEF Finally, FinallyFails, Leave, EndCall, DropHandle
  <2>4. status[on[t]] = "terminated"
    BY <1>1, <2>3 DEF IInv, ControlInv, CloseOutcome
  <2>5. QED
    BY <1>1, <2>1, <2>3, <2>4 DEF IInv, HandleInv, TerminatedIsGone
<1>2. IInv /\ [Next]_vars => \A t \in Threads : Returns(t) => Gone(t)
  BY <1>1
<1>3. QED
  BY Invariance, <1>2, PTL DEF Spec, CloseEndsSandbox

\* A detached object is never activated again, and only an active one is detached.
THEOREM StatusForward == Spec => LifecycleForward
<1> DEFINE Forward(s) == <<status[s], status'[s]>> \in
             {<<"created", "active">>, <<"created", "terminated">>, <<"active", "detached">>,
              <<"active", "terminated">>, <<"terminated", "active">>}
<1>1. ASSUME IInv, [Next]_vars, NEW s \in Sessions, status'[s] # status[s] PROVE Forward(s)
  <2>1. PICK t \in Threads : StartCached(t) \/ Prepare(t) \/ Detach(t) \/ Terminate(t)
    BY <1>1 DEF Next, SessionStep, Enter, Work, Begin, CancelWaiting, EnterRejected,
       EnterUsable, EnterCloseLocal, EnterClose, Acquire, Hydrate, HydrateFails,
       PrepareFails, CaptureBefore, Exec, CaptureAfter, Record, RecordFails, Fetch,
       CallFails, DetachFails, TerminateFails, Finally, FinallyFails, Fail,
       SandboxExpires, objectVars, vars
  <2>2. status[on[t]] # "detached" /\ (Detach(t) => status[on[t]] = "active")
    BY <1>1, <2>1 DEF StartCached, Prepare, Detach, Terminate, IInv, ControlInv, CallPlace,
       Critical, Usable, HandleInv, DetachedStatus, SessionTypeOK
  <2>3. CASE StartCached(t) \/ Prepare(t)
    BY <1>1, <2>2, <2>3 DEF StartCached, Prepare, Started, Activate, IInv, SessionTypeOK,
       Statuses, objectVars
  <2>4. CASE Detach(t)
    BY <1>1, <2>2, <2>4 DEF Detach, IInv, SessionTypeOK, Statuses
  <2>5. CASE Terminate(t)
    BY <1>1, <2>2, <2>5 DEF Terminate, IInv, SessionTypeOK, Statuses
  <2>6. QED
    BY <2>1, <2>3, <2>4, <2>5
<1>2. IInv /\ [Next]_vars
        => \A s \in Sessions : status'[s] # status[s] => Forward(s)
  BY <1>1
<1>3. QED
  BY Invariance, <1>2, PTL DEF Spec, LifecycleForward

=============================================================================
