-------------------------- MODULE StateStoreProofs --------------------------
(***************************************************************************)
(* Proofs about StateStore, for any number of processes, threads, names    *)
(* and records: the inductive invariant, and that the store of files is an *)
(* AtomicStore.                                                            *)
(*                                                                         *)
(* What carries them is that a thread's locals and its temporary file are  *)
(* changed by its own steps only, and an entry only by a rename of a whole *)
(* record.  The lock of a process is not needed for the refinement.        *)
(***************************************************************************)
EXTENDS StateStore, TLAPS

\* The locals of the calls.
LocalsTypeOK ==
  /\ pc \in [Threads -> {"idle", "enter", "returned"} \cup Inside]
  /\ op \in [Threads -> {"none", "save", "get", "list"}]
  /\ name \in [Threads -> Names \cup {Missing}]
  /\ given \in [Threads -> Records \cup {Missing}]
  /\ left \in [Threads -> SUBSET Names]
  /\ seen \in [Threads -> [Names -> Contents]]
  /\ outcome \in [Threads -> {"none", "ok", "absent", "raised"}]

\* A call that forgets its locals leaves them typed.
LEMMA ForgetType ==
  ASSUME LocalsTypeOK, NEW T \in SUBSET Threads, Forget(T)
  PROVE  LocalsTypeOK'
BY DEF LocalsTypeOK, Forget, Nothing, Contents

\* So does one that ends, and one that goes on inside its method.
LEMMA LeaveType ==
  ASSUME TypeOK, NEW t \in Threads, NEW how \in {"ok", "absent", "raised"},
         Leave(t, how), left' \in [Threads -> SUBSET Names],
         seen' \in [Threads -> [Names -> Contents]]
  PROVE  LocalsTypeOK' /\ guard' \in [Processes -> Threads \cup {NoThread}]
BY HomeAssumption DEF TypeOK, LocalsTypeOK, Leave, Goto, argVars

LEMMA ContinueType ==
  ASSUME TypeOK, NEW t \in Threads, NEW place \in Inside, Continue(t, place),
         left' \in [Threads -> SUBSET Names], seen' \in [Threads -> [Names -> Contents]]
  PROVE  LocalsTypeOK' /\ guard' \in [Processes -> Threads \cup {NoThread}]
BY DEF TypeOK, LocalsTypeOK, Continue, Goto, argVars

\* What has been read is typed.
LEMMA LookAtType ==
  ASSUME TypeOK, NEW t \in Threads, NEW S \in SUBSET Names, LookAt(t, S)
  PROVE  left' \in [Threads -> SUBSET Names] /\ seen' \in [Threads -> [Names -> Contents]]
<1>1. left' \in [Threads -> SUBSET Names]
  BY DEF TypeOK, LookAt
<1>2. seen[t] \in [Names -> Contents] /\ \A n \in Names : Found(n) \in Contents
  BY DEF TypeOK, Found
<1>3. [n \in Names |-> IF n \in S THEN Found(n) ELSE seen[t][n]] \in [Names -> Contents]
  BY <1>2
<1>4. seen' \in [Threads -> [Names -> Contents]]
  BY <1>3 DEF TypeOK, LookAt
<1>5. QED
  BY <1>1, <1>4

TypeParts ==
  /\ entry \in [Names -> Contents]
  /\ temp \in [Threads -> Contents]
  /\ litter \subseteq Names
  /\ guard \in [Processes -> Threads \cup {NoThread}]
  /\ LocalsTypeOK

LEMMA TypeSplit == TypeOK <=> TypeParts
BY DEF TypeOK, TypeParts, LocalsTypeOK

\* Every step keeps the variables in their types.
LEMMA TypeStep == IInv /\ [Next]_vars => TypeOK'
<1> SUFFICES ASSUME IInv, [Next]_vars PROVE TypeParts'
  BY DEF TypeOK, TypeParts, LocalsTypeOK
<1>a. TypeOK /\ TypeParts
  BY TypeSplit DEF IInv
<1>b. ASSUME NEW t \in Threads, pc[t] \in {"create", "write", "rename", "unlink"}
      PROVE  name[t] \in Names /\ given[t] \in Records
  BY <1>b DEF IInv, CallPlace, CallBegun, Inside
<1>c. ASSUME UNCHANGED readVars
      PROVE  left' \in [Threads -> SUBSET Names] /\ seen' \in [Threads -> [Names -> Contents]]
  BY <1>c, <1>a DEF readVars, TypeOK
<1>1. ASSUME NEW t \in Threads, NEW o \in {"save", "get", "list"},
             NEW n \in Names \cup {Missing}, NEW r \in Records \cup {Missing},
             o = "get" => n \in Names, Call(t, o, n, r)
      PROVE  TypeParts'
  BY <1>1, <1>a DEF Call, Goto, TypeParts, LocalsTypeOK
<1>2. ASSUME NEW t \in Threads, Request(t) PROVE TypeParts'
  BY <1>2, <1>1 DEF Request
<1>3. ASSUME NEW t \in Threads, Enter(t) PROVE TypeParts'
  <2>1. FirstStep[op[t]] \in Inside
    BY <1>3 DEF Enter, IInv, CallPlace, CallBegun, FirstStep, Inside
  <2>2. QED
    BY <1>3, <1>a, <2>1, HomeAssumption
       DEF Enter, Goto, TypeParts, LocalsTypeOK, argVars, readVars
<1>4. ASSUME NEW t \in Threads, Create(t) PROVE TypeParts'
  BY <1>4, <1>a, <1>c, ContinueType DEF Create, TypeParts, Contents, Inside
<1>5. ASSUME NEW t \in Threads, CreateFails(t) PROVE TypeParts'
  BY <1>5, <1>a, <1>c, LeaveType DEF CreateFails, TypeParts
<1>6. ASSUME NEW t \in Threads, Write(t) PROVE TypeParts'
  BY <1>6, <1>a, <1>b, <1>c, ContinueType DEF Write, TypeParts, Contents, Inside
<1>7. ASSUME NEW t \in Threads, WriteFails(t) PROVE TypeParts'
  BY <1>7, <1>a, <1>b, <1>c, LeaveType DEF WriteFails, TypeParts, Contents
<1>8. ASSUME NEW t \in Threads, Rename(t) PROVE TypeParts'
  BY <1>8, <1>a, <1>b, <1>c, LeaveType DEF Rename, TypeParts, Contents
<1>9. ASSUME NEW t \in Threads, CommitFails(t) PROVE TypeParts'
  BY <1>9, <1>a, <1>c, ContinueType DEF CommitFails, TypeParts, Inside
<1>10. ASSUME NEW t \in Threads, Unlink(t) PROVE TypeParts'
  BY <1>10, <1>a, <1>b, <1>c, LeaveType DEF Unlink, TypeParts, Contents
<1>11. ASSUME NEW t \in Threads, Exists(t) PROVE TypeParts'
  <2>1. name[t] \in Names
    BY <1>11 DEF Exists, IInv, CallPlace, CallBegun, Inside
  <2>2. left' \in [Threads -> SUBSET Names] /\ seen' \in [Threads -> [Names -> Contents]]
    BY <1>11, <1>a, <1>c, <2>1, LookAtType DEF Exists
  <2>3. LocalsTypeOK' /\ guard' \in [Processes -> Threads \cup {NoThread}]
    BY <1>11, <1>a, <2>2, LeaveType, ContinueType DEF Exists, Inside
  <2>4. QED
    BY <1>11, <1>a, <2>3 DEF Exists, TypeParts
<1>12. ASSUME NEW t \in Threads, Glob(t) PROVE TypeParts'
  <2>1. left' \in [Threads -> SUBSET Names] /\ seen' \in [Threads -> [Names -> Contents]]
    BY <1>12, <1>a, LookAtType DEF Glob
  <2>2. LocalsTypeOK' /\ guard' \in [Processes -> Threads \cup {NoThread}]
    BY <1>12, <1>a, <2>1, LeaveType, ContinueType DEF Glob, Inside
  <2>3. QED
    BY <1>12, <1>a, <2>2 DEF Glob, TypeParts
<1>13. ASSUME NEW t \in Threads, Read(t) PROVE TypeParts'
  <2>1. PICK n \in left[t] :
          IF Found(n) \in Records
            THEN /\ LookAt(t, {n})
                 /\ IF left'[t] = {} THEN Leave(t, "ok") ELSE Continue(t, "read")
            ELSE Leave(t, "raised") /\ UNCHANGED readVars
    BY <1>13 DEF Read
  <2>2. {n} \in SUBSET Names
    BY <1>a DEF TypeOK
  <2>3. left' \in [Threads -> SUBSET Names] /\ seen' \in [Threads -> [Names -> Contents]]
    BY <1>a, <1>c, <2>1, <2>2, LookAtType
  <2>4. LocalsTypeOK' /\ guard' \in [Processes -> Threads \cup {NoThread}]
    BY <1>a, <2>1, <2>3, LeaveType, ContinueType DEF Inside
  <2>5. QED
    BY <1>13, <1>a, <2>4 DEF Read, TypeParts
<1>14. ASSUME NEW t \in Threads, ReadFails(t) PROVE TypeParts'
  BY <1>14, <1>a, <1>c, LeaveType DEF ReadFails, TypeParts
<1>15. ASSUME NEW t \in Threads, Return(t) PROVE TypeParts'
  <2>1. LocalsTypeOK'
    BY <1>15, <1>a, ForgetType DEF Return, TypeParts
  <2>2. QED
    BY <1>15, <1>a, <2>1 DEF Return, TypeParts
<1>16. ASSUME NEW p \in Processes, Kill(p) PROVE TypeParts'
  <2> DEFINE T == {t \in Threads : Home[t] = p}
  <2>1. LocalsTypeOK'
    BY <1>16, <1>a, ForgetType DEF Kill, TypeParts
  <2>2. \A t \in Threads : temp[t] # Missing => name[t] \in Names
    BY <1>b DEF IInv, CallPlace
  <2>3. litter' = litter \cup {name[t] : t \in {u \in T : temp[u] # Missing}}
    BY <1>16 DEF Kill
  <2>4. litter' \subseteq Names
    BY <1>a, <2>2, <2>3 DEF TypeParts
  <2>5. QED
    BY <1>16, <1>a, <2>1, <2>4 DEF Kill, TypeParts, Contents
<1>17. CASE UNCHANGED vars
  BY <1>17, <1>a DEF vars, argVars, readVars, TypeParts, LocalsTypeOK
<1>18. QED
  BY <1>2, <1>3, <1>4, <1>5, <1>6, <1>7, <1>8, <1>9, <1>10, <1>11, <1>12, <1>13, <1>14,
     <1>15, <1>16, <1>17 DEF Next, Work, WriteStep, ReadStep

-----------------------------------------------------------------------------
\* The locals and the temporary file of thread u are as they were.
Untouched(u) ==
  /\ pc'[u] = pc[u] /\ op'[u] = op[u] /\ name'[u] = name[u] /\ given'[u] = given[u]
  /\ left'[u] = left[u] /\ seen'[u] = seen[u] /\ outcome'[u] = outcome[u]
  /\ temp'[u] = temp[u]

\* A thread inside a method leaves it or goes on, and touches no other thread.
LEMMA WorkShape ==
  ASSUME TypeOK, NEW t \in Threads, Work(t)
  PROVE  /\ pc[t] \in Inside
         /\ \/ \E how \in {"ok", "absent", "raised"} : Leave(t, how)
            \/ \E place \in Inside : Continue(t, place)
         /\ \A u \in Threads \ {t} : Untouched(u)
<1> USE DEF Untouched, TypeOK, Inside, argVars, readVars, Leave, Continue, Goto
<1>1. CASE Create(t) \/ CreateFails(t)
  BY <1>1 DEF Create, CreateFails
<1>2. CASE Write(t) \/ WriteFails(t)
  BY <1>2 DEF Write, WriteFails
<1>3. CASE Rename(t) \/ CommitFails(t) \/ Unlink(t)
  BY <1>3 DEF Rename, CommitFails, Unlink
<1>4. CASE Exists(t) \/ ReadFails(t)
  BY <1>4 DEF Exists, ReadFails, LookAt
<1>5. CASE Glob(t)
  BY <1>5 DEF Glob, LookAt
<1>6. CASE Read(t)
  BY <1>6 DEF Read, LookAt
<1>7. QED
  BY <1>1, <1>2, <1>3, <1>4, <1>5, <1>6 DEF Work, WriteStep, ReadStep

\* The lock of a process is held by the thread that is inside a method.
LEMMA LockStep == IInv /\ [Next]_vars => LockHeld'
<1> SUFFICES ASSUME IInv, [Next]_vars PROVE LockHeld'
  OBVIOUS
<1>a. TypeOK /\ LockHeld
  BY DEF IInv
<1>b. \A t \in Threads : Home[t] \in Processes
  BY HomeAssumption
<1>1. ASSUME NEW t \in Threads, Request(t) PROVE LockHeld'
  <2>1. pc' = [pc EXCEPT ![t] = "enter"] /\ guard' = guard
    BY <1>1 DEF Request, Call, Goto
  <2>2. QED
    BY <1>a, <2>1 DEF LockHeld, TypeOK, Inside
<1>2. ASSUME NEW t \in Threads, Enter(t) PROVE LockHeld'
  <2>1. /\ guard' = [guard EXCEPT ![Home[t]] = t]
        /\ guard[Home[t]] = NoThread
        /\ \A u \in Threads \ {t} : pc'[u] = pc[u]
    BY <1>2, <1>a DEF Enter, Goto, TypeOK
  <2>2. QED
    BY <1>a, <1>b, <2>1, NoThreadAssumption DEF LockHeld, TypeOK
<1>3. ASSUME NEW t \in Threads, Work(t) PROVE LockHeld'
  <2>1. pc[t] \in Inside /\ guard[Home[t]] = t
    BY <1>3, <1>a, WorkShape DEF LockHeld
  <2>2. CASE \E how \in {"ok", "absent", "raised"} : Leave(t, how)
    BY <1>a, <1>b, <2>1, <2>2 DEF Leave, Goto, LockHeld, TypeOK, Inside
  <2>3. CASE \E place \in Inside : Continue(t, place)
    BY <1>a, <2>1, <2>3 DEF Continue, Goto, LockHeld, TypeOK
  <2>4. QED
    BY <1>3, <1>a, <2>2, <2>3, WorkShape
<1>4. ASSUME NEW t \in Threads, Return(t) PROVE LockHeld'
  BY <1>4, <1>a DEF Return, Forget, LockHeld, Inside
<1>5. ASSUME NEW p \in Processes, Kill(p) PROVE LockHeld'
  BY <1>5, <1>a, <1>b DEF Kill, Forget, LockHeld, Inside, TypeOK
<1>6. CASE UNCHANGED vars
  BY <1>6, <1>a DEF vars, LockHeld
<1>7. QED
  BY <1>1, <1>2, <1>3, <1>4, <1>5, <1>6 DEF Next

\* CallPlace, for one thread.
PlaceOf(t) ==
  /\ pc[t] = "idle" => seen[t] = Nothing /\ outcome[t] = "none"
  /\ pc[t] \in {"enter"} \cup Inside => CallBegun(t)
  /\ pc[t] = "enter" /\ op[t] = "list" => left[t] = Names
  /\ pc[t] \in {"create", "write", "rename", "unlink"} => op[t] = "save"
  /\ pc[t] \in {"write", "rename", "unlink"} <=> temp[t] # Missing
  /\ pc[t] = "rename" => temp[t] = given[t]
  /\ pc[t] = "exists" => op[t] = "get"
  /\ pc[t] = "glob" => op[t] = "list" /\ left[t] = Names
  /\ pc[t] = "read" => op[t] \in {"get", "list"}

LEMMA PlaceSplit == CallPlace <=> \A t \in Threads : PlaceOf(t)
BY DEF CallPlace, PlaceOf

\* What a thread knows stays true while others work.
LEMMA PlaceFrame ==
  ASSUME NEW u \in Threads, PlaceOf(u), Untouched(u)
  PROVE  PlaceOf(u)'
BY DEF PlaceOf, Untouched, CallBegun, Nothing

\* A thread that forgets its call is idle.
LEMMA PlaceForget ==
  ASSUME NEW T \in SUBSET Threads, Forget(T), NEW u \in T, temp'[u] = Missing
  PROVE  PlaceOf(u)'
<1>1. pc'[u] = "idle" /\ seen'[u] = Nothing /\ outcome'[u] = "none"
  BY DEF Forget
<1>2. QED
  BY <1>1 DEF PlaceOf, Inside, Nothing

\* One that has left its method knows nothing more.
LEMMA PlaceLeave ==
  ASSUME TypeOK, NEW t \in Threads, NEW how, Leave(t, how), temp'[t] = Missing
  PROVE  PlaceOf(t)'
<1>1. pc'[t] = "returned"
  BY DEF Leave, Goto, TypeOK
<1>2. QED
  BY <1>1 DEF PlaceOf, Inside

\* A thread that goes on inside its method knows what it has just found out.
LEMMA PlaceWork ==
  ASSUME IInv, NEW t \in Threads, Work(t)
  PROVE  PlaceOf(t)'
<1>a. TypeOK /\ PlaceOf(t)
  BY PlaceSplit DEF IInv
<1>b. pc[t] \notin {"write", "rename", "unlink"} => temp[t] = Missing
  BY <1>a DEF PlaceOf
<1>c. Partial # Missing /\ Missing \notin Records
  BY MissingAssumption
<1>1. CASE CreateFails(t) \/ ReadFails(t)
  BY <1>1, <1>a, <1>b, PlaceLeave DEF CreateFails, ReadFails
<1>2. CASE WriteFails(t) \/ Rename(t) \/ Unlink(t)
  <2>1. temp'[t] = Missing /\ \E how : Leave(t, how)
    BY <1>2, <1>a DEF WriteFails, Rename, Unlink, TypeOK
  <2>2. QED
    BY <1>a, <2>1, PlaceLeave
<1>3. CASE Create(t)
  <2>1. pc'[t] = "write" /\ temp'[t] = Partial
    BY <1>3, <1>a DEF Create, Continue, Goto, TypeOK
  <2>2. QED
    BY <1>3, <1>a, <1>c, <2>1
       DEF Create, Continue, PlaceOf, CallBegun, Inside, argVars, readVars
<1>4. CASE Write(t)
  <2>1. pc'[t] = "rename" /\ temp'[t] = given[t] /\ given[t] \in Records
    BY <1>4, <1>a DEF Write, Continue, Goto, TypeOK, PlaceOf, CallBegun, Inside
  <2>2. QED
    BY <1>4, <1>a, <1>c, <2>1
       DEF Write, Continue, PlaceOf, CallBegun, Inside, argVars, readVars
<1>5. CASE CommitFails(t)
  <2>1. pc'[t] = "unlink"
    BY <1>5, <1>a DEF CommitFails, Continue, Goto, TypeOK
  <2>2. QED
    BY <1>5, <1>a, <2>1
       DEF CommitFails, Continue, PlaceOf, CallBegun, Inside, argVars, readVars
<1>6. CASE Exists(t)
  <2>1. CASE Leave(t, "absent")
    BY <1>6, <1>a, <1>b, <2>1, PlaceLeave DEF Exists
  <2>2. CASE Continue(t, "read") /\ UNCHANGED readVars
    <3>1. pc'[t] = "read"
      BY <1>a, <2>2 DEF Continue, Goto, TypeOK
    <3>2. QED
      BY <1>6, <1>a, <2>2, <3>1
         DEF Exists, Continue, PlaceOf, CallBegun, Inside, argVars, readVars
  <2>3. QED
    BY <1>6, <2>1, <2>2 DEF Exists
<1>7. CASE Glob(t)
  <2>1. CASE Leave(t, "ok")
    BY <1>7, <1>a, <1>b, <2>1, PlaceLeave DEF Glob
  <2>2. CASE Continue(t, "read")
    <3>1. pc'[t] = "read" /\ op[t] = "list"
      BY <1>7, <1>a, <2>2 DEF Glob, Continue, Goto, TypeOK, PlaceOf
    <3>2. QED
      BY <1>7, <1>a, <2>2, <3>1 DEF Glob, Continue, PlaceOf, CallBegun, Inside, argVars
  <2>3. QED
    BY <1>7, <2>1, <2>2 DEF Glob
<1>8. CASE Read(t)
  <2>1. PICK n \in left[t] :
          IF Found(n) \in Records
            THEN /\ LookAt(t, {n})
                 /\ IF left'[t] = {} THEN Leave(t, "ok") ELSE Continue(t, "read")
            ELSE Leave(t, "raised") /\ UNCHANGED readVars
    BY <1>8 DEF Read
  <2>2. CASE \E how : Leave(t, how)
    BY <1>8, <1>a, <1>b, <2>2, PlaceLeave DEF Read
  <2>3. CASE LookAt(t, {n}) /\ left'[t] # {} /\ Continue(t, "read")
    <3>1. pc'[t] = "read"
      BY <1>a, <2>3 DEF Continue, Goto, TypeOK
    <3>2. op[t] # "get"
      <4>1. left'[t] = left[t] \ {n}
        BY <1>a, <2>3 DEF LookAt, TypeOK
      <4>2. QED
        BY <1>8, <1>a, <2>1, <2>3, <4>1 DEF Read, PlaceOf, CallBegun, Inside
    <3>3. QED
      BY <1>8, <1>a, <2>3, <3>1, <3>2
         DEF Read, Continue, PlaceOf, CallBegun, Inside, argVars
  <2>4. QED
    BY <2>1, <2>2, <2>3
<1>9. QED
  BY <1>1, <1>2, <1>3, <1>4, <1>5, <1>6, <1>7, <1>8 DEF Work, WriteStep, ReadStep

\* Every thread knows, at its place, what CallPlace says.
LEMMA PlaceStep == IInv /\ [Next]_vars => CallPlace'
<1> SUFFICES ASSUME IInv, [Next]_vars, NEW u \in Threads PROVE PlaceOf(u)'
  BY DEF CallPlace, PlaceOf
<1>a. TypeOK /\ PlaceOf(u)
  BY PlaceSplit DEF IInv
<1>1. ASSUME NEW t \in Threads, NEW o \in {"save", "get", "list"}, NEW n, NEW r,
             o = "save" => n \in Names /\ r \in Records, o = "get" => n \in Names,
             Call(t, o, n, r)
      PROVE  PlaceOf(u)'
  <2>1. CASE u = t
    <3>1. /\ pc'[t] = "enter" /\ op'[t] = o /\ name'[t] = n /\ given'[t] = r
          /\ left'[t] = IF o = "list" THEN Names ELSE IF o = "get" THEN {n} ELSE {}
      BY <1>1, <1>a DEF Call, Goto, TypeOK
    <3>2. temp'[t] = Missing
      BY <1>1, <1>a, <2>1 DEF Call, PlaceOf
    <3>3. QED
      BY <1>1, <2>1, <3>1, <3>2 DEF PlaceOf, CallBegun, Inside
  <2>2. CASE u # t
    BY <1>1, <1>a, <2>2, PlaceFrame DEF Call, Goto, Untouched, TypeOK
  <2>3. QED
    BY <2>1, <2>2
<1>2. ASSUME NEW t \in Threads, Request(t) PROVE PlaceOf(u)'
  BY <1>2, <1>1 DEF Request
<1>3. ASSUME NEW t \in Threads, Enter(t) PROVE PlaceOf(u)'
  <2>1. CASE u = t
    <3>1. pc'[t] = FirstStep[op[t]] /\ CallBegun(t)
      BY <1>3, <1>a, <2>1 DEF Enter, Goto, TypeOK, PlaceOf
    <3>2. QED
      BY <1>3, <1>a, <2>1, <3>1
         DEF Enter, FirstStep, PlaceOf, CallBegun, Inside, argVars, readVars
  <2>2. CASE u # t
    BY <1>3, <1>a, <2>2, PlaceFrame DEF Enter, Goto, Untouched, TypeOK, argVars, readVars
  <2>3. QED
    BY <2>1, <2>2
<1>4. ASSUME NEW t \in Threads, Work(t) PROVE PlaceOf(u)'
  BY <1>4, <1>a, PlaceWork, PlaceFrame, WorkShape
<1>5. ASSUME NEW t \in Threads, Return(t) PROVE PlaceOf(u)'
  <2>1. CASE u = t
    BY <1>5, <1>a, <2>1, PlaceForget DEF Return, PlaceOf
  <2>2. CASE u # t
    BY <1>5, <1>a, <2>2, PlaceFrame DEF Return, Forget, Untouched
  <2>3. QED
    BY <2>1, <2>2
<1>6. ASSUME NEW p \in Processes, Kill(p) PROVE PlaceOf(u)'
  <2>1. CASE Home[u] = p
    BY <1>6, <2>1, PlaceForget DEF Kill
  <2>2. CASE Home[u] # p
    BY <1>6, <1>a, <2>2, PlaceFrame DEF Kill, Forget, Untouched
  <2>3. QED
    BY <2>1, <2>2
<1>7. CASE UNCHANGED vars
  BY <1>7, <1>a, PlaceFrame DEF vars, argVars, readVars, Untouched
<1>8. QED
  BY <1>2, <1>3, <1>4, <1>5, <1>6, <1>7 DEF Next

\* An entry is only replaced by a whole record: the one the call was given.
LEMMA EntryStep ==
  ASSUME IInv, [Next]_vars
  PROVE  \/ UNCHANGED entry
         \/ \E t \in Threads : /\ Rename(t) /\ given[t] \in Records /\ name[t] \in Names
                               /\ entry' = [entry EXCEPT ![name[t]] = given[t]]
<1>1. ASSUME NEW t \in Threads, Rename(t)
      PROVE  /\ given[t] \in Records /\ name[t] \in Names
             /\ entry' = [entry EXCEPT ![name[t]] = given[t]]
  BY <1>1 DEF Rename, IInv, CallPlace, CallBegun, Inside
<1>2. ASSUME NEW t \in Threads, Work(t), ~Rename(t) PROVE UNCHANGED entry
  BY <1>2 DEF Work, WriteStep, ReadStep, Create, CreateFails, Write, WriteFails, CommitFails,
              Unlink, Exists, Glob, Read, ReadFails
<1>3. ASSUME NEW t \in Threads, Request(t) \/ Enter(t) \/ Return(t) PROVE UNCHANGED entry
  BY <1>3 DEF Request, Call, Enter, Return
<1>4. ASSUME NEW p \in Processes, Kill(p) PROVE UNCHANGED entry
  BY <1>4 DEF Kill
<1>5. QED
  BY <1>1, <1>2, <1>3, <1>4 DEF Next, vars

LEMMA WholeStep == IInv /\ [Next]_vars => OnlyWholeRecords'
BY EntryStep, PartialAssumption DEF IInv, TypeOK, OnlyWholeRecords

\* In every reachable state one thread at most is inside a method of each process, and
\* it finds what it wrote and asked for as it left it.
THEOREM Invariance == Spec => []IInv
<1>1. Init => IInv
  BY PartialAssumption, MissingAssumption
     DEF Init, IInv, TypeOK, LockHeld, CallPlace, OnlyWholeRecords, Nothing, Contents, Inside
<1>2. IInv /\ [Next]_vars => IInv'
  BY TypeStep, LockStep, PlaceStep, WholeStep DEF IInv
<1>3. QED
  BY <1>1, <1>2, PTL DEF Spec

\* No file of a record is ever seen half written, for any number of processes and
\* threads, killed or failing anywhere.
THEOREM RecordsAreWhole == Spec => []OnlyWholeRecords
<1>1. IInv => OnlyWholeRecords
  BY DEF IInv
<1>2. QED
  BY Invariance, <1>1, PTL

-----------------------------------------------------------------------------
(* StateStore implements AtomicStore. *)

\* A method's step changes the stage of its own call only, and only by leaving.
LEMMA StageWork ==
  ASSUME TypeOK, NEW t \in Threads, pc[t] \in Inside
  PROVE  /\ Stage[t] = "asked"
         /\ \A how : Leave(t, how) => Stage' = [Stage EXCEPT ![t] = "done"]
         /\ \A place \in Inside : Continue(t, place) => Stage' = Stage
<1>1. Stage[t] = "asked"
  BY DEF Stage, Inside
<1>2. ASSUME NEW how, Leave(t, how) PROVE Stage' = [Stage EXCEPT ![t] = "done"]
  BY <1>2 DEF Leave, Goto, Stage, TypeOK
<1>3. ASSUME NEW place \in Inside, Continue(t, place) PROVE Stage' = Stage
  BY <1>3, <1>1 DEF Continue, Goto, Stage, TypeOK, Inside
<1>4. QED
  BY <1>1, <1>2, <1>3

\* A method that raises has refused the call.
LEMMA RaiseRefuses ==
  ASSUME TypeOK, NEW t \in Threads, pc[t] \in Inside, Leave(t, "raised"),
         UNCHANGED <<entry, readVars>>
  PROVE  Atomic!Refuse(t)
BY StageWork DEF Atomic!Refuse, Atomic!Finish, Leave, argVars, readVars

\* One that goes on without having looked at a record or replaced one is a stutter.
LEMMA ContinueStutters ==
  ASSUME TypeOK, NEW t \in Threads, pc[t] \in Inside, NEW place \in Inside,
         Continue(t, place), UNCHANGED <<entry, readVars>>
  PROVE  UNCHANGED Atomic!storeVars
BY StageWork DEF Atomic!storeVars, Atomic!callVars, Continue, argVars, readVars

\* A look at the files is a look at the records.
LEMMA LookIsLook ==
  ASSUME IInv, NEW t \in Threads, pc[t] \in {"exists", "read", "glob"},
         NEW S \in SUBSET left[t], S # {}, LookAt(t, S), UNCHANGED entry,
         IF left'[t] = {}
           THEN Leave(t, IF op[t] = "get" /\ entry[name[t]] = Missing THEN "absent" ELSE "ok")
           ELSE \E place \in Inside : Continue(t, place)
  PROVE  Atomic!Look(t, S)
<1>a. TypeOK /\ pc[t] \in Inside /\ op[t] \in {"get", "list"}
  BY DEF IInv, CallPlace, Inside
<1>1. /\ left' = [left EXCEPT ![t] = @ \ S]
      /\ seen' = [seen EXCEPT ![t] = [n \in Names |-> IF n \in S THEN entry[n] ELSE @[n]]]
  BY DEF LookAt, Found
<1>2. CASE left'[t] = {}
  BY <1>a, <1>1, <1>2, StageWork DEF Atomic!Look, Atomic!Finish, Leave, argVars
<1>3. CASE left'[t] # {}
  BY <1>a, <1>1, <1>3, StageWork DEF Atomic!Look, Continue, argVars
<1>4. QED
  BY <1>2, <1>3

\* A call that is asked of the files is asked of the store.
LEMMA CallIsAsk ==
  ASSUME IInv, NEW t \in Threads, NEW o, NEW n, NEW r, Call(t, o, n, r)
  PROVE  Atomic!Ask(t, o, n, r)
<1>1. TypeOK /\ pc[t] = "idle" /\ seen[t] = Nothing /\ outcome[t] = "none"
  BY DEF IInv, CallPlace, Call
<1>2. Stage[t] = "idle" /\ Stage' = [Stage EXCEPT ![t] = "asked"]
  BY <1>1 DEF Stage, Call, Goto, TypeOK
<1>3. /\ seen = [seen EXCEPT ![t] = Atomic!Nothing]
      /\ outcome = [outcome EXCEPT ![t] = "none"]
  BY <1>1 DEF TypeOK, Nothing, Atomic!Nothing
<1>4. QED
  BY <1>2, <1>3 DEF Call, Atomic!Ask

\* Forgotten calls are forgotten.
LEMMA ForgetIsForget ==
  ASSUME NEW T \in SUBSET Threads, Forget(T), UNCHANGED entry
  PROVE  Atomic!Forget(T)
<1>1. Stage' = [c \in Threads |-> IF c \in T THEN "idle" ELSE Stage[c]]
  BY DEF Forget, Stage
<1>2. QED
  BY <1>1 DEF Forget, Atomic!Forget, Nothing, Atomic!Nothing

\* The steps of a method: a put, a look, a refusal or nothing at all.
LEMMA WorkImplements ==
  ASSUME IInv, NEW t \in Threads, Work(t)
  PROVE  Atomic!Next \/ UNCHANGED Atomic!storeVars
<1>a. TypeOK /\ pc[t] \in Inside
  BY WorkShape DEF IInv
<1>1. CASE CreateFails(t) \/ WriteFails(t) \/ Unlink(t) \/ ReadFails(t)
  <2>1. Leave(t, "raised") /\ UNCHANGED <<entry, readVars>>
    BY <1>1 DEF CreateFails, WriteFails, Unlink, ReadFails
  <2>2. QED
    BY <1>a, <2>1, RaiseRefuses DEF Atomic!Next
<1>2. CASE Create(t) \/ Write(t) \/ CommitFails(t)
  <2>1. UNCHANGED <<entry, readVars>> /\ \E place \in Inside : Continue(t, place)
    BY <1>2 DEF Create, Write, CommitFails, Inside
  <2>2. QED
    BY <1>a, <2>1, ContinueStutters
<1>3. CASE Rename(t)
  <2>1. op[t] = "save" /\ temp[t] = given[t]
    BY <1>3 DEF Rename, IInv, CallPlace
  <2>2. Atomic!Put(t)
    BY <1>3, <1>a, <2>1, StageWork
       DEF Rename, Atomic!Put, Atomic!Finish, Leave, argVars, readVars
  <2>3. QED
    BY <2>2 DEF Atomic!Next
<1>4. CASE Exists(t)
  <2>1. op[t] = "get" /\ left[t] = {name[t]} /\ name[t] \in Names
    BY <1>4 DEF Exists, IInv, CallPlace, CallBegun, Inside
  <2>2. CASE entry[name[t]] = Missing
    <3>1. left'[t] = {}
      BY <1>4, <1>a, <2>1, <2>2 DEF Exists, LookAt, TypeOK
    <3>2. Atomic!Look(t, {name[t]})
      BY <1>4, <2>1, <2>2, <3>1, LookIsLook DEF Exists
    <3>3. QED
      BY <2>1, <3>2 DEF Atomic!Next
  <2>3. CASE entry[name[t]] # Missing
    BY <1>4, <1>a, <2>3, ContinueStutters DEF Exists, Inside
  <2>4. QED
    BY <2>2, <2>3
<1>5. CASE Glob(t)
  <2> DEFINE absent == {n \in Names : entry[n] = Missing}
  <2>1. op[t] = "list" /\ left[t] = Names
    BY <1>5 DEF Glob, IInv, CallPlace
  <2>2. LookAt(t, absent) /\ left'[t] = Names \ absent
    BY <1>5, <1>a, <2>1 DEF Glob, LookAt, TypeOK
  <2>3. CASE absent = {}
    <3>1. Continue(t, "read")
      BY <1>5, <2>3, NamesAssumption DEF Glob
    <3>2. left' = left
      BY <1>a, <2>2, <2>3 DEF LookAt, TypeOK
    <3>3. seen' = seen
      <4>1. seen[t] = [n \in Names |-> IF n \in absent THEN Found(n) ELSE seen[t][n]]
        BY <1>a, <2>3 DEF TypeOK
      <4>2. QED
        BY <1>a, <2>2, <4>1 DEF LookAt, TypeOK
    <3>4. UNCHANGED <<entry, readVars>>
      BY <1>5, <3>2, <3>3 DEF Glob, readVars
    <3>5. QED
      BY <1>a, <3>1, <3>4, ContinueStutters DEF Inside
  <2>4. CASE absent # {}
    <3>1. left'[t] = {} <=> absent = Names
      BY <2>2
    <3>2. IF left'[t] = {} THEN Leave(t, "ok") ELSE Continue(t, "read")
      BY <1>5, <3>1 DEF Glob
    <3>3. Atomic!Look(t, absent)
      BY <1>5, <2>1, <2>2, <2>4, <3>2, LookIsLook DEF Glob, Inside
    <3>4. QED
      BY <3>3 DEF Atomic!Next
  <2>5. QED
    BY <2>3, <2>4
<1>6. CASE Read(t)
  <2>1. PICK n \in left[t] :
          IF Found(n) \in Records
            THEN /\ LookAt(t, {n})
                 /\ IF left'[t] = {} THEN Leave(t, "ok") ELSE Continue(t, "read")
            ELSE Leave(t, "raised") /\ UNCHANGED readVars
    BY <1>6 DEF Read
  <2>2. n \in Names /\ (op[t] = "get" => n = name[t])
    BY <1>6, <1>a DEF Read, IInv, TypeOK, CallPlace, CallBegun, Inside
  <2>3. CASE Found(n) \in Records
    <3>1. ~(op[t] = "get" /\ entry[name[t]] = Missing)
      BY <2>2, <2>3, MissingAssumption DEF Found
    <3>2. Atomic!Look(t, {n})
      BY <1>6, <2>1, <2>3, <3>1, LookIsLook DEF Read, Inside
    <3>3. QED
      BY <2>2, <3>2 DEF Atomic!Next
  <2>4. CASE Found(n) \notin Records
    BY <1>6, <1>a, <2>1, <2>4, RaiseRefuses DEF Read, Atomic!Next
  <2>5. QED
    BY <2>3, <2>4
<1>7. QED
  BY <1>1, <1>2, <1>3, <1>4, <1>5, <1>6 DEF Work, WriteStep, ReadStep

\* Every step is one of the atomic store, or none that its callers can see.
LEMMA StepImplements == IInv /\ [Next]_vars => [Atomic!Next]_(Atomic!storeVars)
<1> SUFFICES ASSUME IInv, [Next]_vars
             PROVE  Atomic!Next \/ UNCHANGED Atomic!storeVars
  OBVIOUS
<1>a. TypeOK
  BY DEF IInv
<1>1. ASSUME NEW t \in Threads, Request(t) PROVE Atomic!Next
  BY <1>1, CallIsAsk DEF Request, Atomic!Next
<1>2. ASSUME NEW t \in Threads, Enter(t) PROVE UNCHANGED Atomic!storeVars
  <2>1. FirstStep[op[t]] \in Inside
    BY <1>2 DEF Enter, IInv, CallPlace, CallBegun, FirstStep, Inside
  <2>2. Stage' = Stage
    BY <1>2, <1>a, <2>1 DEF Enter, Goto, Stage, TypeOK, Inside
  <2>3. QED
    BY <1>2, <2>2 DEF Enter, Atomic!storeVars, Atomic!callVars, argVars, readVars
<1>3. ASSUME NEW t \in Threads, Return(t) PROVE Atomic!Next
  <2>1. Stage[t] = "done"
    BY <1>3 DEF Return, Stage
  <2>2. QED
    BY <1>3, <2>1, ForgetIsForget DEF Return, Atomic!Return, Atomic!Next
<1>4. ASSUME NEW p \in Processes, Kill(p) PROVE Atomic!Next
  <2> DEFINE T == {t \in Threads : Home[t] = p}
  <2>1. Atomic!Forget(T)
    BY <1>4, ForgetIsForget DEF Kill
  <2>2. QED
    BY <2>1 DEF Atomic!Kill, Atomic!Next
<1>5. CASE UNCHANGED vars
  BY <1>5 DEF vars, argVars, readVars, Stage, Atomic!storeVars, Atomic!callVars
<1>6. QED
  BY <1>1, <1>2, <1>3, <1>4, <1>5, WorkImplements DEF Next

\* The files implement the atomic store: whatever is killed or fails at whatever point,
\* a call reads and replaces whole records at moments within it.
THEOREM Implements == Spec => AtomicSpec
<1>1. Init => Atomic!Init
  BY DEF Init, Atomic!Init, Stage, Nothing, Atomic!Nothing
<1>2. QED
  BY <1>1, Invariance, StepImplements, PTL DEF Spec, AtomicSpec, Atomic!Spec

\* Only a save that raises or is killed leaves a temporary file behind.
THEOREM LitterExplained == Spec => LitterIsOfFailures
<1> DEFINE Explained(n) ==
      \E t \in Threads : /\ name[t] = n /\ temp[t] # Missing
                         /\ outcome'[t] = "raised" \/ pc'[t] = "idle"
                         /\ entry'[n] = entry[n]
<1>1. ASSUME IInv, [Next]_vars, NEW n \in Names, n \in litter' \ litter
      PROVE  Explained(n)
  <2>a. TypeOK
    BY <1>1 DEF IInv
  <2>1. ASSUME NEW t \in Threads, WriteFails(t) \/ Unlink(t) PROVE Explained(n)
    <3>1. name[t] = n /\ outcome'[t] = "raised" /\ entry' = entry
      BY <1>1, <2>1, <2>a DEF WriteFails, Unlink, Leave, TypeOK
    <3>2. temp[t] # Missing
      BY <1>1, <2>1 DEF WriteFails, Unlink, IInv, CallPlace
    <3>3. QED
      BY <3>1, <3>2
  <2>2. ASSUME NEW p \in Processes, Kill(p) PROVE Explained(n)
    <3>1. PICK t \in Threads : Home[t] = p /\ temp[t] # Missing /\ name[t] = n
      BY <1>1, <2>2 DEF Kill
    <3>2. pc'[t] = "idle" /\ entry' = entry
      BY <2>2, <3>1 DEF Kill, Forget
    <3>3. QED
      BY <3>1, <3>2
  <2>3. ASSUME NEW t \in Threads, Work(t), ~WriteFails(t), ~Unlink(t)
        PROVE  UNCHANGED litter
    BY <2>3 DEF Work, WriteStep, ReadStep, Create, CreateFails, Write, Rename, CommitFails,
                Exists, Glob, Read, ReadFails
  <2>4. ASSUME NEW t \in Threads, Request(t) \/ Enter(t) \/ Return(t)
        PROVE  UNCHANGED litter
    BY <2>4 DEF Request, Call, Enter, Return
  <2>5. QED
    BY <1>1, <2>1, <2>2, <2>3, <2>4 DEF Next, vars
<1>2. IInv /\ [Next]_vars
        => [\A n \in Names :
              n \in litter' \ litter
                => \E t \in Threads : /\ name[t] = n /\ temp[t] # Missing
                                      /\ outcome'[t] = "raised" \/ pc'[t] = "idle"
                                      /\ entry'[n] = entry[n]]_vars
  BY <1>1
<1>3. QED
  BY <1>2, Invariance, PTL DEF Spec, LitterIsOfFailures
=============================================================================
