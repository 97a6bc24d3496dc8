----------------------------- MODULE StateStore -----------------------------
(***************************************************************************)
(* LocalStateStore (src/agent_sandbox/state.py): one JSON file per record, *)
(* in a directory that several CLI and service processes share.            *)
(*                                                                         *)
(* save_session and save_run write a temporary file and rename it; the get *)
(* and list methods read files.  Threads of one process exclude each other *)
(* by its RLock; nothing excludes processes from each other here, and the  *)
(* readers take no file lock (SandboxManager.get_session, list_runs ...).  *)
(* A step is one operation on the file system.  A process may be killed    *)
(* between any two, and each may raise.                                    *)
(***************************************************************************)
EXTENDS FiniteSets

CONSTANTS
  Processes,
  Threads,    \* threads that call the store
  Home,       \* Home[t]: the process of thread t
  Names,      \* session ids (run ids): <name>.json
  Records,    \* StoredSession (ExecutionResult) values
  Missing,    \* no file, no record, no name
  Partial,    \* the contents of a file that is not all written
  NoThread    \* the RLock is free

ASSUME HomeAssumption == Home \in [Threads -> Processes]
ASSUME MissingAssumption == Missing \notin Records \cup Names \cup {Partial}
ASSUME NamesAssumption == Names # {}
ASSUME PartialAssumption == Partial \notin Records
ASSUME NoThreadAssumption == NoThread \notin Threads

VARIABLES
  entry,    \* entry[n]: the contents of <n>.json
  temp,     \* temp[t]: the contents of the temporary file of thread t's save
  litter,   \* names with a temporary file that no save will come back to
  guard,    \* guard[p]: the thread that holds _lock in process p
  \* the call thread t is making
  pc,       \* the next thing it does
  op,       \* "save", "get" or "list"
  name,     \* the name it was given
  given,    \* the record it was given
  left,     \* names it has still to look at
  seen,     \* the records it has read
  outcome   \* how it ended: "absent" for SessionNotFoundError, "raised" for others

argVars == <<op, name, given>>
readVars == <<left, seen>>
vars == <<entry, temp, litter, guard, pc, argVars, readVars, outcome>>

Nothing == [n \in Names |-> Missing]

Contents == Records \cup {Missing, Partial}

\* The places from which a thread holds its process's lock.
Inside == {"create", "write", "rename", "unlink", "exists", "read", "glob"}

TypeOK ==
  /\ entry \in [Names -> Contents]
  /\ temp \in [Threads -> Contents]
  /\ litter \subseteq Names
  /\ guard \in [Processes -> Threads \cup {NoThread}]
  /\ pc \in [Threads -> {"idle", "enter", "returned"} \cup Inside]
  /\ op \in [Threads -> {"none", "save", "get", "list"}]
  /\ name \in [Threads -> Names \cup {Missing}]
  /\ given \in [Threads -> Records \cup {Missing}]
  /\ left \in [Threads -> SUBSET Names]
  /\ seen \in [Threads -> [Names -> Contents]]
  /\ outcome \in [Threads -> {"none", "ok", "absent", "raised"}]

Init ==
  /\ entry = Nothing
  /\ temp = [t \in Threads |-> Missing]
  /\ litter = {}
  /\ guard = [p \in Processes |-> NoThread]
  /\ pc = [t \in Threads |-> "idle"]
  /\ op = [t \in Threads |-> "none"]
  /\ name = [t \in Threads |-> Missing]
  /\ given = [t \in Threads |-> Missing]
  /\ left = [t \in Threads |-> {}]
  /\ seen = [t \in Threads |-> Nothing]
  /\ outcome = [t \in Threads |-> "none"]

-----------------------------------------------------------------------------
(* Calling a method and leaving it. *)

Goto(t, place) == pc' = [pc EXCEPT ![t] = place]

Call(t, o, n, r) ==
  /\ pc[t] = "idle"
  /\ Goto(t, "enter")
  /\ op' = [op EXCEPT ![t] = o]
  /\ name' = [name EXCEPT ![t] = n]
  /\ given' = [given EXCEPT ![t] = r]
  /\ left' = [left EXCEPT ![t] = IF o = "list" THEN Names ELSE IF o = "get" THEN {n} ELSE {}]
  /\ UNCHANGED <<entry, temp, litter, guard, seen, outcome>>

FirstStep == [save |-> "create", get |-> "exists", list |-> "glob"]

\* Mutant: a method that forgets `with self._lock`.
EnterUnlocked(t) ==
  /\ pc[t] = "enter"
  /\ guard' = [guard EXCEPT ![Home[t]] = t]
  /\ Goto(t, FirstStep[op[t]])
  /\ UNCHANGED <<entry, temp, litter, argVars, readVars, outcome>>

\* with self._lock
Enter(t) ==
  /\ pc[t] = "enter" /\ guard[Home[t]] = NoThread
  /\ guard' = [guard EXCEPT ![Home[t]] = t]
  /\ Goto(t, FirstStep[op[t]])
  /\ UNCHANGED <<entry, temp, litter, argVars, readVars, outcome>>

Leave(t, how) ==
  /\ Goto(t, "returned")
  /\ guard' = [guard EXCEPT ![Home[t]] = NoThread]
  /\ outcome' = [outcome EXCEPT ![t] = how]
  /\ UNCHANGED argVars

Continue(t, place) == Goto(t, place) /\ UNCHANGED <<guard, outcome, argVars>>

\* The callers of the threads in T have what they asked for, or are gone.
Forget(T) ==
  /\ pc' = [t \in Threads |-> IF t \in T THEN "idle" ELSE pc[t]]
  /\ op' = [t \in Threads |-> IF t \in T THEN "none" ELSE op[t]]
  /\ name' = [t \in Threads |-> IF t \in T THEN Missing ELSE name[t]]
  /\ given' = [t \in Threads |-> IF t \in T THEN Missing ELSE given[t]]
  /\ left' = [t \in Threads |-> IF t \in T THEN {} ELSE left[t]]
  /\ seen' = [t \in Threads |-> IF t \in T THEN Nothing ELSE seen[t]]
  /\ outcome' = [t \in Threads |-> IF t \in T THEN "none" ELSE outcome[t]]

Return(t) ==
  /\ pc[t] = "returned"
  /\ Forget({t})
  /\ UNCHANGED <<entry, temp, litter, guard>>

-----------------------------------------------------------------------------
(* _write_json *)

\* Mutant: the record is written to its own file.
CreateInPlace(t) ==
  /\ pc[t] = "create"
  /\ temp' = [temp EXCEPT ![t] = Partial]
  /\ entry' = [entry EXCEPT ![name[t]] = Partial]
  /\ Continue(t, "write")
  /\ UNCHANGED <<litter, readVars>>

\* NamedTemporaryFile: <name>.json.<random>.tmp, a name no other file has.
Create(t) ==
  /\ pc[t] = "create"
  /\ temp' = [temp EXCEPT ![t] = Partial]
  /\ Continue(t, "write")
  /\ UNCHANGED <<entry, litter, readVars>>

CreateFails(t) ==
  /\ pc[t] = "create"
  /\ Leave(t, "raised")
  /\ UNCHANGED <<entry, temp, litter, readVars>>

\* temp_file.write, and the close that flushes it.
Write(t) ==
  /\ pc[t] = "write"
  /\ temp' = [temp EXCEPT ![t] = given[t]]
  /\ Continue(t, "rename")
  /\ UNCHANGED <<entry, litter, readVars>>

\* The write itself raises: temp_path is not yet set, and the file stays.
WriteFails(t) ==
  /\ pc[t] = "write"
  /\ temp' = [temp EXCEPT ![t] = Missing]
  /\ litter' = litter \cup {name[t]}
  /\ Leave(t, "raised")
  /\ UNCHANGED <<entry, readVars>>

\* Mutant: the temporary file is copied over the record and kept.
RenameCopying(t) ==
  /\ pc[t] = "rename"
  /\ entry' = [entry EXCEPT ![name[t]] = temp[t]]
  /\ temp' = [temp EXCEPT ![t] = Missing]
  /\ litter' = litter \cup {name[t]}
  /\ Leave(t, "ok")
  /\ UNCHANGED readVars

\* temp_path.replace(path)
Rename(t) ==
  /\ pc[t] = "rename"
  /\ entry' = [entry EXCEPT ![name[t]] = temp[t]]
  /\ temp' = [temp EXCEPT ![t] = Missing]
  /\ Leave(t, "ok")
  /\ UNCHANGED <<litter, readVars>>

\* The closing flush or the rename raises.
CommitFails(t) ==
  /\ pc[t] \in {"write", "rename"}
  /\ Continue(t, "unlink")
  /\ UNCHANGED <<entry, temp, litter, readVars>>

\* Mutant: it is the record that is unlinked.
UnlinkRecord(t) ==
  /\ pc[t] = "unlink"
  /\ temp' = [temp EXCEPT ![t] = Missing]
  /\ entry' = [entry EXCEPT ![name[t]] = Missing]
  /\ Leave(t, "raised")
  /\ UNCHANGED <<litter, readVars>>

\* temp_path.unlink(), which may itself raise.
Unlink(t) ==
  /\ pc[t] = "unlink"
  /\ temp' = [temp EXCEPT ![t] = Missing]
  /\ litter' \in {litter, litter \cup {name[t]}}
  /\ Leave(t, "raised")
  /\ UNCHANGED <<entry, readVars>>

-----------------------------------------------------------------------------
(* The methods that read. *)

\* _read_model: the file is opened, and what was there then is read whatever renames
\* follow.
Found(n) == entry[n]

LookAt(t, S) ==
  /\ left' = [left EXCEPT ![t] = @ \ S]
  /\ seen' = [seen EXCEPT ![t] = [n \in Names |-> IF n \in S THEN Found(n) ELSE @[n]]]

\* get_session, get_run: path.exists()
Exists(t) ==
  /\ pc[t] = "exists"
  /\ IF entry[name[t]] = Missing
       THEN LookAt(t, {name[t]}) /\ Leave(t, "absent")
       ELSE Continue(t, "read") /\ UNCHANGED readVars
  /\ UNCHANGED <<entry, temp, litter>>

\* _iter_json: the names that match *.json at this moment.
Glob(t) ==
  /\ pc[t] = "glob"
  /\ LET absent == {n \in Names : entry[n] = Missing} IN
     /\ LookAt(t, absent)
     /\ IF absent = Names THEN Leave(t, "ok") ELSE Continue(t, "read")
  /\ UNCHANGED <<entry, temp, litter>>

\* A record that does not parse raises StateStoreError out of the whole call.
Read(t) ==
  /\ pc[t] = "read"
  /\ \E n \in left[t] :
       IF Found(n) \in Records
         THEN /\ LookAt(t, {n})
              /\ IF left'[t] = {} THEN Leave(t, "ok") ELSE Continue(t, "read")
         ELSE Leave(t, "raised") /\ UNCHANGED readVars
  /\ UNCHANGED <<entry, temp, litter>>

\* The directory or the file cannot be read.
ReadFails(t) ==
  /\ pc[t] \in {"exists", "read", "glob"}
  /\ Leave(t, "raised")
  /\ UNCHANGED <<entry, temp, litter, readVars>>

-----------------------------------------------------------------------------
\* Process p is killed; the kernel closes its files and leaves them.
Kill(p) ==
  LET T == {t \in Threads : Home[t] = p} IN
  /\ \E t \in T : pc[t] # "idle"
  /\ Forget(T)
  /\ litter' = litter \cup {name[t] : t \in {u \in T : temp[u] # Missing}}
  /\ temp' = [t \in Threads |-> IF t \in T THEN Missing ELSE temp[t]]
  /\ guard' = [guard EXCEPT ![p] = NoThread]
  /\ UNCHANGED entry

WriteStep(t) ==
  Create(t) \/ CreateFails(t) \/ Write(t) \/ WriteFails(t) \/ Rename(t) \/ CommitFails(t)
    \/ Unlink(t)

ReadStep(t) == Exists(t) \/ Glob(t) \/ Read(t) \/ ReadFails(t)

Work(t) == WriteStep(t) \/ ReadStep(t)

Request(t) ==
  \/ \E n \in Names : \/ \E r \in Records : Call(t, "save", n, r)
                      \/ Call(t, "get", n, Missing)
  \/ Call(t, "list", Missing, Missing)

Next ==
  \/ \E t \in Threads : Request(t) \/ Enter(t) \/ Work(t) \/ Return(t)
  \/ \E p \in Processes : Kill(p)

Spec == Init /\ [][Next]_vars

-----------------------------------------------------------------------------
(* Properties *)

\* Whatever is killed or fails at whatever point, the file of a record is absent or
\* holds a whole record: "concurrent CLI/service operations do not leave partially
\* written JSON behind" (the LocalStateStore docstring).
OnlyWholeRecords == \A n \in Names : entry[n] # Partial

\* A temporary file is left behind only by a save that raises or is killed; the record
\* it was for is then as it was.
LitterIsOfFailures ==
  [][\A n \in Names :
       n \in litter' \ litter
         => \E t \in Threads : /\ name[t] = n /\ temp[t] # Missing
                               /\ outcome'[t] = "raised" \/ pc'[t] = "idle"
                               /\ entry'[n] = entry[n]]_vars

\* How far a call has come, for its caller.
Stage ==
  [t \in Threads |-> CASE pc[t] = "idle" -> "idle"
                       [] pc[t] = "returned" -> "done"
                       [] OTHER -> "asked"]

\* The store seen without files: every call reads or replaces whole records at moments
\* within it, a call that raises has changed nothing, and a killed process leaves each
\* of its saves done or not done.
Atomic == INSTANCE AtomicStore WITH
  Clients <- Threads,
  store <- entry,
  stage <- Stage

AtomicSpec == Atomic!Spec

-----------------------------------------------------------------------------
(* The inductive invariant behind the properties. *)

\* A thread inside a method holds its process's lock, so no other one is inside.
LockHeld == \A t \in Threads : pc[t] \in Inside => guard[Home[t]] = t

\* The call a thread has begun and not ended.
CallBegun(t) ==
  /\ op[t] \in {"save", "get", "list"}
  /\ op[t] = "save" => name[t] \in Names /\ given[t] \in Records
  /\ op[t] = "get" => name[t] \in Names /\ left[t] = {name[t]}

\* What holds at each place of a method.
CallPlace ==
  \A t \in Threads :
    /\ pc[t] = "idle" => seen[t] = Nothing /\ outcome[t] = "none"
    /\ pc[t] \in {"enter"} \cup Inside => CallBegun(t)
    /\ pc[t] = "enter" /\ op[t] = "list" => left[t] = Names
    /\ pc[t] \in {"create", "write", "rename", "unlink"} => op[t] = "save"
    /\ pc[t] \in {"write", "rename", "unlink"} <=> temp[t] # Missing
    /\ pc[t] = "rename" => temp[t] = given[t]
    /\ pc[t] = "exists" => op[t] = "get"
    /\ pc[t] = "glob" => op[t] = "list" /\ left[t] = Names
    /\ pc[t] = "read" => op[t] \in {"get", "list"}

\* In every reachable state one thread at most is inside a method of each process, and
\* it finds what it has written and asked for as it left it.
IInv == TypeOK /\ LockHeld /\ CallPlace /\ OnlyWholeRecords
=============================================================================
