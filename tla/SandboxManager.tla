--------------------------- MODULE SandboxManager ---------------------------
(***************************************************************************)
(* SandboxManager (src/agent_sandbox/manager.py) over the JSON store       *)
(* (src/agent_sandbox/state.py): stored sessions shared by CLI processes   *)
(* and by the threads of the HTTP service.                                 *)
(*                                                                         *)
(* Every operation takes the file lock of its session id, rebuilds a       *)
(* SandboxSession from the stored record, drives it, stores what it did,   *)
(* and detaches.  Process p works on an object of its own, session object  *)
(* p of SandboxSession, whose steps are taken as they are: the handlers    *)
(* below are what happens before, between and after them.                  *)
(***************************************************************************)
EXTENDS SandboxSession

CONSTANTS
  Keys,   \* session ids: uuid4, drawn afresh by each start and attach
  NoKey   \* no operation is going on

\* A process (or request thread) is a thread with a session object of its own; the
\* manager uses the synchronous class.
ASSUME OwnObjectAssumption == Sessions = Threads /\ Async = FALSE /\ InitialSequence = 0
ASSUME NoKeyAssumption == NoKey \notin Keys

VARIABLES
  mpc,     \* mpc[p]: where the manager's operation of process p stands
  mop,     \* the operation
  key,     \* its session id
  mout,    \* its outcome; between run and finalize, the pending one
  flock,   \* flock[k]: the process holding the file lock of session k
  sess,    \* sess[k]: sessions/<k>.json
  runs     \* runs/*.json

managerVars == <<mpc, mop, key, mout, flock, sess, runs>>
mvars == <<vars, managerVars>>

ManagerOps == {"start", "attach", "run", "artifact", "terminate"}

\* What is kept of SessionInfo: the other fields and the config never change.
Stored(st, b, n, r) == [status |-> st, sandbox |-> b, count |-> n, last |-> r]
NoRecord == Stored("none", NoSandbox, 0, 0)

ManagerTypeOK ==
  /\ SessionTypeOK
  /\ mpc \in [Threads -> {"idle", "flock", "starting", "detaching", "calling",
                          "saverun", "finalize", "releasing", "save"}]
  /\ mop \in [Threads -> ManagerOps \cup {"none"}]
  /\ key \in [Threads -> Keys \cup {NoKey}]
  /\ mout \in [Threads -> {"none", "ok", "raised"}]
  /\ flock \in [Keys -> Threads \cup {NoThread}]
  /\ sess \in [Keys -> [status : Statuses \cup {"none"}, sandbox : Sandboxes \cup {NoSandbox},
                        count : Nat, last : Nat]]
  /\ runs \subseteq [id : Nat, key : Keys, seq : Nat]

ManagerInit ==
  /\ Init
  /\ sandboxId = [s \in Sessions |-> NoSandbox]
  /\ on = [t \in Threads |-> t]
  /\ mpc = [p \in Threads |-> "idle"]
  /\ mop = [p \in Threads |-> "none"]
  /\ key = [p \in Threads |-> NoKey]
  /\ mout = [p \in Threads |-> "none"]
  /\ flock = [k \in Keys |-> NoThread]
  /\ sess = [k \in Keys |-> NoRecord]
  /\ runs = {}

-----------------------------------------------------------------------------
(* Building and dropping the session object of a process. *)

\* SandboxSession(config) or SandboxSession.attach(b, config, ...).
Build(p, b, n, r) ==
  /\ sandboxId' = [sandboxId EXCEPT ![p] = b]
  /\ attached' = [attached EXCEPT ![p] = FALSE]
  /\ status' = [status EXCEPT ![p] = "created"]
  /\ closed' = [closed EXCEPT ![p] = FALSE]
  /\ detached' = [detached EXCEPT ![p] = FALSE]
  /\ runCount' = [runCount EXCEPT ![p] = n]
  /\ lastRun' = [lastRun EXCEPT ![p] = r]
  /\ UNCHANGED <<remote, prepared>>

Discard(p) == Build(p, NoSandbox, 0, 0)

\* Mutant: a detached session is described with a status of another vocabulary.
DescribeMisnamed(p) ==
  Stored(IF status[p] = "detached" THEN "closed" ELSE status[p],
         sandboxId[p], runCount[p], lastRun[p])

\* describe()
Describe(p) == Stored(status[p], sandboxId[p], runCount[p], lastRun[p])

At(p, place) == mpc' = [mpc EXCEPT ![p] = place]

\* Mutant: an operation ends with its file lock held.
FinishLocked(p, outcome) ==
  /\ At(p, "idle")
  /\ mop' = [mop EXCEPT ![p] = "none"]
  /\ mout' = [mout EXCEPT ![p] = outcome]
  /\ key' = [key EXCEPT ![p] = NoKey]
  /\ Discard(p)
  /\ out' = [out EXCEPT ![p] = "none"]
  /\ UNCHANGED <<flock, lock, pc, callVars, nextRun>>

\* The operation ends with the `with self._session_lock` block; its object is garbage.
Finish(p, outcome) ==
  /\ At(p, "idle")
  /\ mop' = [mop EXCEPT ![p] = "none"]
  /\ mout' = [mout EXCEPT ![p] = outcome]
  /\ key' = [key EXCEPT ![p] = NoKey]
  /\ flock' = [flock EXCEPT ![key[p]] = NoThread]
  /\ Discard(p)
  /\ out' = [out EXCEPT ![p] = "none"]
  /\ UNCHANGED <<lock, pc, callVars, nextRun>>

\* The manager's handler calls method o of its object, and goes on at a place.
Call(p, o, place) ==
  /\ Begin(p, p, o)
  /\ At(p, place)

\* The session method called last has returned or raised.
Ended(p, outcome) == pc[p] = "idle" /\ out[p] = outcome

-----------------------------------------------------------------------------
(* Asking for an operation. *)

Request(p, o, k) ==
  /\ mpc[p] = "idle"
  /\ At(p, "flock")
  /\ mop' = [mop EXCEPT ![p] = o]
  /\ key' = [key EXCEPT ![p] = k]
  /\ mout' = [mout EXCEPT ![p] = "none"]
  /\ UNCHANGED <<flock, sess, runs>>

Unused(k) == sess[k] = NoRecord /\ \A p \in Threads : key[p] # k

RequestStart(p, k) ==
  /\ Unused(k)
  /\ Request(p, "start", k)
  /\ UNCHANGED vars

\* attach_session of any sandbox id Modal has given out, a dead one included.
RequestAttach(p, k, b) ==
  /\ Unused(k)
  /\ remote[b] # "absent"
  /\ Request(p, "attach", k)
  /\ Build(p, b, 0, 0)
  /\ UNCHANGED <<lock, pc, callVars, out, nextRun>>

\* show_artifact and download_artifact find the session in a stored run.
RequestStored(p, k, o) ==
  /\ o \in {"run", "artifact", "terminate"}
  /\ o = "run" => nextRun <= MaxRuns
  /\ o = "artifact" => \E r \in runs : r.key = k
  /\ Request(p, o, k)
  /\ UNCHANGED vars

-----------------------------------------------------------------------------
(* With the file lock. *)

\* Mutant: the file lock is advisory to nobody.
GrantedAlways(p) == mpc[p] = "flock"

Granted(p) == mpc[p] = "flock" /\ flock[key[p]] = NoThread

TakeFlock(p) == flock' = [flock EXCEPT ![key[p]] = p]

\* start_session and attach_session call session.start().
EnterNew(p) ==
  /\ Granted(p)
  /\ mop[p] \in {"start", "attach"}
  /\ TakeFlock(p)
  /\ Call(p, "start", "starting")
  /\ UNCHANGED <<mop, key, mout, sess, runs>>

Attachable(k) == sess[k].status \notin {"none", "terminated"} /\ sess[k].sandbox # NoSandbox

\* No record, a terminated one, or a path that is not among the run's artifacts.
EnterRefused(p) ==
  /\ Granted(p)
  /\ \/ mop[p] \in {"run", "terminate"} /\ ~Attachable(key[p])
     \/ mop[p] = "artifact"
  /\ Finish(p, "raised")
  /\ UNCHANGED <<sess, runs>>

MethodOf(o) == IF o = "terminate" THEN "close" ELSE o

\* Mutant: the session is rebuilt without initial_run_sequence.
EnterStoredUncounted(p) ==
  /\ Granted(p)
  /\ mop[p] \in {"run", "artifact", "terminate"} /\ Attachable(key[p])
  /\ TakeFlock(p)
  /\ LET info == sess[key[p]] IN Build(p, info.sandbox, 0, info.last)
  /\ Goto(p, "lock")
  /\ op' = [op EXCEPT ![p] = MethodOf(mop[p])]
  /\ out' = [out EXCEPT ![p] = "none"]
  /\ At(p, "calling")
  /\ UNCHANGED <<lock, on, seq, runId, nextRun, mop, key, mout, sess, runs>>

EnterStored(p) ==
  /\ Granted(p)
  /\ mop[p] \in {"run", "artifact", "terminate"} /\ Attachable(key[p])
  /\ TakeFlock(p)
  /\ LET info == sess[key[p]] IN Build(p, info.sandbox, info.count, info.last)
  /\ Goto(p, "lock")
  /\ op' = [op EXCEPT ![p] = MethodOf(mop[p])]
  /\ out' = [out EXCEPT ![p] = "none"]
  /\ At(p, "calling")
  /\ UNCHANGED <<lock, on, seq, runId, nextRun, mop, key, mout, sess, runs>>

\* The session object's own steps.
Drive(p) ==
  /\ mpc[p] \in {"starting", "detaching", "calling", "releasing"}
  /\ SessionStep(p)
  /\ UNCHANGED managerVars

-----------------------------------------------------------------------------
(* start_session, attach_session and terminate_session, to their save. *)

DetachNew(p) ==
  /\ mpc[p] = "starting" /\ Ended(p, "ok")
  /\ Call(p, "detach", "detaching")
  /\ UNCHANGED <<mop, key, mout, flock, sess, runs>>

\* Nothing is stored of a session that did not start, detach or close.
NotStored(p) ==
  /\ \/ mpc[p] \in {"starting", "detaching"}
     \/ mpc[p] = "calling" /\ mop[p] = "terminate"
  /\ Ended(p, "raised")
  /\ Finish(p, "raised")
  /\ UNCHANGED <<sess, runs>>

ReadyToSave(p) ==
  /\ \/ mpc[p] \in {"detaching", "releasing"}
     \/ mpc[p] = "calling" /\ mop[p] = "terminate"
  /\ Ended(p, "ok")
  /\ At(p, "save")
  /\ UNCHANGED <<vars, mop, key, mout, flock, sess, runs>>

\* Mutant: the final record is built and not stored.
SaveSkipped(p) ==
  /\ mpc[p] = "save"
  /\ Finish(p, IF mop[p] \in {"run", "artifact"} THEN mout[p] ELSE "ok")
  /\ UNCHANGED <<sess, runs>>

Save(p) ==
  /\ mpc[p] = "save"
  /\ sess' = [sess EXCEPT ![key[p]] = Describe(p)]
  /\ Finish(p, IF mop[p] \in {"run", "artifact"} THEN mout[p] ELSE "ok")
  /\ UNCHANGED runs

-----------------------------------------------------------------------------
(* run_python, run_shell, show_artifact, download_artifact: save_run, then     *)
(* _finalize_session in a finally.                                             *)

\* Mutant: the record is finalized without the run having been saved.
RunReturnedUnsaved(p) ==
  /\ mpc[p] = "calling" /\ mop[p] = "run" /\ Ended(p, "ok")
  /\ At(p, "finalize")
  /\ mout' = [mout EXCEPT ![p] = "ok"]
  /\ UNCHANGED <<vars, mop, key, flock, sess, runs>>

RunReturned(p) ==
  /\ mpc[p] = "calling" /\ mop[p] = "run" /\ Ended(p, "ok")
  /\ At(p, "saverun")
  /\ UNCHANGED <<vars, mop, key, mout, flock, sess, runs>>

\* The result carries the session's latest run id and sequence number.
SaveRun(p) ==
  /\ mpc[p] = "saverun"
  /\ runs' = runs \cup {[id |-> lastRun[p], key |-> key[p], seq |-> runCount[p]]}
  /\ mout' = [mout EXCEPT ![p] = "ok"]
  /\ At(p, "finalize")
  /\ UNCHANGED <<vars, mop, key, flock, sess>>

CallEnded(p) ==
  /\ mpc[p] = "calling" /\ pc[p] = "idle"
  /\ \/ mop[p] = "run" /\ out[p] = "raised"
     \/ mop[p] = "artifact"
  /\ mout' = [mout EXCEPT ![p] = out[p]]
  /\ At(p, "finalize")
  /\ UNCHANGED <<vars, mop, key, flock, sess, runs>>

FinalizeInactive(p) ==
  /\ mpc[p] = "finalize" /\ status[p] # "active"
  /\ Finish(p, mout[p])
  /\ UNCHANGED <<sess, runs>>

FinalizeActive(p) ==
  /\ mpc[p] = "finalize" /\ status[p] = "active"
  /\ sess' = [sess EXCEPT ![key[p]] = Describe(p)]
  /\ Call(p, "detach", "releasing")
  /\ UNCHANGED <<mop, key, mout, flock, runs>>

\* "Failed to detach session": the record stays as the first save left it.
ReleaseFails(p) ==
  /\ mpc[p] = "releasing" /\ Ended(p, "raised")
  /\ Finish(p, "raised")
  /\ UNCHANGED <<sess, runs>>

-----------------------------------------------------------------------------
(* Faults. *)

\* Mutant: the operation goes on to its end when its last save raises.
StoreFailsQuietly(p) ==
  /\ mpc[p] = "save"
  /\ Finish(p, "ok")
  /\ UNCHANGED <<sess, runs>>

\* StateStoreError: a record that cannot be read, or a save that leaves the file as it
\* was.
StoreFails(p) ==
  \/ /\ mpc[p] = "saverun"
     /\ mout' = [mout EXCEPT ![p] = "raised"]
     /\ At(p, "finalize")
     /\ UNCHANGED <<vars, mop, key, flock, sess, runs>>
  \/ /\ \/ Granted(p) /\ mop[p] \in {"run", "artifact", "terminate"}
        \/ mpc[p] = "save"
        \/ mpc[p] = "finalize" /\ status[p] = "active"
     /\ Finish(p, "raised")
     /\ UNCHANGED <<sess, runs>>

\* The process is killed: the kernel drops its file lock, its objects are gone.
Crash(p) ==
  /\ mpc[p] # "idle"
  /\ At(p, "idle")
  /\ mop' = [mop EXCEPT ![p] = "none"]
  /\ mout' = [mout EXCEPT ![p] = "none"]
  /\ key' = [key EXCEPT ![p] = NoKey]
  /\ flock' = [k \in Keys |-> IF flock[k] = p THEN NoThread ELSE flock[k]]
  /\ Discard(p)
  /\ lock' = [lock EXCEPT ![p] = NoThread]
  /\ EndCall(p, "none")
  /\ UNCHANGED <<nextRun, sess, runs>>

-----------------------------------------------------------------------------
EnterFlock(p) == EnterNew(p) \/ EnterRefused(p) \/ EnterStored(p)

Operate(p) ==
  \/ Drive(p)
  \/ DetachNew(p) \/ NotStored(p) \/ ReadyToSave(p) \/ Save(p)
  \/ RunReturned(p) \/ SaveRun(p) \/ CallEnded(p)
  \/ FinalizeInactive(p) \/ FinalizeActive(p) \/ ReleaseFails(p)

Ask(p) ==
  \E k \in Keys :
    \/ RequestStart(p, k)
    \/ \E b \in Sandboxes : RequestAttach(p, k, b)
    \/ \E o \in ManagerOps : RequestStored(p, k, o)

ManagerNext ==
  \/ \E p \in Threads : Ask(p) \/ EnterFlock(p) \/ Operate(p)
  \/ SandboxExpires /\ UNCHANGED managerVars

CrashNext == ManagerNext \/ \E p \in Threads : Crash(p)

FaultyNext == CrashNext \/ \E p \in Threads : StoreFails(p)

ManagerSpec == ManagerInit /\ [][ManagerNext]_mvars

CrashSpec == ManagerInit /\ [][CrashNext]_mvars

FaultySpec == ManagerInit /\ [][FaultyNext]_mvars

-----------------------------------------------------------------------------
(* Properties *)

\* Two stored runs of one session never carry the same sequence number, whichever
\* processes ran them and however many of their calls raised in between.
StoredRunsUnique ==
  \A r1, r2 \in runs : r1.key = r2.key /\ r1.seq = r2.seq => r1 = r2

\* A record that names a last run names a run that is stored: the run is written
\* before the record that mentions it.
LastRunIsStored ==
  \A k \in Keys : sess[k].last # 0 => \E r \in runs : r.id = sess[k].last /\ r.key = k

\* A record says "terminated" only of a sandbox that no longer runs, even if the
\* process that ended it was killed or could not write at any point.
TerminatedRecordIsGone ==
  \A k \in Keys : sess[k].status = "terminated" => remote[sess[k].sandbox] # "running"

\* No process writes back an older snapshot over a newer one: the stored run count
\* never goes back and a record stays with its sandbox.
RecordNeverGoesBack ==
  [][\A k \in Keys :
       sess[k] # NoRecord => /\ sess'[k].count >= sess[k].count
                             /\ sess'[k].sandbox = sess[k].sandbox]_mvars

\* A terminated record is final: no run in flight when the session is terminated
\* brings it back, and no run is stored for it afterwards.
TerminatedRecordIsFinal ==
  [][\A k \in Keys :
       sess[k].status = "terminated"
         => /\ sess'[k] = sess[k]
            /\ {r \in runs' : r.key = k} = {r \in runs : r.key = k}]_mvars

\* The ledger a user of the stored files sees.
Ledger == INSTANCE SessionLedger WITH
  phase <- [k \in Keys |-> CASE sess[k].status = "none" -> "none"
                              [] sess[k].status = "terminated" -> "ended"
                              [] OTHER -> "open"],
  numbers <- [k \in Keys |-> {r.seq : r \in {x \in runs : x.key = k}}]

\* The stored files, seen without processes and locks, are the ledger users rely on:
\* whatever processes do at once, sessions open once, runs enter under numbers that
\* only grow, and nothing enters after the end.
LedgerSpec == Ledger!Spec

\* Every operation gives its file lock back.
FlockReleased ==
  \A k \in Keys : \A p \in Threads : flock[k] = p ~> flock[k] # p
-----------------------------------------------------------------------------
(* The inductive invariants behind the properties. *)

\* Process p has the file lock of its session id.
Holds(p) == mpc[p] \notin {"idle", "flock"}

\* Where a process stands, in the manager and in the session method it has called.
PlaceOf(p) ==
  /\ on[p] = p
  /\ mpc[p] = "idle" => key[p] = NoKey /\ mop[p] = "none"
  /\ mpc[p] # "idle" => key[p] \in Keys /\ mop[p] \in ManagerOps
  /\ Holds(p) => flock[key[p]] = p
  /\ mpc[p] \in {"idle", "flock", "saverun", "finalize", "save"} => pc[p] = "idle"
  /\ mpc[p] \in {"starting", "detaching"} => mop[p] \in {"start", "attach"}
  /\ mpc[p] = "calling" => mop[p] \in {"run", "artifact", "terminate"}
  /\ mpc[p] = "saverun" => mop[p] = "run"
  /\ mpc[p] \in {"finalize", "releasing"} => mop[p] \in {"run", "artifact"}
  /\ pc[p] # "idle" => op[p] = CASE mpc[p] = "starting" -> "start"
                                  [] mpc[p] = "calling" -> MethodOf(mop[p])
                                  [] OTHER -> "detach"

Creating(p) == mop[p] \in {"start", "attach"}

\* An id drawn by start or attach has no record and no other creator, and its session
\* no runs.
FreshOf(p) ==
  /\ Creating(p) => /\ sess[key[p]] = NoRecord
                    /\ \A q \in Threads : Creating(q) /\ key[q] = key[p] => q = p
  /\ mpc[p] = "idle" \/ Creating(p) => lastRun[p] = 0

\* The object of an operation on a stored session is as new as the record or newer.
SnapshotOf(p) ==
  Holds(p) /\ ~Creating(p)
    => LET info == sess[key[p]] IN
       /\ info.status \notin {"none", "terminated"}
       /\ info.sandbox = sandboxId[p] /\ sandboxId[p] # NoSandbox
       /\ info.count <= runCount[p]
       /\ mop[p] # "run" => info.count = runCount[p] /\ info.last = lastRun[p]

Returned(p) == pc[p] = "idle" /\ out[p] = "ok"

\* The session's run has its number: while it is going on, and until it is stored.
Numbered(p) ==
  /\ mop[p] = "run"
  /\ \/ mpc[p] = "saverun"
     \/ mpc[p] = "calling" /\ (pc[p] \in RunPhases \/ Returned(p))

\* The run is stored, and the record does not count it yet.
Saved(p) == mop[p] = "run" /\ mpc[p] = "finalize" /\ mout[p] = "ok"

\* What the method called last has made of the object, or is about to.
OutcomeOf(p) ==
  /\ Numbered(p) => status[p] = "active" /\ sess[key[p]].count < runCount[p]
  /\ Saved(p) => status[p] = "active" /\ sess[key[p]].count < runCount[p]
  /\ mpc[p] = "starting" /\ Returned(p) => status[p] = "active"
  /\ mpc[p] \in {"detaching", "releasing"} /\ Returned(p) => status[p] = "detached"
  /\ mpc[p] = "calling" /\ mop[p] = "terminate"
       => /\ pc[p] = "lock" => Usable(p)
          /\ pc[p] = "finally" => out[p] = "raised" \/ status[p] = "terminated"
          /\ Returned(p) => status[p] = "terminated"
  /\ mpc[p] = "save"
       => status[p] = IF mop[p] = "terminate" THEN "terminated" ELSE "detached"

ProcessInv ==
  \A p \in Threads : PlaceOf(p) /\ FreshOf(p) /\ SnapshotOf(p) /\ OutcomeOf(p)

\* A record is absent or whole, of a sandbox Modal has made and a run that was begun.
RecordInv ==
  \A k \in Keys :
    /\ sess[k].status = "none" => sess[k] = NoRecord
    /\ sess[k].sandbox # NoSandbox => remote[sess[k].sandbox] # "absent"
    /\ sess[k].status = "terminated" => sess[k].sandbox # NoSandbox
    /\ sess[k].last < nextRun

\* In every reachable state, whatever is killed and whatever fails to be stored, a
\* process with the file lock knows all there is in its session's record.
ManagerInv ==
  /\ ManagerTypeOK /\ IInv
  /\ ProcessInv /\ RecordInv
  /\ TerminatedRecordIsGone

\* The last run an object names is stored, or is about to be.
LastRunOf(p) ==
  Holds(p)
    => \/ lastRun[p] = 0
       \/ \E r \in runs : r.id = lastRun[p] /\ r.key = key[p]
       \/ mop[p] = "run" /\ mpc[p] = "saverun"
       \/ mop[p] = "run" /\ mpc[p] = "calling" /\ Returned(p)

\* Unless a save raises, records and objects name only runs that are stored.
LastRunInv == LastRunIsStored /\ \A p \in Threads : LastRunOf(p)

\* The id of the run that process p has begun and not stored yet.
InHand(p) == IF pc[p] \in RunPhases THEN runId[p] ELSE lastRun[p]

\* Such a run has an id of its own: storing it writes a file that is not there.
RunIdsInv ==
  /\ \A r \in runs : r.id < nextRun
  /\ \A p \in Threads :
       Numbered(p) => /\ InHand(p) < nextRun
                      /\ \A r \in runs : r.id # InHand(p)
                      /\ \A q \in Threads : Numbered(q) /\ InHand(q) = InHand(p) => q = p

\* Every stored run is counted in its record, or by the process that has just stored it.
RunsCounted ==
  \A r \in runs :
    \/ r.seq <= sess[r.key].count
    \/ \E p \in Threads : Saved(p) /\ key[p] = r.key /\ r.seq <= runCount[p]

\* As long as no process is killed and no save raises, a number is never used again.
LedgerInv == StoredRunsUnique /\ RunsCounted
=============================================================================
