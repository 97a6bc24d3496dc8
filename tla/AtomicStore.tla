---------------------------- MODULE AtomicStore ----------------------------
(***************************************************************************)
(* What LocalStateStore promises its callers, without files, locks and     *)
(* temporary files: named records that every call reads or replaces at one *)
(* moment between its beginning and its end.  A list call looks at each    *)
(* name once, at moments of its own choice.  A killed process takes its    *)
(* calls with it, each of them done or not done.                           *)
(***************************************************************************)
CONSTANTS
  Clients,  \* threads that call the store
  Names,    \* names of records: session ids and run ids
  Records,  \* what is stored under them
  Missing   \* no record, no name

VARIABLES
  store,    \* store[n]: the record under name n
  stage,    \* stage[c]: "idle", "asked" or "done"
  op,       \* the call client c is making, or made last
  name,     \* the name it was given, Missing for list
  given,    \* the record it was given
  left,     \* names it has still to look at
  seen,     \* what it found under the others
  outcome   \* how it ended

callVars == <<stage, op, name, given, left, seen, outcome>>
storeVars == <<store, callVars>>

Nothing == [n \in Names |-> Missing]

Init ==
  /\ store = Nothing
  /\ stage = [c \in Clients |-> "idle"]
  /\ op = [c \in Clients |-> "none"]
  /\ name = [c \in Clients |-> Missing]
  /\ given = [c \in Clients |-> Missing]
  /\ left = [c \in Clients |-> {}]
  /\ seen = [c \in Clients |-> Nothing]
  /\ outcome = [c \in Clients |-> "none"]

Ask(c, o, n, r) ==
  /\ stage[c] = "idle"
  /\ stage' = [stage EXCEPT ![c] = "asked"]
  /\ op' = [op EXCEPT ![c] = o]
  /\ name' = [name EXCEPT ![c] = n]
  /\ given' = [given EXCEPT ![c] = r]
  /\ left' = [left EXCEPT ![c] = IF o = "list" THEN Names ELSE IF o = "get" THEN {n} ELSE {}]
  /\ seen' = [seen EXCEPT ![c] = Nothing]
  /\ outcome' = [outcome EXCEPT ![c] = "none"]
  /\ UNCHANGED store

Finish(c, how) ==
  /\ stage' = [stage EXCEPT ![c] = "done"]
  /\ outcome' = [outcome EXCEPT ![c] = how]
  /\ UNCHANGED <<op, name, given>>

Put(c) ==
  /\ stage[c] = "asked" /\ op[c] = "save"
  /\ store' = [store EXCEPT ![name[c]] = given[c]]
  /\ Finish(c, "ok")
  /\ UNCHANGED <<left, seen>>

\* The last look of a call is its end.
Look(c, S) ==
  /\ stage[c] = "asked" /\ op[c] \in {"get", "list"}
  /\ S # {} /\ S \subseteq left[c]
  /\ left' = [left EXCEPT ![c] = @ \ S]
  /\ seen' = [seen EXCEPT ![c] = [n \in Names |-> IF n \in S THEN store[n] ELSE @[n]]]
  /\ IF left'[c] # {}
       THEN UNCHANGED <<stage, op, name, given, outcome>>
       ELSE Finish(c, IF op[c] = "get" /\ store[name[c]] = Missing THEN "absent" ELSE "ok")
  /\ UNCHANGED store

\* A call that raises has changed nothing.
Refuse(c) ==
  /\ stage[c] = "asked"
  /\ Finish(c, "raised")
  /\ UNCHANGED <<store, left, seen>>

\* The calls of the clients in C are over, and their locals gone.
Forget(C) ==
  /\ stage' = [c \in Clients |-> IF c \in C THEN "idle" ELSE stage[c]]
  /\ op' = [c \in Clients |-> IF c \in C THEN "none" ELSE op[c]]
  /\ name' = [c \in Clients |-> IF c \in C THEN Missing ELSE name[c]]
  /\ given' = [c \in Clients |-> IF c \in C THEN Missing ELSE given[c]]
  /\ left' = [c \in Clients |-> IF c \in C THEN {} ELSE left[c]]
  /\ seen' = [c \in Clients |-> IF c \in C THEN Nothing ELSE seen[c]]
  /\ outcome' = [c \in Clients |-> IF c \in C THEN "none" ELSE outcome[c]]
  /\ UNCHANGED store

Return(c) == stage[c] = "done" /\ Forget({c})

\* A process is killed, with all its threads.
Kill(C) == Forget(C)

Next ==
  \/ \E c \in Clients :
       \/ \E n \in Names : \/ \E r \in Records : Ask(c, "save", n, r)
                           \/ Ask(c, "get", n, Missing)
       \/ Ask(c, "list", Missing, Missing)
       \/ Put(c) \/ Refuse(c) \/ Return(c)
       \/ \E S \in SUBSET Names : Look(c, S)
  \/ \E C \in SUBSET Clients : Kill(C)

Spec == Init /\ [][Next]_storeVars
=============================================================================
