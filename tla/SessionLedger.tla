--------------------------- MODULE SessionLedger ---------------------------
(***************************************************************************)
(* What SandboxManager promises the users of the CLI and the HTTP service, *)
(* without processes, locks, sandboxes or files: a stored session is       *)
(* opened once, runs are entered under numbers that only grow, and after   *)
(* its end nothing is entered any more.                                    *)
(***************************************************************************)
EXTENDS Naturals

CONSTANTS Keys  \* session ids

VARIABLES
  phase,    \* phase[k]: "none", "open" or "ended"
  numbers   \* numbers[k]: the sequence numbers entered for session k

ledgerVars == <<phase, numbers>>

Init ==
  /\ phase = [k \in Keys |-> "none"]
  /\ numbers = [k \in Keys |-> {}]

Open(k) ==
  /\ phase[k] = "none"
  /\ phase' = [phase EXCEPT ![k] = "open"]
  /\ UNCHANGED numbers

Enter(k) ==
  /\ phase[k] = "open"
  /\ \E n \in numbers'[k] :
       /\ \A m \in numbers[k] : m < n
       /\ numbers' = [numbers EXCEPT ![k] = @ \cup {n}]
  /\ UNCHANGED phase

End(k) ==
  /\ phase[k] = "open"
  /\ phase' = [phase EXCEPT ![k] = "ended"]
  /\ UNCHANGED numbers

Next == \E k \in Keys : Open(k) \/ Enter(k) \/ End(k)

Spec == Init /\ [][Next]_ledgerVars
=============================================================================
