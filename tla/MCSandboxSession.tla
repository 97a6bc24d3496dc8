-------------------------- MODULE MCSandboxSession --------------------------
(* Small instances of SandboxSession: the configurations give the constants. *)
EXTENDS SandboxSession, TLC

\* Threads, sessions and sandboxes are interchangeable in the safety runs.
Symmetry ==
  Permutations(Threads) \cup Permutations(Sessions) \cup Permutations(Sandboxes)
=============================================================================
