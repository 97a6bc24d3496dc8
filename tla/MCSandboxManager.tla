-------------------------- MODULE MCSandboxManager --------------------------
(* Small instances of SandboxManager: the configurations give the constants. *)
EXTENDS SandboxManager, TLC

\* Processes, session ids and sandboxes are interchangeable in the safety runs.
Symmetry ==
  Permutations(Threads) \cup Permutations(Keys) \cup Permutations(Sandboxes)
=============================================================================
