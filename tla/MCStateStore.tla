---------------------------- MODULE MCStateStore ----------------------------
(* A small instance of StateStore: two threads of a service and a CLI process. *)
EXTENDS StateStore, TLC

CONSTANTS service, cli, s1, s2, c1

MCProcesses == {service, cli}
MCThreads == {s1, s2, c1}
MCHome == [t \in MCThreads |-> IF t = c1 THEN cli ELSE service]

\* Records and names are interchangeable, and so are the threads of the service.
Symmetry == Permutations(Records) \cup Permutations(Names) \cup Permutations({s1, s2})
=============================================================================
