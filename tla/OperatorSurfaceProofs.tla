------------------------ MODULE OperatorSurfaceProofs ------------------------
(***************************************************************************)
(* Proofs about OperatorSurface, for any number of CLI processes and       *)
(* request threads, session ids and sandboxes, and any environments.       *)
(*                                                                         *)
(* Every step an operator can see is a step of SandboxManager or none, so  *)
(* what is proved there holds here.  SurfaceInv follows an exception and   *)
(* the changes of its request from the step in which they happen to the    *)
(* answer; the classes of exceptions.py, the except clauses of cli.py and  *)
(* the handlers of server/app.py are finite tables, and are gone through   *)
(* once.                                                                   *)
(***************************************************************************)
EXTENDS OperatorSurface, SandboxManagerProofs, SequenceTheorems

-----------------------------------------------------------------------------
(* The classes and their bases. *)

\* A sequence with one more element in front.
LEMMA Prefixed ==
  ASSUME NEW S, NEW a \in S, NEW s \in Seq(S), NEW t \in Seq(S),
         Len(t) = Len(s) + 1, t[1] = a, \A i \in 1..Len(s) : t[i + 1] = s[i]
  PROVE  <<a>> \o s = t
<1>1. <<a>> \in Seq(S) /\ Len(<<a>>) = 1 /\ <<a>>[1] = a
  OBVIOUS
<1>2. /\ <<a>> \o s \in Seq(S)
        /\ Len(<<a>> \o s) = Len(<<a>>) + Len(s)
         /\ \A i \in 1 .. Len(<<a>> \o s) : (<<a>> \o s)[i] =
                     IF i <= Len(<<a>>) THEN <<a>>[i] ELSE s[i - Len(<<a>>)]
  BY <1>1, ConcatProperties
<1>3. Len(s) \in Nat /\ Len(<<a>> \o s) = Len(t)
  BY <1>1, <1>2
<1>4. ASSUME NEW i \in 1 .. Len(t) PROVE (<<a>> \o s)[i] = t[i]
  <2>1. CASE i = 1
    BY <1>1, <1>2, <1>3, <2>1
  <2>2. CASE i # 1
    <3>1. i - 1 \in 1..Len(s) /\ (i - 1) + 1 = i
      BY <2>2, <1>3
    <3>2. t[i] = s[i-1]
      BY <3>1
    <3>3. QED
      BY <3>1, <3>2, <1>1, <1>2, <1>3
  <2>3. QED
    BY <2>1, <2>2
<1>5. QED
  BY <1>2, <1>3, <1>4, SeqEqual

\* Short sequences with one more element in front.
LEMMA List2 == ASSUME NEW a, NEW b PROVE <<a>> \o <<b>> = <<a, b>>
<1> DEFINE S == {a, b}
<1>1. a \in S /\ <<b>> \in Seq(S) /\ <<a, b>> \in Seq(S) /\ Len(<<a, b>>) = Len(<<b>>) + 1
  OBVIOUS
<1>2. <<a, b>>[1] = a /\ \A i \in 1..Len(<<b>>) : <<a, b>>[i + 1] = <<b>>[i]
  OBVIOUS
<1> HIDE DEF S
<1>3. QED
  BY <1>1, <1>2, Prefixed

(* Appending a table of two or three entries to its first one: how `Orders` unfolds
   `Mro`. *)
LEMMA List3 == ASSUME NEW a, NEW b, NEW c PROVE <<a>> \o <<b, c>> = <<a, b, c>>
<1> DEFINE S == {a, b, c}
<1>1. a \in S /\ <<b, c>> \in Seq(S) /\ <<a, b, c>> \in Seq(S) /\ Len(<<a, b, c>>) = Len(<<b, c>>) + 1
  OBVIOUS
<1>2. <<a, b, c>>[1] = a /\ \A i \in 1..Len(<<b, c>>) : <<a, b, c>>[i + 1] = <<b, c>>[i]
  OBVIOUS
<1> HIDE DEF S
<1>3. QED
  BY <1>1, <1>2, Prefixed

(* The same for a list of four. *)
LEMMA List4 == ASSUME NEW a, NEW b, NEW c, NEW d PROVE <<a>> \o <<b, c, d>> = <<a, b, c, d>>
<1> DEFINE S == {a, b, c, d}
<1>1. a \in S /\ <<b, c, d>> \in Seq(S) /\ <<a, b, c, d>> \in Seq(S) /\ Len(<<a, b, c, d>>) = Len(<<b, c, d>>) + 1
  OBVIOUS
<1>2. <<a, b, c, d>>[1] = a /\ \A i \in 1..Len(<<b, c, d>>) : <<a, b, c, d>>[i + 1] = <<b, c, d>>[i]
  OBVIOUS
<1> HIDE DEF S
<1>3. QED
  BY <1>1, <1>2, Prefixed

\* The classes that extend AgentSandboxError, and those that extend one of these.
Bases == {"ConfigurationError", "SessionError", "BackendError", "ExecutionError",
          "ArtifactError", "StateStoreError"}
Leaves == {"ModalConfigurationError", "SandboxStartupError", "ProtocolError",
           "ArtifactNotFoundError", "SessionNotFoundError", "RunNotFoundError"}

(* The tree of exceptions, spelled out once for the tables below. *)
LEMMA ClassesAre ==
  /\ Classes = Bases \cup Leaves \cup {"Exception", "AgentSandboxError", "ValidationError"}
  /\ \A c \in Leaves : Parent[c] \in Bases
  /\ \A c \in Bases : Parent[c] = "AgentSandboxError"
  /\ Parent["AgentSandboxError"] = "Exception" /\ Parent["ValidationError"] = "Exception"
  /\ \A c \in Bases \cup Leaves : c \notin {"Exception", "AgentSandboxError", "ValidationError"}
  /\ \A c \in Leaves : c \notin Bases
  BY DEF Classes, Parent, Bases, Leaves

\* The bases of the leaves.
LEMMA LeavesAre ==
  /\ Parent["ModalConfigurationError"] = "ConfigurationError"
  /\ Parent["SandboxStartupError"] = "BackendError"
  /\ Parent["ProtocolError"] = "ExecutionError"
  /\ Parent["ArtifactNotFoundError"] = "ArtifactError"
  /\ Parent["SessionNotFoundError"] = "StateStoreError"
  /\ Parent["RunNotFoundError"] = "StateStoreError"
  BY DEF Parent

\* The method resolution orders.
Orders ==
  [c \in Classes |->
     CASE c = "Exception" -> <<c>>
       [] c \in {"AgentSandboxError", "ValidationError"} -> <<c, "Exception">>
       [] c \in Bases -> <<c, "AgentSandboxError", "Exception">>
       [] OTHER -> <<c, Parent[c], "AgentSandboxError", "Exception">>]

\* The table has the equation by which Mro is defined.
LEMMA OrdersUnfold ==
  Orders = [c \in Classes |-> IF c = "Exception" THEN <<c>> ELSE <<c>> \o Orders[Parent[c]]]
<1>1. ASSUME NEW c \in Classes
      PROVE  Orders[c] = IF c = "Exception" THEN <<c>> ELSE <<c>> \o Orders[Parent[c]]
  <2>1. CASE c = "Exception"
    BY <2>1, ClassesAre DEF Orders
  <2>2. CASE c \in {"AgentSandboxError", "ValidationError"}
    <3>1. Parent[c] = "Exception" /\ Orders["Exception"] = <<"Exception">>
      BY <2>2, ClassesAre DEF Orders
    <3>2. Orders[c] = <<c, "Exception">>
      BY <2>2, ClassesAre DEF Orders
    <3>3. QED
      BY <2>2, <3>1, <3>2, List2
  <2>3. CASE c \in Bases
    <3>1. Parent[c] = "AgentSandboxError"
          /\ Orders["AgentSandboxError"] = <<"AgentSandboxError", "Exception">>
      BY <2>3, ClassesAre DEF Orders
    <3>2. Orders[c] = <<c, "AgentSandboxError", "Exception">> /\ c # "Exception"
      BY <2>3, ClassesAre DEF Orders
    <3>3. QED
      BY <3>1, <3>2, List3
  <2>4. CASE c \in Leaves
    <3>1. Parent[c] \in Bases /\ Parent[c] \in Classes
      BY <2>4, ClassesAre
    <3>2. Orders[Parent[c]] = <<Parent[c], "AgentSandboxError", "Exception">>
      BY <3>1, ClassesAre DEF Orders
    <3>3. Orders[c] = <<c, Parent[c], "AgentSandboxError", "Exception">> /\ c # "Exception"
      BY <2>4, ClassesAre DEF Orders
    <3>4. QED
      BY <3>2, <3>3, List4
  <2>5. QED
    BY <2>1, <2>2, <2>3, <2>4, ClassesAre
<1>2. QED
  BY <1>1 DEF Orders

\* So has Mro.
LEMMA MroUnfold ==
  Mro = [c \in Classes |-> IF c = "Exception" THEN <<c>> ELSE <<c>> \o Mro[Parent[c]]]
<1>1. \E f : f = [c \in Classes |-> IF c = "Exception" THEN <<c>> ELSE <<c>> \o f[Parent[c]]]
  BY OrdersUnfold
<1>2. QED
  BY <1>1 DEF Mro

\* Classes have no other order: Mro is the table.
LEMMA MroIs ==
  /\ Mro["Exception"] = <<"Exception">>
  /\ \A c \in {"AgentSandboxError", "ValidationError"} : Mro[c] = <<c, "Exception">>
  /\ \A c \in Bases : Mro[c] = <<c, "AgentSandboxError", "Exception">>
  /\ \A c \in Leaves : Mro[c] = <<c, Parent[c], "AgentSandboxError", "Exception">>
<1>1. \A c \in Classes : Mro[c] = IF c = "Exception" THEN <<c>> ELSE <<c>> \o Mro[Parent[c]]
  BY MroUnfold
<1>2. Mro["Exception"] = <<"Exception">>
  BY <1>1, ClassesAre
<1>3. ASSUME NEW c \in {"AgentSandboxError", "ValidationError"} PROVE Mro[c] = <<c, "Exception">>
  <2>1. Mro[c] = <<c>> \o Mro["Exception"]
    BY <1>1, ClassesAre
  <2>2. QED
    BY <1>2, <2>1, List2
<1>4. ASSUME NEW c \in Bases PROVE Mro[c] = <<c, "AgentSandboxError", "Exception">>
  <2>1. Mro[c] = <<c>> \o Mro["AgentSandboxError"]
    BY <1>1, ClassesAre
  <2>2. QED
    BY <1>3, <2>1, List3
<1>5. ASSUME NEW c \in Leaves PROVE Mro[c] = <<c, Parent[c], "AgentSandboxError", "Exception">>
  <2>1. Mro[c] = <<c>> \o Mro[Parent[c]] /\ Parent[c] \in Bases
    BY <1>1, ClassesAre
  <2>2. Mro[Parent[c]] = <<Parent[c], "AgentSandboxError", "Exception">>
    BY <1>4, <2>1
  <2>3. QED
    BY <2>1, <2>2, List4
<1>6. QED
  BY <1>2, <1>3, <1>4, <1>5

\* Which except clauses catch a class.
LEMMA IsAIs ==
  ASSUME NEW b
  PROVE  /\ IsA("Exception", b) <=> "Exception" \in b
         /\ \A c \in {"AgentSandboxError", "ValidationError"} :
              IsA(c, b) <=> c \in b \/ "Exception" \in b
         /\ \A c \in Bases :
              IsA(c, b) <=> c \in b \/ "AgentSandboxError" \in b \/ "Exception" \in b
         /\ \A c \in Leaves :
              IsA(c, b) <=> \/ c \in b \/ Parent[c] \in b
                            \/ "AgentSandboxError" \in b \/ "Exception" \in b
<1>1. IsA("Exception", b) <=> "Exception" \in b
  BY MroIs DEF IsA
<1>2. ASSUME NEW c \in {"AgentSandboxError", "ValidationError"}
      PROVE  IsA(c, b) <=> c \in b \/ "Exception" \in b
  <2>1. Mro[c] = <<c, "Exception">>
    BY MroIs
  <2>2. DOMAIN Mro[c] = {1, 2} /\ Mro[c][1] = c /\ Mro[c][2] = "Exception"
    BY <2>1
  <2>3. QED
    BY <2>2 DEF IsA
<1>3. ASSUME NEW c \in Bases
      PROVE  IsA(c, b) <=> c \in b \/ "AgentSandboxError" \in b \/ "Exception" \in b
  <2>1. Mro[c] = <<c, "AgentSandboxError", "Exception">>
    BY MroIs
  <2>2. /\ DOMAIN Mro[c] = {1, 2, 3}
        /\ Mro[c][1] = c /\ Mro[c][2] = "AgentSandboxError" /\ Mro[c][3] = "Exception"
    BY <2>1
  <2>3. QED
    BY <2>2 DEF IsA
<1>4. ASSUME NEW c \in Leaves
      PROVE  IsA(c, b) <=> \/ c \in b \/ Parent[c] \in b
                           \/ "AgentSandboxError" \in b \/ "Exception" \in b
  <2>1. Mro[c] = <<c, Parent[c], "AgentSandboxError", "Exception">>
    BY MroIs
  <2>2. /\ DOMAIN Mro[c] = {1, 2, 3, 4}
        /\ Mro[c][1] = c /\ Mro[c][2] = Parent[c]
        /\ Mro[c][3] = "AgentSandboxError" /\ Mro[c][4] = "Exception"
    BY <2>1
  <2>3. QED
    BY <2>2 DEF IsA
<1>5. QED
  BY <1>1, <1>2, <1>3, <1>4

-----------------------------------------------------------------------------
(* Exit codes and statuses. *)

\* The table of main's except clauses, by their places.
LEMMA ClausesAre ==
  /\ DOMAIN Clauses = 1..7
  /\ Clauses[1].catches = {"ModalConfigurationError"} /\ Clauses[1].code = MODAL
  /\ Clauses[2].catches = {"ValidationError", "ConfigurationError"} /\ Clauses[2].code = CONFIG
  /\ Clauses[3].catches = {"SessionNotFoundError", "RunNotFoundError", "ArtifactNotFoundError"}
  /\ Clauses[3].code = NOT_FOUND
  /\ Clauses[4].catches = {"BackendError"} /\ Clauses[4].code = BACKEND
  /\ Clauses[5].catches = {"SessionError"} /\ Clauses[5].code = LIFECYCLE
  /\ Clauses[6].catches = {"AgentSandboxError"} /\ Clauses[6].code = INTERNAL
  /\ Clauses[7].catches = {"Exception"} /\ Clauses[7].code = INTERNAL
  BY DEF Clauses

\* Of the clauses that match, the first is taken.
LEMMA FirstClause ==
  ASSUME NEW c, NEW i \in 1..7, IsA(c, Clauses[i].catches),
         \A j \in 1 .. i - 1 : ~IsA(c, Clauses[j].catches)
  PROVE  ExitCode(c) = Clauses[i].code
<1> DEFINE First(k) == /\ IsA(c, Clauses[k].catches)
                       /\ \A j \in 1 .. k - 1 : ~IsA(c, Clauses[j].catches)
<1>1. \A k \in DOMAIN Clauses : First(k) => k = i
  <2> SUFFICES ASSUME NEW k \in 1..7, First(k) PROVE k = i
    BY ClausesAre
  <2>1. ~(k < i) /\ ~(i < k)
    OBVIOUS
  <2>2. QED
    BY <2>1
<1>2. i \in DOMAIN Clauses /\ First(i)
  BY ClausesAre
<1> HIDE DEF First
<1>3. (CHOOSE k \in DOMAIN Clauses : First(k)) = i
  BY <1>1, <1>2
<1>4. QED
  BY <1>3 DEF ExitCode, First

\* What the CLI makes of each class.
LEMMA ExitCodes ==
  /\ ExitCode("ModalConfigurationError") = MODAL
  /\ \A c \in {"ValidationError", "ConfigurationError"} : ExitCode(c) = CONFIG
  /\ \A c \in {"SessionNotFoundError", "RunNotFoundError", "ArtifactNotFoundError"} :
       ExitCode(c) = NOT_FOUND
  /\ \A c \in {"BackendError", "SandboxStartupError"} : ExitCode(c) = BACKEND
  /\ ExitCode("SessionError") = LIFECYCLE
  /\ \A c \in {"AgentSandboxError", "ExecutionError", "ProtocolError", "ArtifactError",
               "StateStoreError", "Exception"} : ExitCode(c) = INTERNAL
<1> USE ClausesAre, IsAIs, LeavesAre DEF Bases, Leaves
<1>1. ExitCode("ModalConfigurationError") = MODAL
  <2>1. IsA("ModalConfigurationError", Clauses[1].catches)
    OBVIOUS
  <2>2. QED
    BY <2>1, FirstClause
<1>2. ASSUME NEW c \in {"ValidationError", "ConfigurationError"} PROVE ExitCode(c) = CONFIG
  <2>1. IsA(c, Clauses[2].catches) /\ ~IsA(c, Clauses[1].catches)
    OBVIOUS
  <2>2. QED
    BY <2>1, FirstClause
<1>3. ASSUME NEW c \in {"SessionNotFoundError", "RunNotFoundError", "ArtifactNotFoundError"}
      PROVE  ExitCode(c) = NOT_FOUND
  <2>1. IsA(c, Clauses[3].catches)
    OBVIOUS
  <2>2. ~IsA(c, Clauses[1].catches) /\ ~IsA(c, Clauses[2].catches)
    OBVIOUS
  <2>3. QED
    BY <2>1, <2>2, FirstClause
<1>4. ASSUME NEW c \in {"BackendError", "SandboxStartupError"} PROVE ExitCode(c) = BACKEND
  <2>1. IsA(c, Clauses[4].catches)
    OBVIOUS
  <2>2. ~IsA(c, Clauses[1].catches) /\ ~IsA(c, Clauses[2].catches) /\ ~IsA(c, Clauses[3].catches)
    OBVIOUS
  <2>3. QED
    BY <2>1, <2>2, FirstClause
<1>5. ExitCode("SessionError") = LIFECYCLE
  <2>1. IsA("SessionError", Clauses[5].catches)
    OBVIOUS
  <2>2. \A j \in 1..4 : ~IsA("SessionError", Clauses[j].catches)
    OBVIOUS
  <2>3. QED
    BY <2>1, <2>2, FirstClause
<1>6. ASSUME NEW c \in {"AgentSandboxError", "ExecutionError", "ProtocolError", "ArtifactError",
                        "StateStoreError"}
      PROVE  ExitCode(c) = INTERNAL
  <2>1. IsA(c, Clauses[6].catches)
    OBVIOUS
  <2>2. \A j \in 1..5 : ~IsA(c, Clauses[j].catches)
    OBVIOUS
  <2>3. QED
    BY <2>1, <2>2, FirstClause
<1>7. ExitCode("Exception") = INTERNAL
  <2>1. IsA("Exception", Clauses[7].catches)
    OBVIOUS
  <2>2. \A j \in 1..6 : ~IsA("Exception", Clauses[j].catches)
    OBVIOUS
  <2>3. QED
    BY <2>1, <2>2, FirstClause
<1>8. QED
  BY <1>1, <1>2, <1>3, <1>4, <1>5, <1>6, <1>7

\* The classes with a handler of their own, and its status.
LEMMA HandlersAre ==
  /\ DOMAIN Handlers = {"SessionNotFoundError", "RunNotFoundError", "ArtifactNotFoundError",
                        "ConfigurationError", "ModalConfigurationError", "SessionError",
                        "BackendError", "AgentSandboxError", "ValidationError", "Exception"}
  /\ \A c \in {"SessionNotFoundError", "RunNotFoundError", "ArtifactNotFoundError"} :
       Handlers[c] = 404
  /\ Handlers["ConfigurationError"] = 400 /\ Handlers["ModalConfigurationError"] = 503
  /\ Handlers["SessionError"] = 409 /\ Handlers["BackendError"] = 502
  /\ Handlers["AgentSandboxError"] = 500 /\ Handlers["ValidationError"] = 422
  /\ Handlers["Exception"] = 500
  BY DEF Handlers

\* Of the classes with a handler, the nearest is taken.
LEMMA NearestHandler ==
  ASSUME NEW c, NEW n \in Nat, DOMAIN Mro[c] = 1..n, NEW i \in 1..n,
         Mro[c][i] \in DOMAIN Handlers,
         \A j \in 1 .. i - 1 : Mro[c][j] \notin DOMAIN Handlers
  PROVE  Status(c) = Handlers[Mro[c][i]]
<1> DEFINE Near(k) == /\ Mro[c][k] \in DOMAIN Handlers
                      /\ \A j \in 1 .. k - 1 : Mro[c][j] \notin DOMAIN Handlers
<1>1. \A k \in DOMAIN Mro[c] : Near(k) => k = i
  <2> SUFFICES ASSUME NEW k \in 1..n, Near(k) PROVE k = i
    OBVIOUS
  <2>1. ~(k < i) /\ ~(i < k)
    OBVIOUS
  <2>2. QED
    BY <2>1
<1>2. i \in DOMAIN Mro[c] /\ Near(i)
  OBVIOUS
<1> HIDE DEF Near
<1>3. (CHOOSE k \in DOMAIN Mro[c] : Near(k)) = i
  BY <1>1, <1>2
<1>4. QED
  BY <1>3 DEF Status, Near

\* What the service makes of each class.
LEMMA StatusCodes ==
  /\ \A c \in DOMAIN Handlers : Status(c) = Handlers[c]
  /\ Status("SandboxStartupError") = 502
  /\ \A c \in {"ExecutionError", "ProtocolError", "ArtifactError", "StateStoreError"} :
       Status(c) = 500
<1>a. DOMAIN Handlers \subseteq Classes
  BY HandlersAre, ClassesAre DEF Bases, Leaves
<1>1. ASSUME NEW c \in DOMAIN Handlers PROVE Status(c) = Handlers[c]
  <2>1. \E n \in Nat : n > 0 /\ DOMAIN Mro[c] = 1..n /\ Mro[c][1] = c
    <3>1. CASE c = "Exception"
      BY <3>1, MroIs
    <3>2. CASE c \in {"AgentSandboxError", "ValidationError"}
      <4>1. Mro[c] = <<c, "Exception">>
        BY <3>2, MroIs
      <4>2. DOMAIN Mro[c] = 1..2 /\ Mro[c][1] = c
        BY <4>1
      <4>3. QED
        BY <4>2
    <3>3. CASE c \in Bases
      <4>1. Mro[c] = <<c, "AgentSandboxError", "Exception">>
        BY <3>3, MroIs
      <4>2. DOMAIN Mro[c] = 1..3 /\ Mro[c][1] = c
        BY <4>1
      <4>3. QED
        BY <4>2
    <3>4. CASE c \in Leaves
      <4>1. Mro[c] = <<c, Parent[c], "AgentSandboxError", "Exception">>
        BY <3>4, MroIs
      <4>2. DOMAIN Mro[c] = 1..4 /\ Mro[c][1] = c
        BY <4>1
      <4>3. QED
        BY <4>2
    <3>5. QED
      BY <1>a, <3>1, <3>2, <3>3, <3>4, ClassesAre
  <2>2. PICK n \in Nat : n > 0 /\ DOMAIN Mro[c] = 1..n /\ Mro[c][1] = c
    BY <2>1
  <2>3. 1 \in 1..n
    BY <2>2
  <2>4. QED
    BY <2>2, <2>3, NearestHandler
<1>2. ASSUME NEW c \in {"SandboxStartupError", "ProtocolError"}
      PROVE  /\ DOMAIN Mro[c] = 1..4 /\ Mro[c][1] = c /\ Mro[c][2] = Parent[c]
             /\ Mro[c][3] = "AgentSandboxError"
  <2>1. Mro[c] = <<c, Parent[c], "AgentSandboxError", "Exception">>
    BY MroIs DEF Leaves
  <2>2. QED
    BY <2>1
<1>3. Status("SandboxStartupError") = 502
  <2>1. /\ Mro["SandboxStartupError"][2] = "BackendError"
        /\ Mro["SandboxStartupError"][1] = "SandboxStartupError"
        /\ DOMAIN Mro["SandboxStartupError"] = 1..4
    BY <1>2, LeavesAre
  <2>2. /\ 2 \in 1..4 /\ 4 \in Nat /\ Mro["SandboxStartupError"][2] \in DOMAIN Handlers
        /\ \A j \in 1 .. 2 - 1 : Mro["SandboxStartupError"][j] \notin DOMAIN Handlers
    BY <2>1, HandlersAre
  <2>3. Status("SandboxStartupError") = Handlers[Mro["SandboxStartupError"][2]]
    BY <2>1, <2>2, NearestHandler
  <2>4. QED
    BY <2>1, <2>3, HandlersAre
<1>4. Status("ProtocolError") = 500
  <2>1. /\ Mro["ProtocolError"][1] = "ProtocolError" /\ Mro["ProtocolError"][2] = "ExecutionError"
        /\ Mro["ProtocolError"][3] = "AgentSandboxError"
        /\ DOMAIN Mro["ProtocolError"] = 1..4
    BY <1>2, LeavesAre
  <2>2. /\ 3 \in 1..4 /\ 4 \in Nat /\ Mro["ProtocolError"][3] \in DOMAIN Handlers
        /\ \A j \in 1 .. 3 - 1 : Mro["ProtocolError"][j] \notin DOMAIN Handlers
    BY <2>1, HandlersAre
  <2>3. Status("ProtocolError") = Handlers[Mro["ProtocolError"][3]]
    BY <2>1, <2>2, NearestHandler
  <2>4. QED
    BY <2>1, <2>3, HandlersAre
<1>5. ASSUME NEW c \in {"ExecutionError", "ArtifactError", "StateStoreError"}
      PROVE  Status(c) = 500
  <2>1. Mro[c] = <<c, "AgentSandboxError", "Exception">>
    BY MroIs DEF Bases
  <2>2. DOMAIN Mro[c] = 1..3 /\ Mro[c][1] = c /\ Mro[c][2] = "AgentSandboxError"
    BY <2>1
  <2>3. /\ 2 \in 1..3 /\ 3 \in Nat /\ Mro[c][2] \in DOMAIN Handlers
        /\ \A j \in 1 .. 2 - 1 : Mro[c][j] \notin DOMAIN Handlers
    BY <2>2, HandlersAre
  <2>4. Status(c) = Handlers[Mro[c][2]]
    BY <2>2, <2>3, NearestHandler
  <2>5. QED
    BY <2>2, <2>4, HandlersAre
<1>6. QED
  BY <1>1, <1>3, <1>4, <1>5

\* What an operator is told of the exceptions that operations can end with.
LEMMA ErrorAnswers ==
  ASSUME NEW p \in Threads,
         NEW c \in PassedOn \cup {"SessionError", "SessionNotFoundError", "ArtifactNotFoundError"}
  PROVE  /\ ErrorAnswer(p, c) \in {NOT_FOUND, BACKEND, INTERNAL, LIFECYCLE, 404, 409, 500, 502}
         /\ ErrorAnswer(p, c) \in {NOT_FOUND, 404}
              => c \in {"SessionNotFoundError", "ArtifactNotFoundError"}
         /\ ErrorAnswer(p, c) \in {BACKEND, 502} => c \in {"BackendError", "SandboxStartupError"}
<1> USE DEF PassedOn, OK, RUN_FAILED, NOT_FOUND, BACKEND, INTERNAL, LIFECYCLE
<1>1. CASE c \in {"SessionNotFoundError", "ArtifactNotFoundError"}
  <2>1. ExitCode(c) = NOT_FOUND /\ Status(c) = 404
    BY <1>1, ExitCodes, StatusCodes, HandlersAre
  <2>2. QED
    BY <1>1, <2>1 DEF ErrorAnswer
<1>2. CASE c \in {"BackendError", "SandboxStartupError"}
  <2>1. ExitCode(c) = BACKEND /\ Status(c) = 502
    BY <1>2, ExitCodes, StatusCodes, HandlersAre
  <2>2. QED
    BY <1>2, <2>1 DEF ErrorAnswer
<1>3. CASE c = "SessionError"
  <2>1. ExitCode(c) = LIFECYCLE /\ Status(c) = 409
    BY <1>3, ExitCodes, StatusCodes, HandlersAre
  <2>2. QED
    BY <2>1 DEF ErrorAnswer
<1>4. CASE c \in {"ProtocolError", "ArtifactError", "StateStoreError", "Exception"}
  <2>1. ExitCode(c) = INTERNAL /\ Status(c) = 500
    BY <1>4, ExitCodes, StatusCodes, HandlersAre
  <2>2. QED
    BY <2>1 DEF ErrorAnswer
<1>5. QED
  BY <1>1, <1>2, <1>3, <1>4

-----------------------------------------------------------------------------
(* Surfaces add nothing to the manager. *)

\* The steps of a session's method, with and without an exception, are its steps.
LEMMA SessionActs ==
  ASSUME NEW p, SessionFails(p) \/ SessionWorks(p)
  PROVE  SessionStep(p)
BY DEF SessionFails, SessionWorks, SessionStep, Enter, Work

\* Every step on the surface is a step of the manager, of which no other part is at work.
LEMMA SurfaceMoves ==
  ASSUME NEW p \in Threads,
         CallManager(p) \/ SurfaceEnter(p) \/ SurfaceOperate(p) \/ SurfaceStoreFails(p)
           \/ SurfaceCrash(p)
  PROVE  Ask(p) \/ EnterFlock(p) \/ Operate(p) \/ Crash(p) \/ StoreFails(p)
<1>1. CASE CallManager(p)
  BY <1>1 DEF CallManager
<1>2. CASE SurfaceEnter(p)
  BY <1>2 DEF SurfaceEnter, EnterFlock
<1>3. CASE SurfaceOperate(p)
  <2>1. CASE Driving(p) /\ (SessionFails(p) \/ SessionWorks(p)) /\ UNCHANGED managerVars
    BY <2>1, SessionActs DEF Driving, Drive, Operate
  <2>2. QED
    BY <1>3, <2>1 DEF SurfaceOperate, Operate
<1>4. CASE SurfaceStoreFails(p) \/ SurfaceCrash(p)
  BY <1>4 DEF SurfaceStoreFails, SurfaceCrash
<1>5. QED
  BY <1>1, <1>2, <1>3, <1>4

(* Every step of the surfaces is a step of the manager or leaves its variables alone. *)
LEMMA SurfaceStepMaps == [SurfaceNext]_svars => [FaultyNext]_mvars
BY SurfaceMoves DEF SurfaceNext, svars, FaultyNext, CrashNext, ManagerNext

\* What the CLI and the service do to sessions, records and sandboxes, SandboxManager may
\* do: nothing that is refused, retried or answered adds a behaviour.
THEOREM SurfaceImplementsManager == SurfaceSpec => FaultySpec
<1>1. SurfaceInit => ManagerInit
  BY DEF SurfaceInit
<1>2. QED
  BY <1>1, SurfaceStepMaps, PTL DEF SurfaceSpec, FaultySpec

-----------------------------------------------------------------------------
(* A request and its answer. *)

\* A step of process p.
Moves(p) == Ask(p) \/ EnterFlock(p) \/ Operate(p) \/ Crash(p) \/ StoreFails(p)

\* The answers that operators may get.
Answers ==
  [op : ManagerOps \cup {"none"}, class : Classes \cup {"none"},
   code : {OK, RUN_FAILED, NOT_FOUND, BACKEND, INTERNAL, LIFECYCLE, 200, 404, 409, 500, 502},
   did : SUBSET Effects]

\* What a process knows of its own request.
RequestOK(p) == ObjectOf(p) /\ ExceptionOf(p) /\ EffectsOf(p) /\ ArtifactOf(p)

\* The parts of SurfaceInv that are used most.
LEMMA SurfaceFacts ==
  ASSUME SurfaceInv
  PROVE  /\ ManagerInv /\ RunIdsInv /\ SurfaceTypeOK /\ ManagerTypeOK /\ AnswerInv
         /\ IInv /\ SessionTypeOK /\ OwnObjects
         /\ \A q \in Threads : ProcessOK(q) /\ RequestOK(q)
BY ManagerFacts DEF SurfaceInv, RequestOK

\* The exception of the step, or the one that is on its way, and what it is answered with.
LEMMA Replied ==
  ASSUME SurfaceInv, NEW p \in Threads, NEW classes, Reply(p, classes)
  PROVE  \E c \in IF classes = {} THEN {err[p]} ELSE classes :
           /\ environment' = environment
           /\ mpc'[p] # "idle" => /\ err' = [err EXCEPT ![p] = c]
                                  /\ effects' = [effects EXCEPT ![p] = @ \cup Changed]
                                  /\ answer' = NoAnswer
           /\ mpc'[p] = "idle" => /\ err' = [err EXCEPT ![p] = "none"]
                                  /\ effects' = [effects EXCEPT ![p] = {}]
                                  /\ mout'[p] = "ok"
                                       => \E code \in OkAnswers(p, mop[p]) :
                                            answer' = Answer(mop[p], "none", code,
                                                             effects[p] \cup Changed)
                                  /\ mout'[p] # "ok"
                                       => answer' = Answer(mop[p], c, ErrorAnswer(p, c),
                                                           effects[p] \cup Changed)
BY Zenon DEF Reply, AnswerWith

\* The same of a request that goes on after the step.
LEMMA Unanswered ==
  ASSUME NEW p \in Threads, NEW classes, Reply(p, classes), mpc'[p] # "idle"
  PROVE  /\ classes # {} => \E c \in classes : err' = [err EXCEPT ![p] = c]
         /\ classes = {} => err' = [err EXCEPT ![p] = err[p]]
         /\ effects' = [effects EXCEPT ![p] = effects[p] \cup Changed]
BY Zenon DEF Reply

\* A process that does nothing knows of its request what it knew.
LEMMA OthersRequest ==
  ASSUME SurfaceInv, NEW q \in Threads, SameProcess(q), err'[q] = err[q],
         effects'[q] = effects[q]
  PROVE  RequestOK(q)'
<1>1. RequestOK(q)
  BY SurfaceFacts
<1>2. ObjectOf(q)'
  BY <1>1 DEF RequestOK, ObjectOf, SameProcess, SameObject, Usable
<1>3. ExceptionOf(q)'
  BY <1>1 DEF RequestOK, ExceptionOf, SameProcess, SameObject, Driving
<1>4. EffectsOf(q)'
  BY <1>1 DEF RequestOK, EffectsOf, SameProcess, SameObject
<1>5. ArtifactOf(q)'
  BY <1>1 DEF RequestOK, ArtifactOf, SameProcess
<1>6. QED
  BY <1>2, <1>3, <1>4, <1>5 DEF RequestOK

\* The invariant, put together after a step of process p.
LEMMA SurfaceParts ==
  ASSUME SurfaceInv, [SurfaceNext]_svars, NEW p \in Threads, Moves(p),
         environment' = environment,
         NEW c \in Classes \cup {"none"}, NEW did \in SUBSET Effects,
         err' = [err EXCEPT ![p] = c], effects' = [effects EXCEPT ![p] = did],
         RequestOK(p)', AnswerInv',
         answer' \in Answers
  PROVE  SurfaceInv'
<1>1. SurfaceTypeOK /\ ManagerInv /\ RunIdsInv
  BY SurfaceFacts
<1>2. ManagerInv' /\ RunIdsInv'
  BY <1>1, SurfaceStepMaps, ManagerStep, RunIdsStep
<1>3. SurfaceTypeOK'
  BY <1>1, <1>2 DEF SurfaceTypeOK, ManagerInv, Answers
<1>4. \A q \in Threads \ {p} : SameProcess(q)
  BY <1>1, OneProcessMoves DEF Moves
<1>5. ASSUME NEW q \in Threads PROVE RequestOK(q)'
  <2>1. CASE q = p
    BY <2>1
  <2>2. CASE q # p
    <3>1. SameProcess(q) /\ err'[q] = err[q] /\ effects'[q] = effects[q]
      BY <1>1, <1>4, <2>2 DEF SurfaceTypeOK
    <3>2. QED
      BY <3>1, OthersRequest
  <2>3. QED
    BY <2>1, <2>2
<1>6. QED
  BY <1>2, <1>3, <1>5 DEF SurfaceInv, RequestOK

\* Nothing is said in most steps.
LEMMA SaysNothing ==
  ASSUME answer' = NoAnswer
  PROVE  AnswerInv' /\ answer' \in Answers
BY DEF Answers, NoAnswer, Answer, AnswerInv, NotFoundChangedNothing, GoodMeansStored,
       BackendFailureStoredNoRun, OK, RUN_FAILED, NOT_FOUND, BACKEND

(* What a step can add to `effects` is one of the named effects. *)
LEMMA ChangedIs == Changed \subseteq Effects
BY DEF Changed, Effects

\* A step that writes no file and leaves Modal's side alone changes nothing.
LEMMA NothingChanged ==
  ASSUME sess' = sess, runs' = runs, remote' = remote
  PROVE  Changed = {}
BY DEF Changed

\* A record written over by an object that has run nothing tells what it told.
LEMMA SameAccount ==
  ASSUME SurfaceInv, NEW p \in Threads, Holds(p), ~Creating(p), mop[p] # "run",
         status[p] \in {"active", "detached"}, sess' = [sess EXCEPT ![key[p]] = Describe(p)],
         runs' = runs, remote' = remote
  PROVE  Changed = {}
<1>1. ManagerTypeOK /\ SnapshotOf(p) /\ key[p] \in Keys
  BY SurfaceFacts DEF ProcessOK, PlaceOf, Holds
<1>2. /\ sess[key[p]].status \notin {"none", "terminated"}
      /\ sess[key[p]].sandbox = sandboxId[p]
      /\ sess[key[p]].count = runCount[p] /\ sess[key[p]].last = lastRun[p]
  BY <1>1 DEF SnapshotOf
<1>3. Account(Describe(p)) = Account(sess[key[p]])
  BY <1>2 DEF Account, Describe, Stored
<1>4. ASSUME NEW k \in Keys PROVE Account(sess'[k]) = Account(sess[k])
  BY <1>1, <1>3 DEF ManagerTypeOK
<1>5. QED
  BY <1>4 DEF Changed

\* The classes that an operation of the manager can end with.
Told == PassedOn \cup {"SessionError", "SessionNotFoundError", "ArtifactNotFoundError"}

(* The exceptions an operator is told of are classes, and "none" is not one. *)
LEMMA ToldAreClasses == Told \subseteq Classes /\ "none" \notin Told
BY ClassesAre DEF Told, PassedOn, Bases, Leaves

\* A step after which the request is still going on.
LEMMA GoesOn ==
  ASSUME SurfaceInv, [SurfaceNext]_svars, NEW p \in Threads, Moves(p), NEW classes,
         classes \subseteq PassedOn, Reply(p, classes), mpc'[p] # "idle",
         ObjectOf(p)',
         \A c \in PassedOn \cup {"none"} :
           /\ IF classes = {} THEN c = err[p] ELSE c \in classes
           /\ err' = [err EXCEPT ![p] = c]
           /\ effects' = [effects EXCEPT ![p] = @ \cup Changed]
           => ExceptionOf(p)' /\ EffectsOf(p)' /\ ArtifactOf(p)'
  PROVE  SurfaceInv'
<1>1. RequestOK(p) /\ SurfaceTypeOK
  BY SurfaceFacts
<1>2. PICK c \in IF classes = {} THEN {err[p]} ELSE classes :
           /\ environment' = environment
           /\ err' = [err EXCEPT ![p] = c]
           /\ effects' = [effects EXCEPT ![p] = @ \cup Changed]
           /\ answer' = NoAnswer
  BY Replied
<1>3. c \in PassedOn \cup {"none"} /\ IF classes = {} THEN c = err[p] ELSE c \in classes
  BY <1>1 DEF RequestOK, ExceptionOf
<1>4. RequestOK(p)'
  BY <1>2, <1>3 DEF RequestOK
<1>5. c \in Classes \cup {"none"}
  BY <1>3, ToldAreClasses DEF Told
<1>6. effects[p] \cup Changed \in SUBSET Effects /\ effects' = [effects EXCEPT ![p] = effects[p] \cup Changed]
  BY <1>1, <1>2, ChangedIs DEF SurfaceTypeOK
<1>7. QED
  BY <1>2, <1>4, <1>5, <1>6, SaysNothing, SurfaceParts

\* Nothing is left of a request that has been answered, or whose process was killed.
LEMMA RequestOver ==
  ASSUME SurfaceInv, NEW p \in Threads, mpc'[p] = "idle", mop'[p] = "none", Discard(p),
         err' = [err EXCEPT ![p] = "none"], effects' = [effects EXCEPT ![p] = {}]
  PROVE  RequestOK(p)'
<1>1. SurfaceTypeOK /\ SessionTypeOK /\ BackendTypeOK /\ Sessions = Threads
  BY SurfaceFacts, ManagerFacts, OwnObjectAssumption
<1>2. ~closed'[p] /\ ~detached'[p] /\ sandboxId'[p] = NoSandbox
  BY <1>1 DEF Discard, Build, SessionTypeOK, BackendTypeOK
<1>3. err'[p] = "none" /\ effects'[p] = {}
  BY <1>1 DEF SurfaceTypeOK
<1>4. QED
  BY <1>2, <1>3 DEF RequestOK, ObjectOf, ExceptionOf, EffectsOf, ArtifactOf, Usable, Driving

\* A step with which the manager's operation returns or raises, and is answered.
LEMMA Answered ==
  ASSUME SurfaceInv, [SurfaceNext]_svars, NEW p \in Threads, mpc[p] # "idle", Moves(p),
         NEW classes, Reply(p, classes),
         NEW outcome \in {"ok", "raised"}, Finish(p, outcome),
         NEW did, did = effects[p] \cup Changed,
         outcome = "ok"
           => CASE mop[p] \in {"start", "attach", "terminate"} -> "record" \in did
                [] mop[p] = "run" -> {"run", "record"} \subseteq did
                [] OTHER -> TRUE,
         outcome = "raised"
           => \A c \in IF classes = {} THEN {err[p]} ELSE classes :
                /\ c \in Told
                /\ c \in {"SessionNotFoundError", "ArtifactNotFoundError"} => did = {}
                /\ c \in {"BackendError", "SandboxStartupError"} => "run" \notin did
  PROVE  SurfaceInv'
<1>1. SurfaceTypeOK /\ ManagerTypeOK /\ PlaceOf(p)
  BY SurfaceFacts DEF ProcessOK
<1>2. mpc'[p] = "idle" /\ mop'[p] = "none" /\ mout'[p] = outcome /\ Discard(p)
  BY <1>1 DEF Finish, At, ManagerTypeOK
<1>3. PICK c \in IF classes = {} THEN {err[p]} ELSE classes :
           /\ environment' = environment
           /\ err' = [err EXCEPT ![p] = "none"]
           /\ effects' = [effects EXCEPT ![p] = {}]
           /\ mout'[p] = "ok"
                => \E code \in OkAnswers(p, mop[p]) : answer' = Answer(mop[p], "none", code, did)
           /\ mout'[p] # "ok" => answer' = Answer(mop[p], c, ErrorAnswer(p, c), did)
  BY <1>2, Replied
<1>4. RequestOK(p)'
  BY <1>2, <1>3, RequestOver
<1>5. did \in SUBSET Effects /\ mop[p] \in ManagerOps
  BY <1>1, ChangedIs DEF SurfaceTypeOK, PlaceOf
<1>6. CASE outcome = "ok"
  <2>1. PICK code \in OkAnswers(p, mop[p]) : answer' = Answer(mop[p], "none", code, did)
    BY <1>2, <1>3, <1>6
  <2>2. code \in {OK, RUN_FAILED, 200}
    BY <2>1 DEF OkAnswers
  <2>3. code \notin {NOT_FOUND, 404, BACKEND, 502}
    BY <2>2 DEF OK, RUN_FAILED, NOT_FOUND, BACKEND
  <2>4. /\ answer'.op = mop[p] /\ answer'.code = code /\ answer'.did = did
        /\ answer' \in Answers
    BY <2>1, <2>2, <1>5 DEF Answer, Answers
  <2>5. AnswerInv'
    BY <2>3, <2>4, <1>6
    DEF AnswerInv, NotFoundChangedNothing, GoodMeansStored, BackendFailureStoredNoRun
  <2>6. QED
    BY <1>3, <1>4, <1>5, <2>4, <2>5, SurfaceParts DEF Effects
<1>7. CASE outcome = "raised"
  <2>1. answer' = Answer(mop[p], c, ErrorAnswer(p, c), did)
    BY <1>2, <1>3, <1>7
  <2>2. /\ c \in Told
        /\ c \in {"SessionNotFoundError", "ArtifactNotFoundError"} => did = {}
        /\ c \in {"BackendError", "SandboxStartupError"} => "run" \notin did
    BY <1>3, <1>7
  <2>3. /\ ErrorAnswer(p, c) \in {NOT_FOUND, BACKEND, INTERNAL, LIFECYCLE, 404, 409, 500, 502}
        /\ ErrorAnswer(p, c) \in {NOT_FOUND, 404}
             => c \in {"SessionNotFoundError", "ArtifactNotFoundError"}
        /\ ErrorAnswer(p, c) \in {BACKEND, 502} => c \in {"BackendError", "SandboxStartupError"}
    BY <2>2, ErrorAnswers DEF Told
  <2>4. ErrorAnswer(p, c) \notin {OK, RUN_FAILED, 200}
    BY <2>3 DEF OK, RUN_FAILED, NOT_FOUND, BACKEND, INTERNAL, LIFECYCLE
  <2>5. /\ answer'.code = ErrorAnswer(p, c) /\ answer'.did = did
        /\ answer' \in Answers
    BY <2>1, <2>2, <2>3, <1>5, ToldAreClasses DEF Answer, Answers
  <2>6. AnswerInv'
    BY <2>2, <2>3, <2>4, <2>5
    DEF AnswerInv, NotFoundChangedNothing, GoodMeansStored, BackendFailureStoredNoRun
  <2>7. QED
    BY <1>3, <1>4, <1>5, <2>5, <2>6, SurfaceParts DEF Effects
<1>8. QED
  BY <1>6, <1>7

-----------------------------------------------------------------------------
(* The steps with which an operation ends. *)

\* What a process with an operation going on may count on.
LEMMA RequestFacts ==
  ASSUME SurfaceInv, NEW p \in Threads
  PROVE  /\ ManagerInv /\ RunIdsInv /\ SurfaceTypeOK /\ ManagerTypeOK /\ SessionTypeOK
         /\ IInv /\ OwnObjects
         /\ PlaceOf(p) /\ FreshOf(p) /\ SnapshotOf(p) /\ OutcomeOf(p)
         /\ ObjectOf(p) /\ ExceptionOf(p) /\ EffectsOf(p) /\ ArtifactOf(p)
BY SurfaceFacts DEF RequestOK, ProcessOK

\* A step that ends an operation, and raises nothing itself.
LEMMA AnsweredAsBefore ==
  ASSUME SurfaceInv, [SurfaceNext]_svars, NEW p \in Threads, mpc[p] # "idle", Moves(p),
         Reply(p, {}), NEW outcome \in {"ok", "raised"}, Finish(p, outcome),
         outcome = "ok"
           => CASE mop[p] \in {"start", "attach", "terminate"}
                     -> "record" \in effects[p] \cup Changed
                [] mop[p] = "run" -> {"run", "record"} \subseteq effects[p] \cup Changed
                [] OTHER -> TRUE,
         outcome = "raised"
           => /\ err[p] \in PassedOn /\ "run" \notin effects[p] \cup Changed
              /\ mop[p] = "artifact" => Changed = {}
  PROVE  SurfaceInv'
<1> DEFINE did == effects[p] \cup Changed
<1>a. outcome = "raised" /\ err[p] = "ArtifactNotFoundError" => did = {}
  BY RequestFacts DEF ArtifactOf
<1>1. outcome = "raised"
        => \A c \in IF {} = {} THEN {err[p]} ELSE {} :
             /\ c \in Told
             /\ c \in {"SessionNotFoundError", "ArtifactNotFoundError"} => did = {}
             /\ c \in {"BackendError", "SandboxStartupError"} => "run" \notin did
  BY <1>a DEF Told, PassedOn
<1>2. outcome = "ok"
        => CASE mop[p] \in {"start", "attach", "terminate"} -> "record" \in did
             [] mop[p] = "run" -> {"run", "record"} \subseteq did
             [] OTHER -> TRUE
  OBVIOUS
<1>3. did = effects[p] \cup Changed
  OBVIOUS
<1> HIDE DEF did
<1>4. QED
  BY <1>1, <1>2, <1>3, Answered

\* A refused request has changed nothing.
LEMMA RefusedStep ==
  ASSUME SurfaceInv, [SurfaceNext]_svars, NEW p \in Threads, EnterRefused(p),
         Reply(p, RefusalClasses(p))
  PROVE  SurfaceInv'
<1>1. /\ mpc[p] = "flock" /\ Finish(p, "raised") /\ UNCHANGED <<sess, runs>>
      /\ \/ mop[p] \in {"run", "terminate"} /\ ~Attachable(key[p])
         \/ mop[p] = "artifact"
  BY DEF EnterRefused, Granted
<1>2. effects[p] = {}
  BY <1>1, RequestFacts DEF EffectsOf
<1>3. Changed = {}
  BY <1>1 DEF Changed, Finish, Discard, Build
<1>4. RefusalClasses(p) # {} /\ RefusalClasses(p) \subseteq Told
  <2>1. CASE mop[p] = "artifact"
    BY <2>1 DEF RefusalClasses, Told
  <2>2. CASE mop[p] # "artifact" /\ ~Attachable(key[p])
    BY <2>2 DEF RefusalClasses, Told
  <2>3. QED
    BY <1>1, <2>1, <2>2
<1>5. Moves(p) /\ mpc[p] # "idle"
  BY <1>1 DEF Moves, EnterFlock
<1>6. QED
  BY <1>1, <1>2, <1>3, <1>4, <1>5, Answered

\* The exception of a failed method is the answer, and the run of none is stored.
LEMMA NotStoredStep ==
  ASSUME SurfaceInv, [SurfaceNext]_svars, NEW p \in Threads, NotStored(p), Reply(p, {})
  PROVE  SurfaceInv'
<1>1. /\ mpc[p] \in {"starting", "detaching", "calling"} /\ pc[p] = "idle" /\ out[p] = "raised"
      /\ Finish(p, "raised") /\ UNCHANGED <<sess, runs>>
  BY DEF NotStored, Ended
<1>2. err[p] \in PassedOn
  BY <1>1, RequestFacts DEF ExceptionOf, Driving
<1>3. "run" \notin effects[p]
  BY <1>1, RequestFacts DEF EffectsOf
<1>4. "run" \notin Changed
  BY <1>1 DEF Changed
<1>5. Moves(p) /\ mpc[p] # "idle"
  BY <1>1 DEF Moves, Operate
<1>6. mop[p] # "artifact"
  BY <1>1, RequestFacts DEF NotStored, PlaceOf
<1>7. QED
  BY <1>1, <1>2, <1>3, <1>4, <1>5, <1>6, AnsweredAsBefore

\* A session that is started, attached or terminated well has a new record.
LEMMA SaveWrites ==
  ASSUME SurfaceInv, NEW p \in Threads, Save(p), mop[p] \in {"start", "attach", "terminate"}
  PROVE  "record" \in Changed
<1>1. /\ mpc[p] = "save" /\ sess' = [sess EXCEPT ![key[p]] = Describe(p)] /\ key[p] \in Keys
      /\ status[p] = IF mop[p] = "terminate" THEN "terminated" ELSE "detached"
  BY RequestFacts DEF Save, PlaceOf, OutcomeOf
<1>2. sess'[key[p]] = Describe(p)
  BY <1>1, RequestFacts DEF ManagerTypeOK
<1>3. Account(sess'[key[p]])[1] = IF mop[p] = "terminate" THEN "ended" ELSE "open"
  BY <1>1, <1>2 DEF Account, Describe, Stored
<1>4. Account(sess[key[p]])[1] # Account(sess'[key[p]])[1]
  <2>1. CASE mop[p] = "terminate"
    <3>1. sess[key[p]].status \notin {"none", "terminated"}
      BY <1>1, <2>1, RequestFacts DEF SnapshotOf, Holds, Creating
    <3>2. QED
      BY <1>3, <2>1, <3>1 DEF Account
  <2>2. CASE mop[p] \in {"start", "attach"}
    <3>1. sess[key[p]].status = "none"
      BY <2>2, RequestFacts DEF FreshOf, Creating, NoRecord, Stored
    <3>2. QED
      BY <1>3, <2>2, <3>1 DEF Account
  <2>3. QED
    BY <2>1, <2>2
<1>5. QED
  BY <1>1, <1>4 DEF Changed

(* The record is written and the operation ends: its answer is good only if nothing was
   raised. *)
LEMMA SaveStep ==
  ASSUME SurfaceInv, [SurfaceNext]_svars, NEW p \in Threads, Save(p), Reply(p, {})
  PROVE  SurfaceInv'
<1> DEFINE outcome == IF mop[p] \in {"run", "artifact"} THEN mout[p] ELSE "ok"
<1>1. mpc[p] = "save" /\ Finish(p, outcome) /\ UNCHANGED runs
  BY DEF Save
<1>2. mop[p] \in {"run", "artifact"} => mout[p] = "ok" \/ (mout[p] = "raised" /\ err[p] # "none")
  BY <1>1, RequestFacts DEF ExceptionOf
<1>3. outcome \in {"ok", "raised"}
  BY <1>2
<1>4. "run" \notin Changed
  BY <1>1 DEF Changed
<1>5. outcome = "raised" => /\ err[p] \in PassedOn /\ "run" \notin effects[p]
  BY <1>1, <1>2, RequestFacts DEF ExceptionOf, EffectsOf
<1>6. outcome = "ok"
        => CASE mop[p] \in {"start", "attach", "terminate"}
                  -> "record" \in effects[p] \cup Changed
             [] mop[p] = "run" -> {"run", "record"} \subseteq effects[p] \cup Changed
             [] OTHER -> TRUE
  BY <1>1, SaveWrites, RequestFacts DEF EffectsOf
<1>7. Moves(p) /\ mpc[p] # "idle"
  BY <1>1 DEF Moves, Operate
<1>8. mop[p] = "artifact" => Changed = {}
  <2>1. sess' = [sess EXCEPT ![key[p]] = Describe(p)] /\ remote' = remote /\ Holds(p)
    BY <1>1 DEF Save, Finish, Discard, Build, Holds
  <2>2. mop[p] = "artifact" => status[p] = "detached"
    BY <1>1, RequestFacts DEF OutcomeOf
  <2>3. QED
    BY <1>1, <2>1, <2>2, SameAccount DEF Creating
<1> HIDE DEF outcome
<1>9. QED
  BY <1>1, <1>3, <1>4, <1>5, <1>6, <1>7, <1>8, AnsweredAsBefore

\* An inactive session's record is left as it is: no run was stored under it.
LEMMA InactiveStep ==
  ASSUME SurfaceInv, [SurfaceNext]_svars, NEW p \in Threads, FinalizeInactive(p), Reply(p, {})
  PROVE  SurfaceInv'
<1>1. /\ mpc[p] = "finalize" /\ status[p] # "active" /\ Finish(p, mout[p])
      /\ UNCHANGED <<sess, runs>>
  BY DEF FinalizeInactive
<1>2. /\ mop[p] \in {"run", "artifact"}
      /\ mout[p] = "ok" \/ (mout[p] = "raised" /\ err[p] # "none")
  BY <1>1, RequestFacts DEF PlaceOf, ExceptionOf
<1>3. ~(mop[p] = "run" /\ mout[p] = "ok")
  BY <1>1, RequestFacts DEF OutcomeOf, Saved
<1>4. "run" \notin effects[p] \cup Changed
  BY <1>1, <1>3, RequestFacts DEF EffectsOf, Changed
<1>5. mout[p] = "raised" => err[p] \in PassedOn
  BY <1>2, RequestFacts DEF ExceptionOf
<1>6. Moves(p) /\ mpc[p] # "idle"
  BY <1>1 DEF Moves, Operate
<1>7. Changed = {}
  BY <1>1, NothingChanged DEF Finish, Discard, Build
<1>8. QED
  BY <1>1, <1>2, <1>3, <1>4, <1>5, <1>6, <1>7, AnsweredAsBefore

\* Failures of the manager's own: "Failed to detach session", and of the store.
LEMMA OwnFailureStep ==
  ASSUME SurfaceInv, [SurfaceNext]_svars, NEW p \in Threads, mpc[p] # "idle",
         Finish(p, "raised"), Moves(p), NEW classes, classes # {},
         classes \subseteq {"SessionError", "StateStoreError", "Exception"}, Reply(p, classes)
  PROVE  SurfaceInv'
<1> DEFINE did == effects[p] \cup Changed
<1>1. \A x \in IF classes = {} THEN {err[p]} ELSE classes :
        /\ x \in Told
        /\ x \in {"SessionNotFoundError", "ArtifactNotFoundError"} => did = {}
        /\ x \in {"BackendError", "SandboxStartupError"} => "run" \notin did
  BY DEF Told, PassedOn
<1>2. did = effects[p] \cup Changed
  OBVIOUS
<1> HIDE DEF did
<1>3. QED
  BY <1>1, <1>2, Answered

-----------------------------------------------------------------------------
(* The steps between which a request is going on. *)

\* A step that raises nothing leaves the exception of the request as it is.
LEMMA GoesOnAsBefore ==
  ASSUME SurfaceInv, [SurfaceNext]_svars, NEW p \in Threads, Moves(p), Reply(p, {}),
         mpc'[p] # "idle", ObjectOf(p)',
         err' = err /\ effects' = [effects EXCEPT ![p] = @ \cup Changed]
           => ExceptionOf(p)' /\ EffectsOf(p)' /\ ArtifactOf(p)'
  PROVE  SurfaceInv'
<1>1. SurfaceTypeOK
  BY SurfaceFacts
<1>2. ASSUME NEW c \in PassedOn \cup {"none"}, IF {} = {} THEN c = err[p] ELSE c \in {},
             err' = [err EXCEPT ![p] = c]
      PROVE  err' = err
  BY <1>1, <1>2 DEF SurfaceTypeOK
<1> DEFINE classes == {}
<1>3. \A c \in PassedOn \cup {"none"} :
           /\ IF classes = {} THEN c = err[p] ELSE c \in classes
           /\ err' = [err EXCEPT ![p] = c]
           /\ effects' = [effects EXCEPT ![p] = @ \cup Changed]
           => ExceptionOf(p)' /\ EffectsOf(p)' /\ ArtifactOf(p)'
  BY <1>2
<1>4. classes \subseteq PassedOn /\ Reply(p, classes)
  OBVIOUS
<1> HIDE DEF classes
<1>5. QED
  BY <1>3, <1>4, GoesOn

\* The effects of a request after a step that goes on.
LEMMA EffectsAfter ==
  ASSUME SurfaceInv, NEW p \in Threads, effects' = [effects EXCEPT ![p] = @ \cup Changed]
  PROVE  effects'[p] = effects[p] \cup Changed
BY SurfaceFacts DEF SurfaceTypeOK

\* The first method is called on an object that can be used.
LEMMA EnterNewReply ==
  ASSUME SurfaceInv, [SurfaceNext]_svars, NEW p \in Threads, EnterNew(p), Reply(p, {})
  PROVE  SurfaceInv'
<1>1. /\ mpc[p] = "flock" /\ mop[p] \in {"start", "attach"}
      /\ Begin(p, p, "start") /\ At(p, "starting")
      /\ UNCHANGED <<mop, key, mout, sess, runs>>
  BY DEF EnterNew, Granted, Call
<1>2. /\ mpc'[p] = "starting" /\ pc'[p] = "lock" /\ out'[p] = "none"
      /\ UNCHANGED <<closed, detached, sandboxId, remote>>
  BY <1>1, RequestFacts
  DEF Begin, At, Goto, objectVars, backendVars, ManagerTypeOK, SessionTypeOK
<1>3. ObjectOf(p)'
  BY <1>1, <1>2, RequestFacts DEF ObjectOf, Usable
<1>4. ASSUME err' = err, effects' = [effects EXCEPT ![p] = @ \cup Changed]
      PROVE  ExceptionOf(p)' /\ EffectsOf(p)' /\ ArtifactOf(p)'
  <2>1. effects'[p] = {}
    BY <1>1, <1>2, <1>4, EffectsAfter, RequestFacts DEF EffectsOf, Changed
  <2>2. QED
    BY <1>1, <1>2, <1>4, <2>1, RequestFacts DEF ExceptionOf, EffectsOf, ArtifactOf
<1>5. Moves(p)
  BY DEF Moves, EnterFlock
<1>6. QED
  BY <1>2, <1>3, <1>4, <1>5, GoesOnAsBefore

\* So is the method of an operation on a stored session.
LEMMA EnterStoredReply ==
  ASSUME SurfaceInv, [SurfaceNext]_svars, NEW p \in Threads, EnterStored(p), Reply(p, {})
  PROVE  SurfaceInv'
<1>1. /\ mpc[p] = "flock" /\ mop[p] \in {"run", "artifact", "terminate"}
      /\ Build(p, sess[key[p]].sandbox, sess[key[p]].count, sess[key[p]].last)
      /\ Goto(p, "lock") /\ out' = [out EXCEPT ![p] = "none"] /\ At(p, "calling")
      /\ UNCHANGED <<mop, key, mout, sess, runs>>
  BY DEF EnterStored, Granted
<1>2. /\ mpc'[p] = "calling" /\ pc'[p] = "lock" /\ out'[p] = "none"
      /\ ~closed'[p] /\ ~detached'[p] /\ UNCHANGED remote
  BY <1>1, RequestFacts DEF Build, At, Goto, ManagerTypeOK, SessionTypeOK, OwnObjects
<1>3. ObjectOf(p)'
  BY <1>1, <1>2 DEF ObjectOf, Usable
<1>4. ASSUME err' = err, effects' = [effects EXCEPT ![p] = @ \cup Changed]
      PROVE  ExceptionOf(p)' /\ EffectsOf(p)' /\ ArtifactOf(p)'
  <2>1. effects'[p] = {}
    BY <1>1, <1>2, <1>4, EffectsAfter, RequestFacts DEF EffectsOf, Changed
  <2>2. QED
    BY <1>1, <1>2, <1>4, <2>1, RequestFacts DEF ExceptionOf, EffectsOf, ArtifactOf
<1>5. Moves(p)
  BY DEF Moves, EnterFlock
<1>6. QED
  BY <1>2, <1>3, <1>4, <1>5, GoesOnAsBefore

\* A started session is not detached yet, and an active one neither.
LEMMA CallDetach ==
  ASSUME SurfaceInv, NEW p \in Threads, NEW place \in {"detaching", "releasing"},
         Call(p, "detach", place), status[p] = "active", mop[p] # "terminate", mop' = mop
  PROVE  /\ mpc'[p] = place /\ pc'[p] = "lock" /\ out'[p] = "none" /\ UNCHANGED remote
         /\ ObjectOf(p)'
<1>1. /\ mpc'[p] = place /\ pc'[p] = "lock" /\ out'[p] = "none" /\ UNCHANGED remote
      /\ UNCHANGED <<closed, detached>>
  BY RequestFacts
  DEF Call, Begin, At, Goto, objectVars, backendVars, ManagerTypeOK, SessionTypeOK
<1>2. ~detached[p]
  BY RequestFacts DEF IInv, HandleInv, DetachedStatus, OwnObjects
<1>3. ~closed[p]
  BY RequestFacts DEF ObjectOf
<1>4. QED
  BY <1>1, <1>2, <1>3 DEF ObjectOf, Usable

(* start() has returned for a new session: the manager goes on to detach it. *)
LEMMA DetachNewReply ==
  ASSUME SurfaceInv, [SurfaceNext]_svars, NEW p \in Threads, DetachNew(p), Reply(p, {})
  PROVE  SurfaceInv'
<1>1. /\ mpc[p] = "starting" /\ pc[p] = "idle" /\ out[p] = "ok"
      /\ Call(p, "detach", "detaching") /\ UNCHANGED <<mop, key, mout, flock, sess, runs>>
  BY DEF DetachNew, Ended
<1>2. mop[p] \in {"start", "attach"} /\ status[p] = "active"
  BY <1>1, RequestFacts DEF PlaceOf, OutcomeOf, Returned
<1>3. /\ mpc'[p] = "detaching" /\ pc'[p] = "lock" /\ out'[p] = "none" /\ UNCHANGED remote
      /\ ObjectOf(p)'
  BY <1>1, <1>2, CallDetach
<1>4. ASSUME err' = err, effects' = [effects EXCEPT ![p] = @ \cup Changed]
      PROVE  ExceptionOf(p)' /\ EffectsOf(p)' /\ ArtifactOf(p)'
  <2>1. effects'[p] = effects[p]
    BY <1>1, <1>3, <1>4, EffectsAfter DEF Changed
  <2>2. QED
    BY <1>1, <1>2, <1>3, <1>4, <2>1, RequestFacts DEF ExceptionOf, EffectsOf, ArtifactOf
<1>5. Moves(p)
  BY DEF Moves, Operate
<1>6. QED
  BY <1>3, <1>4, <1>5, GoesOnAsBefore

\* Between the run and its end: what is stored is among the effects.
LEMMA FinalizeReply ==
  ASSUME SurfaceInv, [SurfaceNext]_svars, NEW p \in Threads, FinalizeActive(p), Reply(p, {})
  PROVE  SurfaceInv'
<1>1. /\ mpc[p] = "finalize" /\ status[p] = "active"
      /\ sess' = [sess EXCEPT ![key[p]] = Describe(p)]
      /\ Call(p, "detach", "releasing") /\ UNCHANGED <<mop, key, mout, flock, runs>>
  BY DEF FinalizeActive
<1>2. mop[p] \in {"run", "artifact"} /\ key[p] \in Keys
  BY <1>1, RequestFacts DEF PlaceOf
<1>3. /\ mpc'[p] = "releasing" /\ pc'[p] = "lock" /\ out'[p] = "none" /\ UNCHANGED remote
      /\ ObjectOf(p)'
  BY <1>1, <1>2, CallDetach
<1>4. mop[p] = "run" /\ mout[p] = "ok" => "record" \in Changed
  <2>1. SUFFICES ASSUME mop[p] = "run", mout[p] = "ok"
                 PROVE  \E k \in Keys : Account(sess'[k]) # Account(sess[k])
    BY DEF Changed
  <2>2. sess[key[p]].count < runCount[p]
    BY <1>1, <2>1, RequestFacts DEF OutcomeOf, Saved
  <2>3. sess'[key[p]].count = runCount[p]
    BY <1>1, <1>2, RequestFacts DEF Describe, Stored, ManagerTypeOK
  <2>4. sess[key[p]].count \in Nat /\ runCount[p] \in Nat
    BY <1>2, RequestFacts DEF ManagerTypeOK, SessionTypeOK, OwnObjects
  <2>5. Account(sess'[key[p]])[3] # Account(sess[key[p]])[3]
    BY <2>2, <2>3, <2>4 DEF Account
  <2>6. QED
    BY <1>2, <2>5
<1>5. ASSUME err' = err, effects' = [effects EXCEPT ![p] = @ \cup Changed]
      PROVE  ExceptionOf(p)' /\ EffectsOf(p)' /\ ArtifactOf(p)'
  <2>1. effects'[p] = effects[p] \cup Changed /\ "run" \notin Changed
    BY <1>1, <1>5, EffectsAfter DEF Changed
  <2>2. ExceptionOf(p)'
    BY <1>1, <1>2, <1>3, <1>5, RequestFacts DEF ExceptionOf
  <2>3. EffectsOf(p)'
    BY <1>1, <1>3, <1>4, <2>1, RequestFacts DEF EffectsOf
  <2>4. mop[p] = "artifact" => Changed = {}
    BY <1>1, <1>3, SameAccount DEF Holds, Creating
  <2>5. ArtifactOf(p)'
    BY <1>1, <1>5, <2>1, <2>4, RequestFacts DEF ArtifactOf
  <2>6. QED
    BY <2>2, <2>3, <2>5
<1>6. Moves(p)
  BY DEF Moves, Operate
<1>7. QED
  BY <1>3, <1>5, <1>6, GoesOnAsBefore

\* A handler that only moves on, with an outcome or none.
LEMMA HandlerReply ==
  ASSUME SurfaceInv, [SurfaceNext]_svars, NEW p \in Threads,
         ReadyToSave(p) \/ RunReturned(p) \/ CallEnded(p), Reply(p, {})
  PROVE  SurfaceInv'
<1>1. /\ mpc[p] \in {"detaching", "releasing", "calling"} /\ pc[p] = "idle"
      /\ UNCHANGED <<vars, mop, key, flock, sess, runs>>
      /\ \/ At(p, "save") /\ mout' = mout /\ (mpc[p] = "calling" => mop[p] = "terminate")
         \/ At(p, "saverun") /\ mpc[p] = "calling"
         \/ /\ At(p, "finalize") /\ mout' = [mout EXCEPT ![p] = out[p]]
            /\ mpc[p] = "calling" /\ (mop[p] = "run" => out[p] = "raised")
  BY DEF ReadyToSave, RunReturned, CallEnded, Ended
<1>2. UNCHANGED <<pc, out, closed, detached, sandboxId, remote>>
  BY <1>1 DEF vars, objectVars, backendVars
<1>3. /\ mpc'[p] \in {"save", "saverun", "finalize"}
      /\ mpc'[p] = "save" => mout'[p] = mout[p] /\ (mpc[p] = "calling" => mop[p] = "terminate")
      /\ mpc'[p] = "saverun" => mpc[p] = "calling"
      /\ mpc'[p] = "finalize" => /\ mout'[p] = out[p] /\ mpc[p] = "calling"
                                 /\ mop[p] = "run" => out[p] = "raised"
  BY <1>1, RequestFacts DEF At, ManagerTypeOK
<1>4. ObjectOf(p)'
  BY <1>1, <1>2, <1>3, RequestFacts DEF ObjectOf
<1>5. ASSUME err' = err, effects' = [effects EXCEPT ![p] = @ \cup Changed]
      PROVE  ExceptionOf(p)' /\ EffectsOf(p)' /\ ArtifactOf(p)'
  <2>1. effects'[p] = effects[p]
    BY <1>1, <1>2, <1>5, EffectsAfter DEF Changed
  <2>2. ExceptionOf(p)'
    <3>1. mpc[p] = "detaching" => mop[p] \in {"start", "attach"}
      BY RequestFacts DEF PlaceOf
    <3>2. out[p] \in {"ok", "raised"} /\ (out[p] = "raised" => err[p] # "none")
      BY <1>1, RequestFacts DEF ExceptionOf, Driving, SessionTypeOK
    <3>3. QED
      BY <1>1, <1>3, <1>5, <3>1, <3>2, RequestFacts DEF ExceptionOf, Driving
  <2>3. EffectsOf(p)'
    <3>1. mpc[p] = "detaching" => mop[p] \in {"start", "attach"}
      BY RequestFacts DEF PlaceOf
    <3>2. QED
      BY <1>1, <1>3, <2>1, <3>1, RequestFacts DEF EffectsOf
  <2>4. ArtifactOf(p)'
    BY <1>1, <1>5, <2>1, RequestFacts DEF ArtifactOf
  <2>5. QED
    BY <2>2, <2>3, <2>4
<1>6. Moves(p)
  BY DEF Moves, Operate
<1>7. QED
  BY <1>3, <1>4, <1>5, <1>6, GoesOnAsBefore

\* The run that is stored is a file that was not there: it is among the effects.
LEMMA SaveRunReply ==
  ASSUME SurfaceInv, [SurfaceNext]_svars, NEW p \in Threads, SaveRun(p), Reply(p, {})
  PROVE  SurfaceInv'
<1> DEFINE run == [id |-> lastRun[p], key |-> key[p], seq |-> runCount[p]]
<1>1. /\ mpc[p] = "saverun" /\ runs' = runs \cup {run}
      /\ mout' = [mout EXCEPT ![p] = "ok"] /\ At(p, "finalize")
      /\ UNCHANGED <<vars, mop, key, flock, sess>>
  BY DEF SaveRun
<1>2. mop[p] = "run" /\ pc[p] = "idle"
  BY <1>1, RequestFacts DEF PlaceOf
<1>3. run \notin runs
  <2>1. Numbered(p) /\ InHand(p) = lastRun[p]
    BY <1>1, <1>2 DEF Numbered, InHand, RunPhases
  <2>2. \A r \in runs : r.id # lastRun[p]
    BY <2>1, RequestFacts DEF RunIdsInv
  <2>3. QED
    BY <2>2
<1>4. "run" \in Changed
  BY <1>1, <1>3 DEF Changed
<1> HIDE DEF run
<1>5. /\ mpc'[p] = "finalize" /\ mout'[p] = "ok" /\ mop'[p] = "run"
      /\ UNCHANGED <<pc, closed, sandboxId>>
  BY <1>1, <1>2, RequestFacts DEF At, ManagerTypeOK, vars, objectVars, backendVars
<1>6. ObjectOf(p)'
  BY <1>1, <1>2, <1>5, RequestFacts DEF ObjectOf
<1>7. ASSUME err' = err, effects' = [effects EXCEPT ![p] = @ \cup Changed]
      PROVE  ExceptionOf(p)' /\ EffectsOf(p)' /\ ArtifactOf(p)'
  <2>1. "run" \in effects'[p]
    BY <1>4, <1>7, EffectsAfter
  <2>2. QED
    BY <1>2, <1>5, <1>7, <2>1, RequestFacts DEF ExceptionOf, EffectsOf, ArtifactOf, Driving
<1>8. Moves(p)
  BY DEF Moves, Operate
<1>9. QED
  BY <1>5, <1>6, <1>7, <1>8, GoesOnAsBefore

\* A run that is not stored is answered with the store's exception.
LEMMA RunNotStoredReply ==
  ASSUME SurfaceInv, [SurfaceNext]_svars, NEW p \in Threads, StoreFails(p), mpc[p] = "saverun",
         Reply(p, {"StateStoreError", "Exception"})
  PROVE  SurfaceInv'
<1>1. /\ mout' = [mout EXCEPT ![p] = "raised"] /\ At(p, "finalize")
      /\ UNCHANGED <<vars, mop, key, flock, sess, runs>>
  BY DEF StoreFails, Granted
<1>2. mop[p] = "run" /\ pc[p] = "idle"
  BY RequestFacts DEF PlaceOf
<1>3. /\ mpc'[p] = "finalize" /\ mout'[p] = "raised" /\ mop'[p] = "run"
      /\ UNCHANGED <<pc, closed, sandboxId, remote>>
  BY <1>1, <1>2, RequestFacts DEF At, ManagerTypeOK, vars, objectVars, backendVars
<1>4. ObjectOf(p)'
  BY <1>2, <1>3, RequestFacts DEF ObjectOf
<1>5. ASSUME NEW c \in {"StateStoreError", "Exception"}, err' = [err EXCEPT ![p] = c],
             effects' = [effects EXCEPT ![p] = @ \cup Changed]
      PROVE  ExceptionOf(p)' /\ EffectsOf(p)' /\ ArtifactOf(p)'
  <2>1. effects'[p] = effects[p]
    BY <1>1, <1>3, <1>5, EffectsAfter DEF Changed
  <2>2. err'[p] = c
    BY <1>5, RequestFacts DEF SurfaceTypeOK
  <2>3. QED
    BY <1>3, <2>1, <2>2, RequestFacts DEF ExceptionOf, EffectsOf, ArtifactOf, Driving, PassedOn
<1> DEFINE classes == {"StateStoreError", "Exception"}
<1>6. \A c \in PassedOn \cup {"none"} :
           /\ IF classes = {} THEN c = err[p] ELSE c \in classes
           /\ err' = [err EXCEPT ![p] = c]
           /\ effects' = [effects EXCEPT ![p] = @ \cup Changed]
           => ExceptionOf(p)' /\ EffectsOf(p)' /\ ArtifactOf(p)'
  BY <1>5
<1>7. classes \subseteq PassedOn /\ Reply(p, classes)
  BY DEF PassedOn
<1>8. Moves(p)
  BY DEF Moves
<1> HIDE DEF classes
<1>9. QED
  BY <1>3, <1>4, <1>6, <1>7, <1>8, GoesOn

-----------------------------------------------------------------------------
(* The session's methods. *)

\* What a step of a method says of how it ends: only a step that fails raises, and no
\* method ends without an outcome.
LEMMA MethodEnds ==
  ASSUME IInv, OwnObjects, NEW p \in Threads, pc[p] = "lock" => Usable(p),
         SessionFails(p) \/ SessionWorks(p)
  PROVE  /\ (closed'[p] <=> closed[p]) \/ op[p] = "close"
         /\ pc'[p] = "idle" => out'[p] # "none"
         /\ SessionWorks(p) /\ out'[p] = "raised" => out[p] = "raised"
<1>1. /\ on[p] = p /\ p \in Sessions /\ SessionTypeOK
      /\ DOMAIN pc = Threads /\ DOMAIN out = Threads /\ DOMAIN closed = Sessions
  BY DEF OwnObjects, IInv, SessionTypeOK
<1>2. ASSUME SessionFails(p)
      PROVE  ((closed'[p] <=> closed[p]) \/ op[p] = "close") /\ (pc'[p] = "idle" => out'[p] # "none")
  <2>1. Fail(p) \/ FinallyFails(p)
    BY <1>2 DEF SessionFails, HydrateFails, PrepareFails, RecordFails, CallFails, DetachFails,
                TerminateFails
  <2>2. closed' = closed
    BY <2>1 DEF Fail, FinallyFails, objectVars
  <2>3. pc'[p] = "idle" => out'[p] # "none"
    BY <1>1, <2>1 DEF Fail, FinallyFails, Leave, EndCall, Goto
  <2>4. QED
    BY <2>2, <2>3
<1>3. CASE EnterRejected(p) \/ EnterUsable(p) \/ EnterCloseLocal(p) \/ EnterClose(p)
  <2>1. ~EnterRejected(p)
    BY <1>1 DEF EnterRejected, CanEnter
  <2>2. CASE EnterUsable(p) \/ EnterClose(p)
    <3>1. UNCHANGED <<closed, out>> /\ pc'[p] # "idle"
      BY <1>1, <2>2 DEF EnterUsable, EnterClose, Acquire, Goto, objectVars
    <3>2. QED
      BY <3>1
  <2>3. CASE EnterCloseLocal(p)
    BY <1>1, <2>3 DEF EnterCloseLocal, EndCall
  <2>4. QED
    BY <1>3, <2>1, <2>2, <2>3
<1>4. CASE StartCached(p) \/ Prepare(p)
  <2>1. Started(p)
    BY <1>4 DEF StartCached, Prepare
  <2>2. closed' = closed
    BY <2>1 DEF Started, Activate, objectVars
  <2>3. \/ out'[p] = "ok"
        \/ out' = out /\ pc'[p] # "idle"
    BY <1>1, <2>1 DEF Started, Leave, EndCall, Continue, Goto
  <2>4. QED
    BY <2>2, <2>3
<1>5. CASE Hydrate(p) \/ CaptureBefore(p) \/ Exec(p) \/ CaptureAfter(p) \/ Terminate(p)
  <2>1. closed' = closed /\ out' = out /\ pc'[p] # "idle"
    BY <1>1, <1>5
    DEF Hydrate, CaptureBefore, Exec, CaptureAfter, Terminate, Continue, Goto, objectVars
  <2>2. QED
    BY <2>1
<1>6. CASE Record(p) \/ Fetch(p) \/ Detach(p)
  <2>1. closed' = closed /\ out'[p] = "ok"
    BY <1>1, <1>6 DEF Record, Fetch, Detach, Leave, EndCall, objectVars
  <2>2. QED
    BY <2>1
<1>7. CASE Finally(p)
  <2>1. op[p] = "close"
    BY <1>7 DEF Finally, IInv, ControlInv, CallPlace
  <2>2. out'[p] = IF out[p] = "raised" THEN "raised" ELSE "ok"
    BY <1>1, <1>7 DEF Finally, Leave, EndCall
  <2>3. QED
    BY <2>1, <2>2
<1>8. QED
  BY <1>2, <1>3, <1>4, <1>5, <1>6, <1>7 DEF SessionWorks, Enter

\* Only a failing call raises; what it raises is no lifecycle error, and "not found" only
\* of an artifact.
LEMMA FailuresArePassedOn ==
  ASSUME NEW p \in Threads
  PROVE  /\ CallRaisesClass(p) # {} /\ CallRaisesClass(p) \subseteq PassedOn
         /\ "ArtifactNotFoundError" \in CallRaisesClass(p) => pc[p] = "fetch"
BY DEF CallRaisesClass, StartRaises, PassedOn

\* A method of a session with a sandbox of its own leaves Modal's side alone, except close.
LEMMA MethodKeepsRemote ==
  ASSUME SurfaceInv, NEW p \in Threads, SessionFails(p) \/ SessionWorks(p),
         sandboxId[p] # NoSandbox, op[p] # "close"
  PROVE  remote' = remote
<1>1. on[p] = p /\ pc[p] \notin {"terminate", "finally"}
  BY SurfaceFacts DEF OwnObjects, IInv, ControlInv, CallPlace
<1>2. CASE Enter(p)
  BY <1>2 DEF Enter, EnterRejected, EnterUsable, EnterCloseLocal, EnterClose, Acquire, backendVars
<1>3. CASE StartCached(p) \/ Hydrate(p) \/ HydrateFails(p) \/ Prepare(p) \/ PrepareFails(p)
  BY <1>1, <1>3 DEF StartCached, Hydrate, HydrateReturns, HydrateFails, HydrateRaises, Prepare,
                    PrepareReturns, PrepareFails, PrepareRaises, backendVars
<1>4. CASE CaptureBefore(p) \/ Exec(p) \/ CaptureAfter(p) \/ Record(p) \/ RecordFails(p)
            \/ Fetch(p) \/ CallFails(p)
  BY <1>4 DEF CaptureBefore, Exec, CaptureAfter, Record, RecordFails, Fetch, CallFails,
              CallReturns, CallRaises, backendVars
<1>5. CASE Detach(p) \/ DetachFails(p)
  BY <1>5 DEF Detach, DetachFails, DropHandle
<1>6. ~Terminate(p) /\ ~TerminateFails(p) /\ ~Finally(p) /\ ~FinallyFails(p)
  BY <1>1 DEF Terminate, TerminateFails, Finally, FinallyFails
<1>7. QED
  BY <1>2, <1>3, <1>4, <1>5, <1>6 DEF SessionFails, SessionWorks

\* The request's knowledge, through the steps of the session's method.
LEMMA MethodKeeps ==
  ASSUME SurfaceInv, NEW p \in Threads, Driving(p), SessionFails(p) \/ SessionWorks(p),
         UNCHANGED managerVars, err'[p] = err[p] \/ err'[p] # "none",
         ~SessionWorks(p) => err'[p] # "none",
         err'[p] = "ArtifactNotFoundError" => err[p] = err'[p] \/ pc[p] = "fetch",
         err'[p] \in PassedOn \cup {"none"},
         effects' = [effects EXCEPT ![p] = @ \cup Changed]
  PROVE  RequestOK(p)' /\ mpc'[p] # "idle"
<1>1. /\ mpc[p] \in {"starting", "detaching", "calling", "releasing"}
      /\ UNCHANGED <<mpc, mop, key, mout, sess, runs>>
  BY DEF Driving, managerVars
<1>2. SessionStep(p) /\ pc[p] # "idle"
  BY SessionActs, InMethod
<1>3. pc'[p] # "lock"
  BY <1>2, MethodResults, RequestFacts DEF MethodResult
<1>4. /\ (closed'[p] <=> closed[p]) \/ op[p] = "close"
      /\ pc'[p] = "idle" => out'[p] # "none"
      /\ SessionWorks(p) /\ out'[p] = "raised" => out[p] = "raised"
  BY MethodEnds, RequestFacts DEF ObjectOf
<1>5. op[p] = "close" => mop[p] = "terminate"
  BY <1>1, <1>2, RequestFacts DEF PlaceOf, MethodOf
<1>6. ObjectOf(p)'
  BY <1>1, <1>3, <1>4, <1>5, RequestFacts DEF ObjectOf
<1>7. out'[p] = "raised" => err'[p] # "none"
  BY <1>4, RequestFacts DEF ExceptionOf, Driving, PassedOn
<1>8. ExceptionOf(p)'
  <2>1. mpc'[p] = "releasing" /\ mop'[p] \in {"run", "artifact"}
          => mout'[p] = "ok" \/ (mout'[p] = "raised" /\ err'[p] # "none")
    BY <1>1, RequestFacts DEF ExceptionOf, PassedOn
  <2>2. QED
    BY <1>1, <1>4, <1>7, <2>1 DEF ExceptionOf
<1>9. EffectsOf(p)'
  <2>1. effects'[p] = effects[p] \cup Changed /\ "run" \notin Changed
    BY <1>1, EffectsAfter DEF Changed
  <2>2. QED
    BY <1>1, <2>1, RequestFacts DEF EffectsOf
<1>10. ArtifactOf(p)'
  <2>1. pc[p] = "fetch" => mop[p] = "artifact"
    <3>1. pc[p] = "fetch" => op[p] = "artifact"
      BY RequestFacts DEF IInv, ControlInv, CallPlace
    <3>2. QED
      BY <1>1, <1>2, <3>1, RequestFacts DEF PlaceOf, MethodOf
  <2>2. mop[p] = "artifact" => Changed = {}
    <3>1. SUFFICES ASSUME mop[p] = "artifact" PROVE remote' = remote
      BY <1>1, NothingChanged
    <3>2. op[p] # "close"
      BY <1>5, <3>1
    <3>3. sandboxId[p] # NoSandbox
      BY <1>1, <3>1, RequestFacts DEF SnapshotOf, Holds, Creating
    <3>4. QED
      BY <3>2, <3>3, MethodKeepsRemote
  <2>3. effects'[p] = effects[p] \cup Changed
    BY EffectsAfter
  <2>4. QED
    BY <1>1, <2>1, <2>2, <2>3, RequestFacts DEF ArtifactOf
<1>11. QED
  BY <1>1, <1>6, <1>8, <1>9, <1>10 DEF RequestOK

(* The steps of the session inside an operation: a call that raises sets the exception
   that the reply passes on, one that returns leaves it alone. *)
LEMMA DriveReply ==
  ASSUME SurfaceInv, [SurfaceNext]_svars, NEW p \in Threads, Driving(p), UNCHANGED managerVars,
         \/ SessionFails(p) /\ Reply(p, CallRaisesClass(p))
         \/ SessionWorks(p) /\ Reply(p, {})
  PROVE  SurfaceInv'
<1>1. Moves(p)
  BY SessionActs DEF Moves, Operate, Drive, Driving
<1>2. SurfaceTypeOK
  BY SurfaceFacts
<1>3. CASE SessionFails(p) /\ Reply(p, CallRaisesClass(p))
  <2>1. ASSUME NEW c \in CallRaisesClass(p), err' = [err EXCEPT ![p] = c],
               effects' = [effects EXCEPT ![p] = @ \cup Changed]
        PROVE  /\ ObjectOf(p)' /\ ExceptionOf(p)' /\ EffectsOf(p)' /\ ArtifactOf(p)'
               /\ mpc'[p] # "idle"
    <3>1. /\ err'[p] = c /\ c # "none" /\ c \in PassedOn
          /\ c = "ArtifactNotFoundError" => pc[p] = "fetch"
      BY <1>2, <2>1, FailuresArePassedOn DEF SurfaceTypeOK, PassedOn
    <3>2. QED
      BY <1>3, <2>1, <3>1, MethodKeeps DEF RequestOK
  <2>2. ObjectOf(p)' /\ mpc'[p] # "idle"
    <3>1. mpc'[p] # "idle"
      BY DEF Driving, managerVars
    <3>2. /\ \E c \in CallRaisesClass(p) : err' = [err EXCEPT ![p] = c]
          /\ effects' = [effects EXCEPT ![p] = @ \cup Changed]
      BY <1>3, <3>1, FailuresArePassedOn, Unanswered
    <3>3. QED
      BY <2>1, <3>1, <3>2, FailuresArePassedOn
  <2>3. \A c \in PassedOn \cup {"none"} :
           /\ IF CallRaisesClass(p) = {} THEN c = err[p] ELSE c \in CallRaisesClass(p)
           /\ err' = [err EXCEPT ![p] = c]
           /\ effects' = [effects EXCEPT ![p] = @ \cup Changed]
           => ExceptionOf(p)' /\ EffectsOf(p)' /\ ArtifactOf(p)'
    BY <2>1, FailuresArePassedOn
  <2>4. QED
    BY <1>1, <1>3, <2>2, <2>3, FailuresArePassedOn, GoesOn
<1>4. CASE SessionWorks(p) /\ Reply(p, {})
  <2>1. mpc'[p] # "idle"
    BY DEF Driving, managerVars
  <2>2. ASSUME err' = err, effects' = [effects EXCEPT ![p] = @ \cup Changed]
        PROVE  ObjectOf(p)' /\ ExceptionOf(p)' /\ EffectsOf(p)' /\ ArtifactOf(p)'
    <3>1. err[p] \in PassedOn \cup {"none"}
      BY RequestFacts DEF ExceptionOf
    <3>2. QED
      BY <1>4, <2>2, <3>1, MethodKeeps DEF RequestOK
  <2>3. err' = err /\ effects' = [effects EXCEPT ![p] = @ \cup Changed]
    <3>1. /\ err' = [err EXCEPT ![p] = err[p]]
          /\ effects' = [effects EXCEPT ![p] = @ \cup Changed]
      BY <1>4, <2>1, Unanswered
    <3>2. QED
      BY <1>2, <3>1 DEF SurfaceTypeOK
  <2>4. QED
    BY <1>1, <1>4, <2>1, <2>2, <2>3, GoesOnAsBefore
<1>5. QED
  BY <1>3, <1>4

-----------------------------------------------------------------------------
(* The other steps, and the invariant. *)

\* A process that is killed leaves no request behind.
LEMMA CrashReply ==
  ASSUME SurfaceInv, [SurfaceNext]_svars, NEW p \in Threads, SurfaceCrash(p)
  PROVE  SurfaceInv'
<1>1. Crash(p) /\ answer' = NoAnswer /\ environment' = environment
  BY DEF SurfaceCrash
<1>2. err' = [err EXCEPT ![p] = "none"] /\ effects' = [effects EXCEPT ![p] = {}]
  BY DEF SurfaceCrash
<1>3. mpc'[p] = "idle" /\ mop'[p] = "none" /\ Discard(p)
  BY <1>1, RequestFacts DEF Crash, At, ManagerTypeOK
<1>4. RequestOK(p)'
  BY <1>2, <1>3, RequestOver
<1>5. Moves(p) /\ {} \in SUBSET Effects
  BY <1>1 DEF Moves
<1>6. QED
  BY <1>1, <1>2, <1>4, <1>5, SurfaceParts, SaysNothing

\* A request begins with a fresh object, or with that of the sandbox to attach.
LEMMA AskReply ==
  ASSUME SurfaceInv, [SurfaceNext]_svars, NEW p \in Threads, CallManager(p)
  PROVE  SurfaceInv'
<1>1. Ask(p) /\ UNCHANGED <<environment, err, effects>> /\ answer' = NoAnswer
  BY DEF CallManager, Silent
<1>2. PICK k \in Keys, o \in ManagerOps :
           /\ Request(p, o, k)
           /\ \/ UNCHANGED vars
              \/ \E b \in Sandboxes : o = "attach" /\ Build(p, b, 0, 0)
  BY <1>1 DEF Ask, RequestStart, RequestAttach, RequestStored, ManagerOps
<1>3. /\ mpc[p] = "idle" /\ mpc'[p] = "flock" /\ mop'[p] = o
  BY <1>2, RequestFacts DEF Request, At, ManagerTypeOK
<1>4. mop[p] = "none"
  BY <1>3, RequestFacts DEF PlaceOf
<1>5. ObjectOf(p)'
  <2>1. CASE UNCHANGED vars
    <3>1. UNCHANGED <<closed, detached, sandboxId>>
      BY <2>1 DEF vars, objectVars, backendVars
    <3>2. QED
      BY <1>3, <1>4, <3>1, RequestFacts DEF ObjectOf, Usable
  <2>2. ASSUME NEW b \in Sandboxes, o = "attach", Build(p, b, 0, 0) PROVE ObjectOf(p)'
    <3>1. ~closed'[p] /\ ~detached'[p]
      BY <2>2, RequestFacts DEF Build, SessionTypeOK, OwnObjects
    <3>2. QED
      BY <1>3, <2>2, <3>1 DEF ObjectOf, Usable
  <2>3. QED
    BY <1>2, <2>1, <2>2
<1>6. err[p] = "none" /\ effects[p] = {}
  BY <1>3, RequestFacts DEF ExceptionOf, EffectsOf
<1>7. RequestOK(p)'
  BY <1>1, <1>3, <1>5, <1>6 DEF RequestOK, ExceptionOf, EffectsOf, ArtifactOf, Driving
<1>8. err' = [err EXCEPT ![p] = "none"] /\ effects' = [effects EXCEPT ![p] = {}]
  BY <1>1, <1>6, RequestFacts DEF SurfaceTypeOK
<1>9. Moves(p) /\ {} \in SUBSET Effects
  BY <1>1 DEF Moves
<1>10. QED
  BY <1>1, <1>7, <1>8, <1>9, SurfaceParts, SaysNothing

\* No process does anything.
LEMMA QuietReply ==
  ASSUME SurfaceInv, [SurfaceNext]_svars,
         \/ SandboxExpires /\ Silent /\ UNCHANGED managerVars
         \/ UNCHANGED svars
  PROVE  SurfaceInv'
<1>1. /\ UNCHANGED <<environment, err, effects, mpc, mop, mout, key>>
      /\ UNCHANGED <<pc, op, out, closed, detached, sandboxId>>
  BY DEF SandboxExpires, Silent, managerVars, svars, mvars, vars, objectVars, backendVars,
         surfaceVars, callVars, Expire
<1>2. ManagerInv' /\ RunIdsInv'
  BY SurfaceFacts, SurfaceStepMaps, ManagerStep, RunIdsStep
<1>3. answer' = NoAnswer \/ answer' = answer
  BY DEF Silent, svars, surfaceVars
<1>4. AnswerInv' /\ answer' \in Answers
  <2>1. CASE answer' = NoAnswer
    BY <2>1, SaysNothing
  <2>2. CASE answer' = answer
    BY <2>2, SurfaceFacts
    DEF SurfaceTypeOK, Answers, AnswerInv, NotFoundChangedNothing, GoodMeansStored,
        BackendFailureStoredNoRun
  <2>3. QED
    BY <1>3, <2>1, <2>2
<1>5. SurfaceTypeOK'
  BY <1>1, <1>2, <1>4, SurfaceFacts DEF SurfaceTypeOK, ManagerInv, Answers
<1>6. \A q \in Threads : ObjectOf(q)' /\ ExceptionOf(q)' /\ EffectsOf(q)' /\ ArtifactOf(q)'
  BY <1>1, SurfaceFacts
  DEF RequestOK, ObjectOf, ExceptionOf, EffectsOf, ArtifactOf, Usable, Driving
<1>7. QED
  BY <1>2, <1>4, <1>5, <1>6 DEF SurfaceInv

(* Every step keeps the invariant of the surfaces. *)
LEMMA SurfaceStep == SurfaceInv /\ [SurfaceNext]_svars => SurfaceInv'
<1> SUFFICES ASSUME SurfaceInv, [SurfaceNext]_svars PROVE SurfaceInv'
  OBVIOUS
<1>1. ASSUME NEW p \in Threads, SurfaceEnter(p) PROVE SurfaceInv'
  BY <1>1, EnterNewReply, EnterStoredReply, RefusedStep DEF SurfaceEnter
<1>2. ASSUME NEW p \in Threads, SurfaceOperate(p) PROVE SurfaceInv'
  <2>1. CASE Driving(p) /\ UNCHANGED managerVars
             /\ \/ SessionFails(p) /\ Reply(p, CallRaisesClass(p))
                \/ SessionWorks(p) /\ Reply(p, {})
    BY <2>1, DriveReply
  <2>2. CASE (DetachNew(p) \/ NotStored(p) \/ Save(p)) /\ Reply(p, {})
    BY <2>2, DetachNewReply, NotStoredStep, SaveStep
  <2>3. CASE (ReadyToSave(p) \/ RunReturned(p) \/ SaveRun(p) \/ CallEnded(p)) /\ Reply(p, {})
    BY <2>3, HandlerReply, SaveRunReply
  <2>4. CASE (FinalizeInactive(p) \/ FinalizeActive(p)) /\ Reply(p, {})
    BY <2>4, InactiveStep, FinalizeReply
  <2>5. CASE ReleaseFails(p) /\ Reply(p, {"SessionError"})
    <3>1. Finish(p, "raised") /\ mpc[p] # "idle" /\ Moves(p)
      BY <2>5 DEF ReleaseFails, Moves, Operate
    <3>2. QED
      BY <2>5, <3>1, OwnFailureStep
  <2>6. QED
    BY <1>2, <2>1, <2>2, <2>3, <2>4, <2>5 DEF SurfaceOperate
<1>3. ASSUME NEW p \in Threads, SurfaceStoreFails(p) PROVE SurfaceInv'
  <2>1. StoreFails(p) /\ Reply(p, {"StateStoreError", "Exception"}) /\ Moves(p)
    BY <1>3 DEF SurfaceStoreFails, Moves
  <2>2. CASE mpc[p] = "saverun"
    BY <2>1, <2>2, RunNotStoredReply
  <2>3. CASE mpc[p] # "saverun"
    <3>1. Finish(p, "raised") /\ mpc[p] # "idle"
      BY <2>1, <2>3 DEF StoreFails, Granted
    <3>2. QED
      BY <2>1, <3>1, OwnFailureStep
  <2>4. QED
    BY <2>2, <2>3
<1>4. QED
  BY <1>1, <1>2, <1>3, AskReply, CrashReply, QuietReply DEF SurfaceNext

(* The invariant holds before any request. *)
LEMMA SurfaceInitInv == SurfaceInit => SurfaceInv
<1> SUFFICES ASSUME SurfaceInit PROVE SurfaceInv
  OBVIOUS
<1>1. ManagerInit /\ ManagerInv /\ RunIdsInv
  <2>1. ManagerInit
    BY DEF SurfaceInit
  <2>2. ~\E q \in Threads : Numbered(q)
    BY <2>1 DEF ManagerInit, Numbered
  <2>3. RunIdsInv
    BY <2>1, <2>2 DEF RunIdsInv, ManagerInit
  <2>4. QED
    BY <2>1, <2>3, ManagerInitInv
<1>2. AnswerInv /\ answer \in Answers
  BY DEF SurfaceInit, NoAnswer, Answer, Answers, AnswerInv, NotFoundChangedNothing,
         GoodMeansStored, BackendFailureStoredNoRun, OK, RUN_FAILED, NOT_FOUND, BACKEND
<1>3. SurfaceTypeOK
  BY <1>1, <1>2 DEF SurfaceInit, SurfaceTypeOK, ManagerInv, Answers
<1>4. ASSUME NEW p \in Threads PROVE ObjectOf(p) /\ ExceptionOf(p) /\ EffectsOf(p) /\ ArtifactOf(p)
  <2>1. /\ mpc[p] = "idle" /\ mop[p] = "none" /\ ~closed[p] /\ ~detached[p]
        /\ sandboxId[p] = NoSandbox /\ err[p] = "none" /\ effects[p] = {}
    BY <1>1, OwnObjectAssumption DEF SurfaceInit, ManagerInit, Init
  <2>2. QED
    BY <2>1 DEF ObjectOf, ExceptionOf, EffectsOf, ArtifactOf, Usable, Driving
<1>5. QED
  BY <1>1, <1>2, <1>3, <1>4 DEF SurfaceInv

\* Whatever fails in a request, and wherever it is killed, what it has changed and what
\* it will be answered with are known: the strengthening behind the theorems below.
THEOREM SurfaceInvariance == SurfaceSpec => []SurfaceInv
<1>1. QED
  BY SurfaceInitInv, SurfaceStep, PTL DEF SurfaceSpec

-----------------------------------------------------------------------------
(* What operators are told. *)

\* The answers have their types, the exit codes and statuses that are never given left out.
THEOREM SurfaceTypesCorrect == SurfaceSpec => []SurfaceTypeOK
<1>1. SurfaceInv => SurfaceTypeOK
  BY DEF SurfaceInv
<1>2. QED
  BY <1>1, SurfaceInvariance, PTL

\* "Not found", from the CLI or the service, means that nothing was changed.
THEOREM NotFoundIsSafe == SurfaceSpec => []NotFoundChangedNothing
<1>1. SurfaceInv => NotFoundChangedNothing
  BY DEF SurfaceInv, AnswerInv
<1>2. QED
  BY <1>1, SurfaceInvariance, PTL

\* A good answer means that the record, and the run, are in the store.
THEOREM GoodIsStored == SurfaceSpec => []GoodMeansStored
<1>1. SurfaceInv => GoodMeansStored
  BY DEF SurfaceInv, AnswerInv
<1>2. QED
  BY <1>1, SurfaceInvariance, PTL

\* A backend failure hides no stored run.
THEOREM BackendFailuresHideNoRun == SurfaceSpec => []BackendFailureStoredNoRun
<1>1. SurfaceInv => BackendFailureStoredNoRun
  BY DEF SurfaceInv, AnswerInv
<1>2. QED
  BY <1>1, SurfaceInvariance, PTL

\* The except clauses of cli.py and the handlers of server/app.py agree on every class.
LEMMA TablesAgree ==
  ASSUME NEW c \in Classes
  PROVE  <<ExitCode(c), Status(c)>> \in
           {<<NOT_FOUND, 404>>, <<CONFIG, 400>>, <<CONFIG, 422>>, <<MODAL, 503>>,
            <<BACKEND, 502>>, <<INTERNAL, 500>>, <<LIFECYCLE, 409>>}
<1>1. CASE c \in {"SessionNotFoundError", "RunNotFoundError", "ArtifactNotFoundError"}
  <2>1. ExitCode(c) = NOT_FOUND /\ Status(c) = 404
    BY <1>1, ExitCodes, StatusCodes, HandlersAre
  <2>2. QED
    BY <2>1
<1>2. CASE c \in {"ConfigurationError", "ValidationError", "ModalConfigurationError",
                  "SessionError"}
  <2>1. \/ ExitCode(c) = CONFIG /\ Status(c) \in {400, 422}
        \/ ExitCode(c) = MODAL /\ Status(c) = 503
        \/ ExitCode(c) = LIFECYCLE /\ Status(c) = 409
    BY <1>2, ExitCodes, StatusCodes, HandlersAre
  <2>2. QED
    BY <2>1
<1>3. CASE c \in {"BackendError", "SandboxStartupError"}
  <2>1. ExitCode(c) = BACKEND /\ Status(c) = 502
    BY <1>3, ExitCodes, StatusCodes, HandlersAre
  <2>2. QED
    BY <2>1
<1>4. CASE c \in {"AgentSandboxError", "ExecutionError", "ProtocolError", "ArtifactError",
                  "StateStoreError", "Exception"}
  <2>1. ExitCode(c) = INTERNAL /\ Status(c) = 500
    BY <1>4, ExitCodes, StatusCodes, HandlersAre
  <2>2. QED
    BY <2>1
<1>5. QED
  BY <1>1, <1>2, <1>3, <1>4, ClassesAre DEF Bases, Leaves

\* Whichever way an operator asks, the same exception means the same.
THEOREM SurfacesTellTheSame == SurfaceSpec => []SurfacesAgree
<1>1. SurfaceInv => SurfacesAgree
  <2> SUFFICES ASSUME SurfaceInv, NEW p \in Threads,
                      NEW c \in {err[p], answer.class} \cup DoorClasses(p), c # "none"
               PROVE  c \in Classes
    BY TablesAgree DEF SurfacesAgree
  <2>1. err[p] \in Classes \cup {"none"} /\ answer.class \in Classes \cup {"none"}
    BY SurfaceFacts DEF SurfaceTypeOK
  <2>2. DoorClasses(p) \subseteq Classes
    BY ClassesAre DEF DoorClasses, Bases, Leaves
  <2>3. QED
    BY <2>1, <2>2
<1>2. QED
  BY <1>1, SurfaceInvariance, PTL

-----------------------------------------------------------------------------
(* Sandboxes that are lost. *)

\* Only start() makes a sandbox run, and learns its id unless it raises.
LEMMA MadeSandbox ==
  ASSUME SurfaceInv, NEW p \in Threads, NEW b \in Sandboxes,
         remote[b] # "running", remote'[b] = "running", SessionWorks(p)
  PROVE  sandboxId'[p] = b
<1>1. on[p] = p /\ SessionTypeOK /\ BackendTypeOK /\ p \in Sessions
  BY SurfaceFacts, ManagerFacts DEF OwnObjects
<1>2. CASE Enter(p)
  BY <1>2 DEF Enter, EnterRejected, EnterUsable, EnterCloseLocal, EnterClose, Acquire, backendVars
<1>3. CASE Hydrate(p)
  <2>1. PICK c \in Sandboxes : /\ remote' = [remote EXCEPT ![c] = "running"]
                               /\ sandboxId' = [sandboxId EXCEPT ![p] = c]
    BY <1>1, <1>3 DEF Hydrate, HydrateReturns, Create
  <2>2. QED
    BY <1>1, <2>1 DEF BackendTypeOK
<1>4. CASE Terminate(p)
  <2>1. remote' = [remote EXCEPT ![sandboxId[p]] = IF @ = "running" THEN "terminated" ELSE @]
    BY <1>1, <1>4 DEF Terminate, TerminateReturns, Kill
  <2>2. QED
    BY <1>1, <2>1 DEF BackendTypeOK
<1>5. CASE StartCached(p) \/ Prepare(p) \/ CaptureBefore(p) \/ Exec(p) \/ CaptureAfter(p)
            \/ Record(p) \/ Fetch(p) \/ Detach(p) \/ Finally(p)
  BY <1>5 DEF StartCached, Prepare, PrepareReturns, CaptureBefore, Exec, CaptureAfter, Record,
              Fetch, Detach, Finally, CallReturns, DropHandle, backendVars
<1>6. QED
  BY <1>2, <1>3, <1>4, <1>5 DEF SessionWorks

\* A manager's own step leaves Modal's side alone.
LEMMA HandlersKeepRemote ==
  ASSUME NEW p,
         \/ Ask(p) \/ EnterFlock(p) \/ DetachNew(p) \/ NotStored(p) \/ ReadyToSave(p) \/ Save(p)
         \/ RunReturned(p) \/ SaveRun(p) \/ CallEnded(p) \/ FinalizeInactive(p)
         \/ FinalizeActive(p) \/ ReleaseFails(p) \/ StoreFails(p) \/ Crash(p)
  PROVE  remote' = remote
<1>1. CASE Ask(p)
  BY <1>1 DEF Ask, RequestStart, RequestAttach, RequestStored, Build, vars, backendVars
<1>2. CASE EnterFlock(p)
  BY <1>2 DEF EnterFlock, EnterNew, EnterRefused, EnterStored, Finish, Discard, Build, Call,
              Begin, backendVars
<1>3. CASE \/ NotStored(p) \/ Save(p) \/ FinalizeInactive(p) \/ ReleaseFails(p) \/ StoreFails(p)
           \/ Crash(p)
  BY <1>3 DEF NotStored, Save, FinalizeInactive, ReleaseFails, StoreFails, Crash, Finish,
              Discard, Build, vars, backendVars
<1>4. CASE DetachNew(p) \/ FinalizeActive(p)
  BY <1>4 DEF DetachNew, FinalizeActive, Call, Begin, backendVars
<1>5. CASE ReadyToSave(p) \/ RunReturned(p) \/ SaveRun(p) \/ CallEnded(p)
  BY <1>5 DEF ReadyToSave, RunReturned, SaveRun, CallEnded, vars, backendVars
<1>6. QED
  BY <1>1, <1>2, <1>3, <1>4, <1>5

\* A sandbox that begins to run is known to the process that started it, which is told if
\* it is not.
LEMMA NewSandbox ==
  ASSUME SurfaceInv, [SurfaceNext]_svars, NEW b \in Sandboxes,
         remote[b] # "running", remote'[b] = "running"
  PROVE  \E p \in Threads : sandboxId'[p] = b \/ LosesWithNotice(p, b)
<1>1. ~UNCHANGED svars /\ ~SandboxExpires
  BY SurfaceFacts, ManagerFacts
  DEF svars, mvars, vars, backendVars, SandboxExpires, Expire, BackendTypeOK
<1>2. PICK p \in Threads : \/ CallManager(p) \/ SurfaceEnter(p) \/ SurfaceOperate(p)
                           \/ SurfaceStoreFails(p) \/ SurfaceCrash(p)
  BY <1>1 DEF SurfaceNext
<1>3. /\ ~Ask(p) /\ ~EnterFlock(p) /\ ~DetachNew(p) /\ ~NotStored(p) /\ ~ReadyToSave(p)
      /\ ~Save(p) /\ ~RunReturned(p) /\ ~SaveRun(p) /\ ~CallEnded(p) /\ ~FinalizeInactive(p)
      /\ ~FinalizeActive(p) /\ ~ReleaseFails(p) /\ ~StoreFails(p) /\ ~Crash(p)
  BY HandlersKeepRemote
<1>4. /\ Driving(p) /\ UNCHANGED managerVars
      /\ \/ SessionFails(p) /\ Reply(p, CallRaisesClass(p))
         \/ SessionWorks(p)
  BY <1>2, <1>3
  DEF CallManager, SurfaceEnter, SurfaceOperate, SurfaceStoreFails, SurfaceCrash, EnterFlock
<1>5. CASE SessionFails(p) /\ Reply(p, CallRaisesClass(p))
  <2>1. mpc'[p] # "idle"
    BY <1>4 DEF Driving, managerVars
  <2>2. \E c \in CallRaisesClass(p) : err' = [err EXCEPT ![p] = c]
    BY <1>5, <2>1, FailuresArePassedOn, Unanswered
  <2>3. err'[p] # "none"
    BY <2>2, FailuresArePassedOn, SurfaceFacts DEF SurfaceTypeOK, PassedOn
  <2>4. HydrateFails(p)
    <3>1. on[p] = p /\ BackendTypeOK
      BY SurfaceFacts, ManagerFacts DEF OwnObjects
    <3>2. ~(\/ PrepareFails(p) \/ RecordFails(p) \/ CallFails(p) \/ DetachFails(p)
            \/ FinallyFails(p))
      BY DEF PrepareFails, PrepareRaises, RecordFails, CallFails, CallRaises, DetachFails,
             FinallyFails, DropHandle, backendVars
    <3>3. ~TerminateFails(p)
      BY <3>1 DEF TerminateFails, TerminateRaises, Kill, BackendTypeOK
    <3>4. QED
      BY <1>5, <3>2, <3>3 DEF SessionFails
  <2>5. pc[p] = "start" /\ pc'[p] # "start"
    BY <2>4, SurfaceFacts DEF HydrateFails, Fail, Leave, EndCall, Goto, SessionTypeOK
  <2>6. QED
    BY <2>3, <2>5 DEF LosesWithNotice
<1>6. QED
  BY <1>4, <1>5, MadeSandbox

\* A process lets go of its sandbox when a record names it, or when the operator is told.
LEMMA LetGo ==
  ASSUME SurfaceInv, [SurfaceNext]_svars, NEW p \in Threads, NEW b \in Sandboxes,
         sandboxId[p] = b, sandboxId'[p] # b
  PROVE  \/ \E k \in Keys : sess[k].sandbox = b \/ sess'[k].sandbox = b
         \/ LosesWithNotice(p, b)
<1>1. b # NoSandbox
  BY NoSandboxAssumption
<1>2. ~UNCHANGED svars /\ ~SandboxExpires
  BY DEF svars, mvars, vars, backendVars, SandboxExpires, Expire
<1>3. PICK q \in Threads : Moves(q)
  BY <1>2, SurfaceMoves DEF SurfaceNext, Moves
<1>4. q = p
  BY <1>3, RequestFacts, OneProcessMoves DEF Moves, SameProcess, SameObject
<1>5. ~Drive(p)
  BY <1>1, MethodResults, RequestFacts DEF Drive, MethodResult
<1>6. ~Ask(p) /\ ~EnterStored(p) /\ ~EnterRefused(p)
  <2>1. ~(mpc[p] = "idle" \/ (mpc[p] = "flock" /\ mop[p] # "attach"))
    BY <1>1, RequestFacts DEF ObjectOf
  <2>2. QED
    BY <2>1 DEF Ask, RequestStart, RequestAttach, RequestStored, Request, EnterStored,
                EnterRefused, Granted
<1>7. /\ ~EnterNew(p) /\ ~DetachNew(p) /\ ~FinalizeActive(p)
      /\ ~ReadyToSave(p) /\ ~RunReturned(p) /\ ~SaveRun(p) /\ ~CallEnded(p)
  BY DEF EnterNew, DetachNew, FinalizeActive, Call, Begin, ReadyToSave, RunReturned, SaveRun,
         CallEnded, vars, backendVars
<1>8. ASSUME NEW outcome \in {"raised", "none"}, mpc[p] # "idle", Finish(p, outcome)
      PROVE  LosesWithNotice(p, b)
  BY <1>8, RequestFacts DEF LosesWithNotice, Finish, At, ManagerTypeOK
<1>9. CASE NotStored(p) \/ ReleaseFails(p)
  BY <1>8, <1>9 DEF NotStored, ReleaseFails
<1>10. CASE StoreFails(p)
  <2>1. CASE UNCHANGED vars
    BY <2>1 DEF vars, backendVars
  <2>2. QED
    BY <1>8, <1>10, <2>1 DEF StoreFails, Granted
<1>11. CASE Crash(p)
  BY <1>11, RequestFacts DEF Crash, At, LosesWithNotice, ManagerTypeOK
<1>12. CASE Save(p)
  <2>1. mpc[p] = "save" /\ sess' = [sess EXCEPT ![key[p]] = Describe(p)] /\ key[p] \in Keys
    BY <1>12, RequestFacts DEF Save, PlaceOf
  <2>2. sess'[key[p]].sandbox = b
    BY <2>1, RequestFacts DEF Describe, Stored, ManagerTypeOK
  <2>3. QED
    BY <2>1, <2>2
<1>13. CASE FinalizeInactive(p)
  <2>1. Holds(p) /\ ~Creating(p) /\ key[p] \in Keys
    BY <1>13, RequestFacts DEF FinalizeInactive, Holds, Creating, PlaceOf
  <2>2. QED
    BY <2>1, RequestFacts DEF SnapshotOf
<1>14. QED
  BY <1>3, <1>4, <1>5, <1>6, <1>7, <1>9, <1>10, <1>11, <1>12, <1>13
  DEF Moves, EnterFlock, Operate

\* No request that succeeds leaves a sandbox running that no record names and no process
\* has in hand: it could not be terminated, and the operator who asked would not know.
THEOREM LostSandboxesAreAnnounced == SurfaceSpec => LostSandboxIsAnnounced
<1>1. ASSUME SurfaceInv, [SurfaceNext]_svars, NEW b \in Sandboxes, ~Lost(b), Lost(b)'
      PROVE  \E p \in Threads : LosesWithNotice(p, b)
  <2>1. /\ remote'[b] = "running"
        /\ \A k \in Keys : sess'[k].sandbox # b
        /\ \A p \in Threads : sandboxId'[p] # b
    BY <1>1 DEF Lost
  <2>2. CASE remote[b] # "running"
    BY <1>1, <2>1, <2>2, NewSandbox
  <2>3. ASSUME NEW k \in Keys PROVE sess[k].sandbox # b
    <3>1. SUFFICES ASSUME sess[k].sandbox = b PROVE FALSE
      OBVIOUS
    <3>2. sess[k] # NoRecord
      BY <3>1, NoSandboxAssumption DEF NoRecord, Stored
    <3>3. sess'[k].sandbox = sess[k].sandbox
      BY <1>1, <3>2, SurfaceFacts, SurfaceStepMaps, RecordForward
    <3>4. QED
      BY <2>1, <3>1, <3>3
  <2>4. CASE remote[b] = "running"
    <3>1. PICK p \in Threads : sandboxId[p] = b
      BY <1>1, <2>3, <2>4 DEF Lost
    <3>2. LosesWithNotice(p, b)
      BY <1>1, <2>1, <2>3, <3>1, LetGo
    <3>3. QED
      BY <3>2
  <2>5. QED
    BY <2>2, <2>4
<1>2. SurfaceInv /\ [SurfaceNext]_svars
        => [\A b \in Sandboxes :
              ~Lost(b) /\ Lost(b)' => \E p \in Threads : LosesWithNotice(p, b)]_svars
  BY <1>1
<1>3. QED
  BY <1>2, SurfaceInvariance, PTL DEF SurfaceSpec, LostSandboxIsAnnounced
=============================================================================
