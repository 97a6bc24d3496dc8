------------------------- MODULE MCOperatorSurface -------------------------
(* A small instance of OperatorSurface: CLI commands beside one service. *)
EXTENDS OperatorSurface

CONSTANTS cli, service

MCThreads == {cli, service}
MCSurface == [p \in MCThreads |-> IF p = cli THEN "cli" ELSE "http"]

\* Everything in place; nothing; a broken package or no credentials beside a token.
MCEnvironments ==
  { [modal |-> "imports", token |-> FALSE, profile |-> TRUE],
    [modal |-> "missing", token |-> TRUE,  profile |-> FALSE],
    [modal |-> "broken",  token |-> TRUE,  profile |-> FALSE],
    [modal |-> "imports", token |-> FALSE, profile |-> FALSE] }
=============================================================================
