----------------------------- MODULE MCRunView -----------------------------
(* What a caller sees of a run: its output, its artifacts and their previews. *)
EXTENDS RunnerOutput, ArtifactAccess

(* All paths of up to four segments, one name with and without a blank after it. *)
MCNames == {"w", "x"}
MCSegments == {"", ".", "..", " ", "w", "x", "x "}
MCPaths == UNION {[1 .. k -> MCSegments] : k \in 1 .. 4}
MCFiles == UNION {[1 .. k -> {"w", "x", "x ", " "}] : k \in 1 .. 2}

\* /w  /w/x  /  //w  //..  /w/../x/  ///w, and one that is refused
MCDirectories ==
  { <<"", "w">>, <<"", "w", "x">>, <<"", "">>, <<"", "", "w">>, <<"", "", "..">>,
    <<"", "w", "..", "x", "">>, <<"", "", "", "w">>, <<"w">> }

\* The two share no variable: a behaviour is of one of them, while the other has not
\* begun; that of the output is the same in every directory.
ViewInit == Init /\ AccessInit

ViewNext ==
  \/ workingDir = Root /\ reply = Ready /\ artifacts = {} /\ Next /\ UNCHANGED accessVars
  \/ sent = 0 /\ AtRest /\ AccessNext /\ UNCHANGED vars

ViewSpec == ViewInit /\ [][ViewNext]_<<vars, accessVars>>
=============================================================================
