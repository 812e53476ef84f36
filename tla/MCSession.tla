------------------------------ MODULE MCSession ------------------------------
(***************************************************************************)
(* Instances of ProxySession for TLC.  Process g is the game a prefix is   *)
(* started for, h one of Wine's own components in that prefix, k a second  *)
(* program of the prefix (a launcher), n a native program.                 *)
(***************************************************************************)
EXTENDS ProxySession, TLC

CONSTANTS g, h, k, n, X, gameProgram, launcherProgram, nativeProgram, s1

MCPrefixOf == [p \in Pids |-> IF p = n THEN NoPrefix ELSE X]
MCProgramOf == [p \in Pids |->
    IF p = g THEN gameProgram
    ELSE IF p = k THEN launcherProgram
    ELSE IF p = n THEN nativeProgram
    ELSE NoProgram]

\* The settings name the game alone, and KWin knows Xwayland's modes.
GameWished ==
    /\ wish = [q \in Programs |-> IF q = gameProgram THEN s1 ELSE NoSize]
    /\ listed
GameSpec == Init /\ GameWished /\ [][Next]_vars

\* The game has two connections at most and every other process one.
FewConnections ==
    \A p \in Pids :
        Cardinality({c \in Conns : owner[c] = p}) <= IF p = g THEN 2 ELSE 1

Symmetry == Permutations(Conns) \cup Permutations(Batches)
=============================================================================
