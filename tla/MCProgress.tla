------------------------------ MODULE MCProgress ------------------------------
(***************************************************************************)
(* The two components of which TLC checks that something eventually        *)
(* happens beside the session and the X11 control: the relay of the proxy  *)
(* and the effect's Wayland requests.  They share no state; `turn` names   *)
(* the one that moves, the other keeps its first state.                    *)
(***************************************************************************)
EXTENDS MCRelay, WaylandScale

VARIABLE turn

\* Outputs of two scales, so that a window that moves finds another one; one
\* client of each kind, and one that is told the mode as well.
MCFirstScales == [o \in Outputs |-> IF o = "o1" THEN 100 ELSE 150]
MCClients ==
    [w \in Surfaces |->
        IF w = "a" THEN [kind : {"scale", "size", "first", "viewport", "deaf"}, method : {"auto"}]
        ELSE [kind : {"scale"}, method : {"advertised"}]]
MCOpensOn == [w \in Surfaces |-> IF w = "a" THEN Outputs ELSE {"o1"}]

ProgressInit ==
    /\ turn \in {"relay", "scale"} /\ Init /\ ScaleInit
    /\ turn = "relay" => client = [w \in Surfaces |-> CHOOSE c \in Clients[w] : TRUE]

ProgressNext ==
    \/ turn = "relay" /\ Next /\ UNCHANGED <<turn, scaleVars>>
    \/ turn = "scale" /\ ScaleNext /\ UNCHANGED <<turn, vars>>

\* The fairness of each in the behaviours it moves in: a peer goes on reading, KWin
\* asks for frames of an output that shows windows.  One formula says it of a side
\* and of an output, since a behaviour has only one of them to speak of.
Continues(s, o) ==
    \/ turn = "relay" /\ Send(s) /\ UNCHANGED <<turn, scaleVars>>
    \/ turn = "scale" /\ AskForSmallerBuffer(o) /\ UNCHANGED <<turn, vars>>

progressVars == <<turn, vars, scaleVars>>
ProgressSpec ==
    /\ ProgressInit /\ [][ProgressNext]_progressVars
    /\ WF_progressVars(Continues("client", "o1")) /\ WF_progressVars(Continues("server", "o2"))
=============================================================================
