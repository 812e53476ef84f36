----------------------------- MODULE ByteStream ------------------------------
(***************************************************************************)
(* What a relay between two peers promises: one stream of bytes in each    *)
(* direction, named by the side it comes from.  Module Relay implements it.*)
(***************************************************************************)
EXTENDS Naturals

CONSTANT Sides

VARIABLES
    taken,   \* bytes accepted from each side
    given,   \* bytes of each side the other was given
    ended,   \* the side's peer ended its stream
    closed,  \* the other side was told so
    stopped  \* "no", or "clean" or "broken" once the connection is over

vars == <<taken, given, ended, closed, stopped>>

Init ==
    /\ taken = [s \in Sides |-> 0]
    /\ given = [s \in Sides |-> 0]
    /\ ended = [s \in Sides |-> FALSE]
    /\ closed = [s \in Sides |-> FALSE]
    /\ stopped = "no"

\* One direction moves on: it gives what it took, takes nothing after its end,
\* and closes with everything given.
Carry(s) ==
    /\ taken'[s] >= taken[s]
    /\ ended[s] => ended'[s] /\ taken'[s] = taken[s]
    /\ given'[s] \in given[s]..taken'[s]
    /\ closed[s] => closed'[s]
    /\ closed'[s] => ended'[s] /\ given'[s] = taken'[s]

\* A connection that is over stays as it is; it may break at any time.
Step ==
    /\ stopped = "no"
    /\ stopped' \in {"no", "clean", "broken"}
    /\ \A s \in Sides : Carry(s)
    /\ stopped' = "clean" => \A s \in Sides : closed'[s]

Spec == Init /\ [][Step]_vars
=============================================================================
