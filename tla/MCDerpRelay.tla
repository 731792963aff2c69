---------------------------- MODULE MCDerpRelay -----------------------------
(***************************************************************************)
(* DerpRelay for TLC: two clients a and b.                                 *)
(***************************************************************************)
EXTENDS DerpRelay

CONSTANTS a, b

Of2(x, y) == [k \in {a, b} |-> IF k = a THEN x ELSE y]

\* One direction with reconnections of both sides; both directions at once, until all
\* that can be full is full; a sender that reconnects and leaves; and a client that
\* gives up one reconnection and goes on to the next.
MCScenario ==
    {[sends |-> Of2(2, 0), conns |-> Of2(2, 2), leavers |-> {b}],
     [sends |-> Of2(3, 2), conns |-> Of2(1, 1), leavers |-> {}],
     [sends |-> Of2(3, 0), conns |-> Of2(2, 1), leavers |-> {a}],
     [sends |-> Of2(2, 0), conns |-> Of2(1, 3), leavers |-> {b}]}

\* The last of these without packets.
MCGivenUp == {[sends |-> Of2(0, 0), conns |-> Of2(1, 3), leavers |-> {}]}
=============================================================================
