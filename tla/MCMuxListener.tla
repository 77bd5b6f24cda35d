--------------------------- MODULE MCMuxListener ---------------------------
(* Instances of MuxListener.  Two: two connections compete for the A2A      *)
(* channel, one of them after a stream of a type that has no server, and    *)
(* the other may be lost or have its stream reset.  Single: one connection  *)
(* with one stream.                                                         *)
EXTENDS MuxListener

CONSTANTS c1, c2, control, a2a, other

BothTypes == {control, a2a}
TwoConns == {c1, c2}
TwoStreams == [c \in TwoConns |-> IF c = c1 THEN <<other, a2a>> ELSE <<a2a>>]
SomeFaults == {<<"reset", c2>>, <<"loss", c2>>}

OneConn == {c1}
SingleStream == [c \in OneConn |-> <<a2a>>]
NoFaults == {}
Resets == {<<"reset", c1>>}
=============================================================================
