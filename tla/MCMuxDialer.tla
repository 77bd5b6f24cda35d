---------------------------- MODULE MCMuxDialer ----------------------------
(* MuxDialer with two or three calls of Dial, and what may go wrong         *)
(* meanwhile.                                                               *)
EXTENDS MuxDialer

CONSTANTS d1, d2, d3, a1, a2

ThreeCalls == {d1, d2, d3}
TwoCalls == {d1, d2}
OneAddr == {a1}
TwoAddrs == {a1, a2}
AllFaults == {"refuse", "die", "cancel", "close"}
Losses == {"die"}
=============================================================================
