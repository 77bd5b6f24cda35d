----------------------------- MODULE MCCommands -----------------------------
(* Commands with a signal, a forced "tndrl shutdown" and one A2A request.    *)
EXTENDS Commands

CONSTANTS r1, q1

NoOne == {}
ForcedRpc == {r1}
TheSignal == {"signal"}
OneRequest == {q1}
=============================================================================
