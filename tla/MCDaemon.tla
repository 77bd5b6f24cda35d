----------------------------- MODULE MCDaemon -----------------------------
(* Daemon with one A2A request and one or two shutdowns: r1 is a graceful    *)
(* Shutdown call with a timeout, r2 a forced one.                           *)
EXTENDS Daemon

CONSTANTS r1, r2, q1

NoOne == {}
GracefulRpc == {r1}
ForcedRpc == {r2}
TwoRpcs == {r1, r2}
TheSignal == {"signal"}
OneRequest == {q1}
=============================================================================
