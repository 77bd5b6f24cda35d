------------------------------- MODULE MCPKI -------------------------------
(* Startup with one daemon, started up to three times, and one client        *)
(* command, started up to twice, on one machine.                             *)
EXTENDS Startup

CONSTANTS s1, k1

OneServer == {s1}
OneClient == {k1}
MCStarts == [p \in {s1, k1} |-> IF p = s1 THEN 3 ELSE 2]
=============================================================================
