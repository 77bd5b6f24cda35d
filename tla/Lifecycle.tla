----------------------------- MODULE Lifecycle -----------------------------
(***************************************************************************)
(* What a node promises about the state it reports (NodeState in           *)
(* proto/tndrl/v1/control.proto, the state table in docs/design/server.md):*)
(* it starts, serves, drains and stops, in that order and once.  READY and *)
(* BUSY are one phase here: both are "accepting requests".                 *)
(***************************************************************************)

VARIABLE phase

Phases == {"STARTING", "READY", "DRAINING", "STOPPED"}

Init == phase = "STARTING"

\* The node has finished starting and accepts requests.
Serve == phase = "STARTING" /\ phase' = "READY"

\* A shutdown began: from READY, or before the node was ever READY.
Drain == phase \in {"STARTING", "READY"} /\ phase' = "DRAINING"

\* The servers have stopped.
Stop == phase = "DRAINING" /\ phase' = "STOPPED"

Next == Serve \/ Drain \/ Stop

Spec == Init /\ [][Next]_phase
=============================================================================
