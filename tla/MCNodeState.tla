---------------------------- MODULE MCNodeState ----------------------------
(* NodeStatus with three concurrent tasks: one that finishes, one that      *)
(* starts meanwhile, and one more that keeps the count away from zero.      *)
(* One status is read while two keys are set, the first of them twice.      *)
EXTENDS NodeStatus

CONSTANTS t1, t2, t3, r1

MCTasks == {t1, t2, t3}
MCReaders == {r1}
MCKeys == <<"version", "build", "version">>

=============================================================================
