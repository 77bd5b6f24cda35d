----------------------------- MODULE NodeState -----------------------------
(***************************************************************************)
(* pkg/control/state.go: the node state and the count of active tasks, two *)
(* atomics that no lock relates.  IncrementTasks is Add(1) and then a      *)
(* compare-and-swap READY -> BUSY; DecrementTasks is Add(-1) and then, if  *)
(* the result was zero, a compare-and-swap BUSY -> READY.  Each of the     *)
(* four is an atomic step, and the steps of different tasks interleave.    *)
(*                                                                         *)
(* The callers: run() calls SetReady before it starts the servers          *)
(* (serve.go:130), so no task exists earlier; a shutdown calls SetDraining *)
(* and later SetStopped (serve.go:187, 199).  `caller` is the position of  *)
(* these calls.  Two shutdowns at once, and a shutdown that comes before   *)
(* SetReady, belong to the composition in Daemon.                          *)
(***************************************************************************)
EXTENDS Integers, FiniteSets

CONSTANT Tasks          \* the requests that may be in progress at once

ASSUME FiniteTasks == IsFiniteSet(Tasks)

VARIABLES
    state,              \* State.state
    activeTasks,        \* State.activeTasks
    pc,                 \* where each task is in IncrementTasks/DecrementTasks
    caller              \* which of the lifecycle stores come next

vars == <<state, activeTasks, pc, caller>>

States == {"STARTING", "READY", "BUSY", "DRAINING", "STOPPED"}

-----------------------------------------------------------------------------
(* A bug in one operation, used to confirm that the properties see it. *)
BugOldValue == activeTasks = 2
BugNoAdd(t) == activeTasks' = activeTasks
BugAddOnlyIdle(t) == activeTasks' = IF activeTasks = 0 THEN 1 ELSE activeTasks
BugStore(old, new) == state' = new
-----------------------------------------------------------------------------

\* NewState
Init ==
    /\ state = "STARTING"
    /\ activeTasks = 0
    /\ pc = [t \in Tasks |-> "idle"]
    /\ caller = "boot"

\* atomic.Int32.CompareAndSwap on the state
CompareAndSwap(old, new) == state' = IF state = old THEN new ELSE state

SetReady ==
    /\ caller = "boot"
    /\ state' = "READY"
    /\ caller' = "serving"
    /\ UNCHANGED <<activeTasks, pc>>

SetDraining ==
    /\ caller = "serving"
    /\ state' = "DRAINING"
    /\ caller' = "stopping"
    /\ UNCHANGED <<activeTasks, pc>>

SetStopped ==
    /\ caller = "stopping"
    /\ state' = "STOPPED"
    /\ caller' = "done"
    /\ UNCHANGED <<activeTasks, pc>>

\* activeTasks.Add(1)
AddOne(t) == activeTasks' = activeTasks + 1

\* IncrementTasks, first step
IncrementAdd(t) ==
    /\ caller # "boot"
    /\ pc[t] = "idle"
    /\ AddOne(t)
    /\ pc' = [pc EXCEPT ![t] = "incCas"]
    /\ UNCHANGED <<state, caller>>

\* IncrementTasks, second step
IncrementCas(t) ==
    /\ pc[t] = "incCas"
    /\ CompareAndSwap("READY", "BUSY")
    /\ pc' = [pc EXCEPT ![t] = "running"]
    /\ UNCHANGED <<activeTasks, caller>>

\* The condition of DecrementTasks: Add(-1) returned zero
LastTask == activeTasks = 1

\* DecrementTasks, first step
DecrementAdd(t) ==
    /\ pc[t] = "running"
    /\ activeTasks' = activeTasks - 1
    /\ pc' = [pc EXCEPT ![t] = IF LastTask THEN "decCas" ELSE "idle"]
    /\ UNCHANGED <<state, caller>>

\* DecrementTasks, second step
DecrementCas(t) ==
    /\ pc[t] = "decCas"
    /\ CompareAndSwap("BUSY", "READY")
    /\ pc' = [pc EXCEPT ![t] = "idle"]
    /\ UNCHANGED <<activeTasks, caller>>

TaskStep(t) ==
    \/ IncrementAdd(t)
    \/ IncrementCas(t)
    \/ DecrementAdd(t)
    \/ DecrementCas(t)

Next ==
    \/ SetReady
    \/ SetDraining
    \/ SetStopped
    \/ \E t \in Tasks : TaskStep(t)

Spec == Init /\ [][Next]_vars

-----------------------------------------------------------------------------
(* Properties *)

\* The variables have their types; in particular the count is never negative.
TypeOK ==
    /\ state \in States
    /\ activeTasks \in Nat
    /\ pc \in [Tasks -> {"idle", "incCas", "running", "decCas"}]
    /\ caller \in {"boot", "serving", "stopping", "done"}

\* The tasks between their Add(1) and their Add(-1)
Counted == {t \in Tasks : pc[t] \in {"incCas", "running"}}

\* The count GetStatus reports is the number of tasks in progress, whatever
\* the order in which concurrent IncrementTasks and DecrementTasks step.
CountExact == activeTasks = Cardinality(Counted)

\* BUSY with nothing in progress is transient: some task has decremented to
\* zero and has yet to set READY (state.go:64-65), so BUSY never sticks.
BusyMeansWork ==
    state = "BUSY" /\ activeTasks = 0 => \E t \in Tasks : pc[t] = "decCas"

\* State changes by task accounting never undo a store of the lifecycle: the
\* node goes STARTING, READY/BUSY, DRAINING, STOPPED, and a late task cannot
\* bring a draining or stopped node back.
Phase == IF state = "BUSY" THEN "READY" ELSE state
LC == INSTANCE Lifecycle WITH phase <- Phase
ImplementsLifecycle == LC!Spec
=============================================================================
