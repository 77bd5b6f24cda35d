-------------------------- MODULE NodeStateProofs --------------------------
(* Proofs about NodeState for every finite set of tasks. *)
EXTENDS NodeState, FiniteSetTheorems, TLAPS

\* Any set of tasks is finite and has a natural number of elements.
LEMMA TasksCardinality ==
    ASSUME NEW S, S \subseteq Tasks
    PROVE  IsFiniteSet(S) /\ Cardinality(S) \in Nat
<1>1. IsFiniteSet(S)
  BY FiniteTasks, FS_Subset
<1> QED BY <1>1, FS_CardinalityType

\* The types that need no counting; `activeTasks \in Int` is all that holds
\* before the count is known to be exact.
Typed ==
    /\ state \in States
    /\ activeTasks \in Int
    /\ pc \in [Tasks -> {"idle", "incCas", "running", "decCas"}]
    /\ caller \in {"boot", "serving", "stopping", "done"}

LEMMA TypedInit == Init => Typed
BY DEF Init, Typed, States

LEMMA TypedStep == Typed /\ [Next]_vars => Typed'
<1> SUFFICES ASSUME Typed, [Next]_vars PROVE Typed'
  OBVIOUS
<1> USE DEF Typed, States
<1>1. CASE SetReady
  BY <1>1 DEF SetReady
<1>2. CASE SetDraining
  BY <1>2 DEF SetDraining
<1>3. CASE SetStopped
  BY <1>3 DEF SetStopped
<1>4. ASSUME NEW t \in Tasks, TaskStep(t) PROVE Typed'
  <2>1. CASE IncrementAdd(t)
    BY <2>1 DEF IncrementAdd, AddOne
  <2>2. CASE IncrementCas(t)
    BY <2>2 DEF IncrementCas, CompareAndSwap
  <2>3. CASE DecrementAdd(t)
    BY <2>3 DEF DecrementAdd
  <2>4. CASE DecrementCas(t)
    BY <2>4 DEF DecrementCas, CompareAndSwap
  <2> QED BY <1>4, <2>1, <2>2, <2>3, <2>4 DEF TaskStep
<1>5. CASE UNCHANGED vars
  BY <1>5 DEF vars
<1> QED BY <1>1, <1>2, <1>3, <1>4, <1>5 DEF Next

\* CountExact is inductive over the typed states: the Add(1) that raises the
\* count adds its task to Counted, the Add(-1) that lowers it removes its own,
\* and no other step touches either.
LEMMA CountStep == Typed /\ CountExact /\ [Next]_vars => CountExact'
<1> SUFFICES ASSUME Typed, CountExact, [Next]_vars PROVE CountExact'
  OBVIOUS
<1> USE DEF Typed
<1>f. IsFiniteSet(Counted) /\ Cardinality(Counted) \in Nat
  BY TasksCardinality DEF Counted
<1>u. ASSUME UNCHANGED activeTasks, Counted' = Counted PROVE CountExact'
  BY <1>u DEF CountExact
<1>1. CASE SetReady
  BY <1>1, <1>u DEF SetReady, Counted
<1>2. CASE SetDraining
  BY <1>2, <1>u DEF SetDraining, Counted
<1>3. CASE SetStopped
  BY <1>3, <1>u DEF SetStopped, Counted
<1>4. ASSUME NEW t \in Tasks, TaskStep(t) PROVE CountExact'
  <2>1. CASE IncrementAdd(t)
    <3>1. Counted' = Counted \cup {t} /\ t \notin Counted
      BY <2>1 DEF IncrementAdd, Counted
    <3>2. Cardinality(Counted') = Cardinality(Counted) + 1
      BY <3>1, <1>f, FS_AddElement
    <3> QED BY <2>1, <3>2 DEF IncrementAdd, AddOne, CountExact
  <2>2. CASE IncrementCas(t)
    <3>1. Counted' = Counted
      BY <2>2 DEF IncrementCas, Counted
    <3> QED BY <2>2, <3>1, <1>u DEF IncrementCas
  <2>3. CASE DecrementAdd(t)
    <3>1. Counted' = Counted \ {t} /\ t \in Counted
      BY <2>3 DEF DecrementAdd, Counted
    <3>2. Cardinality(Counted') = Cardinality(Counted) - 1
      BY <3>1, <1>f, FS_RemoveElement
    <3> QED BY <2>3, <3>2 DEF DecrementAdd, CountExact
  <2>4. CASE DecrementCas(t)
    <3>1. Counted' = Counted
      BY <2>4 DEF DecrementCas, Counted
    <3> QED BY <2>4, <3>1, <1>u DEF DecrementCas
  <2> QED BY <1>4, <2>1, <2>2, <2>3, <2>4 DEF TaskStep
<1>5. CASE UNCHANGED vars
  BY <1>5, <1>u DEF vars, Counted
<1> QED BY <1>1, <1>2, <1>3, <1>4, <1>5 DEF Next

LEMMA CountInit == Init => CountExact
<1> SUFFICES ASSUME Init PROVE CountExact
  OBVIOUS
<1>1. Counted = {}
  BY DEF Init, Counted
<1> QED BY <1>1, FS_EmptySet DEF Init, CountExact

\* An exact count is positive while some task is counted, and never negative.
LEMMA CountPositive ==
    Typed /\ CountExact =>
        activeTasks \in Nat /\ \A t \in Counted : activeTasks # 0
<1> SUFFICES ASSUME Typed, CountExact
    PROVE activeTasks \in Nat /\ \A t \in Counted : activeTasks # 0
  OBVIOUS
<1>1. IsFiniteSet(Counted) /\ Cardinality(Counted) \in Nat
  BY TasksCardinality DEF Counted
<1>2. Cardinality(Counted) = 0 <=> Counted = {}
  BY <1>1, FS_EmptySet
<1> QED BY <1>1, <1>2 DEF CountExact

\* BUSY outlives the last task only until that task's compare-and-swap.
LEMMA BusyStep ==
    Typed /\ CountExact /\ BusyMeansWork /\ [Next]_vars => BusyMeansWork'
<1> SUFFICES ASSUME Typed, CountExact, BusyMeansWork, [Next]_vars
             PROVE BusyMeansWork'
  OBVIOUS
<1> USE DEF Typed, BusyMeansWork
<1>1. CASE SetReady
  BY <1>1 DEF SetReady
<1>2. CASE SetDraining
  BY <1>2 DEF SetDraining
<1>3. CASE SetStopped
  BY <1>3 DEF SetStopped
<1>4. ASSUME NEW t \in Tasks, TaskStep(t) PROVE BusyMeansWork'
  <2>1. CASE IncrementAdd(t)
    <3>1. activeTasks' # 0
      BY <2>1, CountPositive DEF IncrementAdd, AddOne
    <3> QED BY <3>1
  <2>2. CASE IncrementCas(t)
    <3>1. activeTasks # 0
      BY <2>2, CountPositive DEF IncrementCas, Counted
    <3> QED BY <3>1, <2>2 DEF IncrementCas
  <2>3. CASE DecrementAdd(t)
    <3>1. activeTasks' = 0 => pc'[t] = "decCas"
      BY <2>3 DEF DecrementAdd, LastTask
    <3> QED BY <3>1
  <2>4. CASE DecrementCas(t)
    <3>1. state' # "BUSY"
      BY <2>4 DEF DecrementCas, CompareAndSwap
    <3> QED BY <3>1
  <2> QED BY <1>4, <2>1, <2>2, <2>3, <2>4 DEF TaskStep
<1>5. CASE UNCHANGED vars
  BY <1>5 DEF vars
<1> QED BY <1>1, <1>2, <1>3, <1>4, <1>5 DEF Next

-----------------------------------------------------------------------------

\* What every reachable state satisfies
IInv == Typed /\ CountExact /\ BusyMeansWork

THEOREM Inductive == Spec => []IInv
<1>1. Init => IInv
  BY TypedInit, CountInit DEF IInv, Init, BusyMeansWork
<1>2. IInv /\ [Next]_vars => IInv'
  BY TypedStep, CountStep, BusyStep DEF IInv
<1> QED BY <1>1, <1>2, PTL DEF Spec

\* Whatever the number of tasks, the variables keep their types; the count
\* that GetStatus reports is never negative.
THEOREM TypeCorrect == Spec => []TypeOK
<1>1. IInv => TypeOK
  BY CountPositive DEF IInv, Typed, TypeOK
<1> QED BY <1>1, Inductive, PTL

\* Whatever the number of tasks and the order of their steps, the count that
\* GetStatus reports is the number of tasks in progress.
THEOREM CountCorrect == Spec => []CountExact
<1>1. IInv => CountExact
  BY DEF IInv
<1> QED BY <1>1, Inductive, PTL

\* Whatever the number of tasks, BUSY with nothing in progress is transient.
THEOREM BusyCorrect == Spec => []BusyMeansWork
<1>1. IInv => BusyMeansWork
  BY DEF IInv
<1> QED BY <1>1, Inductive, PTL

-----------------------------------------------------------------------------

\* Where the lifecycle stores are decides the phase: only READY and BUSY,
\* which the compare-and-swaps move between, are told apart by the tasks.
CallerPhase ==
    /\ caller = "boot" => Phase = "STARTING"
    /\ caller = "serving" => Phase = "READY"
    /\ caller = "stopping" => Phase = "DRAINING"
    /\ caller = "done" => Phase = "STOPPED"

LEMMA PhaseStep ==
    Typed /\ CallerPhase /\ [Next]_vars => CallerPhase' /\ [LC!Next]_Phase
<1> SUFFICES ASSUME Typed, CallerPhase, [Next]_vars
             PROVE CallerPhase' /\ [LC!Next]_Phase
  OBVIOUS
<1> USE DEF Typed, States, CallerPhase, Phase
<1>1. CASE SetReady
  BY <1>1 DEF SetReady, LC!Next, LC!Serve
<1>2. CASE SetDraining
  BY <1>2 DEF SetDraining, LC!Next, LC!Drain
<1>3. CASE SetStopped
  BY <1>3 DEF SetStopped, LC!Next, LC!Stop
<1>4. ASSUME NEW t \in Tasks, TaskStep(t)
      PROVE CallerPhase' /\ [LC!Next]_Phase
  <2>1. caller' = caller
    BY <1>4 DEF TaskStep, IncrementAdd, IncrementCas, DecrementAdd,
                DecrementCas
  <2>2. \/ state' = state
        \/ state = "READY" /\ state' = "BUSY"
        \/ state = "BUSY" /\ state' = "READY"
    BY <1>4 DEF TaskStep, IncrementAdd, IncrementCas, DecrementAdd,
                DecrementCas, CompareAndSwap
  <2>3. UNCHANGED Phase
    BY <2>2
  <2> QED BY <2>1, <2>3
<1>5. CASE UNCHANGED vars
  BY <1>5 DEF vars
<1> QED BY <1>1, <1>2, <1>3, <1>4, <1>5 DEF Next

\* The node goes through STARTING, READY or BUSY, DRAINING and STOPPED once
\* and in this order, however many tasks start and end meanwhile.
THEOREM LifecycleRefined == Spec => ImplementsLifecycle
<1>1. Init => CallerPhase /\ LC!Init
  BY DEF Init, CallerPhase, Phase, LC!Init
<1>2. Typed /\ CallerPhase /\ [Next]_vars => CallerPhase' /\ [LC!Next]_Phase
  BY PhaseStep
<1>3. Spec => []Typed
  <2>1. IInv => Typed
    BY DEF IInv
  <2> QED BY <2>1, Inductive, PTL
<1> QED BY <1>1, <1>2, <1>3, PTL DEF Spec, ImplementsLifecycle, LC!Spec
=============================================================================
