---------------------------- MODULE DaemonProofs ----------------------------
(* Proofs about Daemon, and about Commands over it, for any sets of Shutdown *)
(* calls, commands and requests.                                             *)
EXTENDS Commands, TLAPS

-----------------------------------------------------------------------------
(* The order of Steps, and what is needed of the types *)

Labels ==
    {"draining", "cancel", "listener", "control", "a2a", "stopped", "done"}

LEMMA FollowingSteps ==
    /\ Head(Steps) = "draining"
    /\ Following("draining") = "cancel"
    /\ Following("cancel") = "listener"
    /\ Following("listener") = "control"
    /\ Following("control") = "a2a"
    /\ Following("a2a") = "stopped"
    /\ Following("stopped") = "done"
<1> DEFINE At(label) == CHOOSE i \in DOMAIN Steps : Steps[i] = label
<1>1. \A i \in 1 .. 7 : At(Steps[i]) = i
  BY DEF Steps
<1>2. \A label : Following(label) = Steps[At(label) + 1]
  BY DEF Following
<1> HIDE DEF At
<1>3. \A i \in 1 .. 6 : Following(Steps[i]) = Steps[i + 1]
  BY <1>1, <1>2
<1>4. /\ Steps[1] = "draining" /\ Steps[2] = "cancel" /\ Steps[3] = "listener"
      /\ Steps[4] = "control" /\ Steps[5] = "a2a" /\ Steps[6] = "stopped"
      /\ Steps[7] = "done"
  BY DEF Steps
<1>5. Head(Steps) = "draining"
  BY DEF Steps
<1> QED BY <1>3, <1>4, <1>5

-----------------------------------------------------------------------------
(* Types *)

LEMMA TwoServers ==
    /\ "control" \in Servers /\ "a2a" \in Servers
    /\ \A s \in Servers : s \in {"control", "a2a"}
BY DEF Servers

LEMMA TypeInit == Init => TypeOK
<1> SUFFICES ASSUME Init PROVE TypeOK
  OBVIOUS
<1>1. errChan \in 0 .. 2 /\ quit \subseteq Servers /\ stopped \subseteq quit
  BY DEF Init
<1>2. /\ serve = [s \in Servers |-> "none"] /\ rpc = [r \in Rpcs |-> "none"]
      /\ trigger = [t \in Triggers |-> "none"]
      /\ timer = [t \in Triggers |-> "none"]
      /\ request = [q \in Requests |-> "none"]
  BY DEF Init
<1>3. /\ state = "STARTING" /\ main = "setReady"
      /\ cancelled = FALSE /\ listening = TRUE
  BY DEF Init
<1>4. \A r \in Rpcs : trigger[r] = "none" /\ rpc[r] = "none"
  BY <1>2 DEF Triggers
<1> QED BY <1>1, <1>2, <1>3, <1>4 DEF TypeOK

\* What may happen to the shutdowns and to who starts them.
LEMMA Moves ==
    [Next]_vars =>
        \/ UNCHANGED <<rpc, trigger>>
        \/ \E r \in Rpcs : ReadState(r) \/ ShutdownRpc(r)
        \/ Signal
        \/ \E t \in Triggers, label \in Labels \ {"done"} : Advance(t, label)
<1> SUFFICES ASSUME [Next]_vars, ~UNCHANGED <<rpc, trigger>>
             PROVE  \/ \E r \in Rpcs : ReadState(r) \/ ShutdownRpc(r)
                    \/ Signal
                    \/ \E t \in Triggers, label \in Labels \ {"done"} :
                           Advance(t, label)
  OBVIOUS
<1>1. ~SetReady /\ ~StartServers /\ ~Exit /\ ~UNCHANGED vars
  BY DEF SetReady, StartServers, Start, Exit, ExitOK, ExitError, vars
<1>2. \A s \in Servers : ~ServeGoroutine(s)
  BY DEF ServeGoroutine, ServeBegins, ServeTooLate, ServeFails, ServeLeaves,
         ServeReturns, DropError, SendError, ServeStep
<1>3. \A q \in Requests : ~RequestBegins(q) /\ ~RequestEnds(q)
  BY DEF RequestBegins, RequestEnds
<1>4. \A t \in Triggers : ~Expire(t) /\ ~Timeout(t)
  BY DEF Expire, Timeout, BeginStop, ForceStop, TimerStep
<1>5. ASSUME NEW t \in Triggers, TriggerShutdown(t)
      PROVE  \E label \in Labels \ {"done"} : Advance(t, label)
  BY <1>5, TwoServers
     DEF TriggerShutdown, Drain, CancelCtx, CloseListener, BeginStop, EndStop,
         SetStopped, Labels
<1> QED BY <1>1, <1>2, <1>3, <1>4, <1>5 DEF Next

\* Only an accepted call and the signal start a shutdown, from nothing.
SpawnedOnce == \A r \in Rpcs : trigger[r] # "none" <=> rpc[r] = "accepted"

LEMMA SpawnedOnceStep == TypeOK /\ [Next]_vars => SpawnedOnce'
<1> SUFFICES ASSUME TypeOK, [Next]_vars PROVE SpawnedOnce'
  OBVIOUS
<1> USE DEF TypeOK, SpawnedOnce, Triggers
<1>1. CASE UNCHANGED <<rpc, trigger>>
  BY <1>1
<1>2. ASSUME NEW r \in Rpcs, ReadState(r) \/ ShutdownRpc(r) PROVE SpawnedOnce'
  BY <1>2, FollowingSteps DEF ReadState, ShutdownRpc, Reject, AcceptRpc, Spawn
<1>3. CASE Signal
  BY <1>3, DaemonAssumption, FollowingSteps DEF Signal, Spawn
<1>4. ASSUME NEW t \in Triggers, NEW label \in Labels \ {"done"},
             Advance(t, label)
      PROVE  SpawnedOnce'
  BY <1>4, FollowingSteps DEF Advance, Labels
<1> QED BY <1>1, <1>2, <1>3, <1>4, Moves

LEMMA TypeStep == TypeOK /\ [Next]_vars => TypeOK'
<1> SUFFICES ASSUME TypeOK, [Next]_vars PROVE TypeOK'
  OBVIOUS
<1>s. SpawnedOnce'
  BY SpawnedOnceStep
<1> USE <1>s DEF TypeOK, SpawnedOnce, serverVars
<1>1. CASE SetReady
  BY <1>1 DEF SetReady
<1>2. CASE StartServers
  BY <1>2, TwoServers DEF StartServers, Start
<1>3. CASE Exit
  BY <1>3 DEF Exit, ExitOK, ExitError, CutRequests
<1>4. ASSUME NEW s \in Servers, ServeGoroutine(s) PROVE TypeOK'
  BY <1>4 DEF ServeGoroutine, ServeBegins, ServeTooLate, ServeFails,
              ServeLeaves, ServeReturns, DropError, SendError, ServeStep
<1>5. ASSUME NEW r \in Rpcs, ReadState(r) \/ ShutdownRpc(r) PROVE TypeOK'
  BY <1>5, FollowingSteps
     DEF ReadState, ShutdownRpc, Reject, AcceptRpc, Spawn, Triggers
<1>6. CASE Signal
  BY <1>6, FollowingSteps DEF Signal, Spawn
<1>7. ASSUME NEW t \in Triggers, TriggerShutdown(t) PROVE TypeOK'
  <2>1. CASE Drain(t)
    BY <2>1, FollowingSteps DEF Drain, Advance
  <2>2. CASE CancelCtx(t)
    BY <2>2, FollowingSteps DEF CancelCtx, Advance
  <2>3. CASE CloseListener(t)
    BY <2>3, FollowingSteps DEF CloseListener, Advance, CutRequests
  <2>4. ASSUME NEW s \in Servers, BeginStop(s) PROVE TypeOK'
    BY <2>4 DEF BeginStop
  <2>6. ASSUME NEW s \in Servers, EndStop(t, s) PROVE TypeOK'
    BY <2>6, FollowingSteps, TwoServers DEF EndStop, Advance
  <2>5. CASE SetStopped(t)
    BY <2>5, FollowingSteps DEF SetStopped, Advance
  <2> QED BY <1>7, <2>1, <2>2, <2>3, <2>4, <2>5, <2>6 DEF TriggerShutdown
<1>8. ASSUME NEW t \in Triggers, Expire(t) \/ Timeout(t) PROVE TypeOK'
  <2>1. CASE Expire(t)
    BY <2>1 DEF Expire, TimerStep
  <2>2. ASSUME NEW s \in Servers, BeginStop(s) PROVE TypeOK'
    BY <2>2 DEF BeginStop
  <2>3. ASSUME NEW s \in Servers, ForceStop(t, s) PROVE TypeOK'
    BY <2>3, TwoServers DEF ForceStop, TimerStep, CutRequests
  <2> QED BY <1>8, <2>1, <2>2, <2>3 DEF Timeout
<1>9. ASSUME NEW q \in Requests, RequestBegins(q) \/ RequestEnds(q)
      PROVE  TypeOK'
  BY <1>9 DEF RequestBegins, RequestEnds
<1>10. CASE UNCHANGED vars
  BY <1>10 DEF vars
<1> QED BY <1>1, <1>2, <1>3, <1>4, <1>5, <1>6, <1>7, <1>8, <1>9, <1>10 DEF Next

-----------------------------------------------------------------------------
(* Nothing without a shutdown *)

\* Some shutdown has set DRAINING.
Shutting == \E t \in Triggers : trigger[t] \notin {"none", "draining"}

\* As long as none has, nothing is stopped, closed or failed.
Untouched ==
    /\ Alive /\ ~cancelled /\ listening
    /\ quit = {} /\ errChan = 0
    /\ state \in {"STARTING", "READY"}
    /\ \A s \in Servers : serve[s] \in {"none", "starting", "serving"}
    /\ \A t \in Triggers : timer[t] = "none"
    /\ \A r \in Rpcs : rpc[r] \notin {"reject", "rejected"}

CauseInv == TypeOK /\ (Shutting \/ Untouched)

LEMMA CauseInit == Init => CauseInv
<1> SUFFICES ASSUME Init PROVE CauseInv
  OBVIOUS
<1>1. Untouched
  BY DEF Init, Untouched, Alive
<1> QED BY <1>1, TypeInit DEF CauseInv

LEMMA AdvancedPast ==
    ASSUME TypeOK, NEW t \in Triggers, NEW label \in Labels \ {"done"},
           Advance(t, label)
    PROVE  Shutting'
<1>1. Following(label) \in Labels \ {"draining"}
  BY FollowingSteps DEF Labels
<1>2. trigger'[t] = Following(label)
  BY DEF Advance, TypeOK
<1> QED BY <1>1, <1>2 DEF Shutting, Labels

\* A shutdown never goes back.
LEMMA ShuttingStep ==
    TypeOK /\ Shutting /\ [Next]_vars => Shutting'
<1> SUFFICES ASSUME TypeOK, Shutting, [Next]_vars PROVE Shutting'
  OBVIOUS
<1>1. CASE UNCHANGED <<rpc, trigger>>
  BY <1>1 DEF Shutting
<1>2. ASSUME NEW r \in Rpcs, ReadState(r) \/ ShutdownRpc(r) PROVE Shutting'
  BY <1>2 DEF Shutting, TypeOK, ReadState, ShutdownRpc, Reject,
              AcceptRpc, Spawn
<1>3. CASE Signal
  BY <1>3 DEF Shutting, TypeOK, Signal, Spawn
<1> QED BY <1>1, <1>2, <1>3, Moves, AdvancedPast

LEMMA UntouchedStep ==
    TypeOK /\ Untouched /\ ~Shutting /\ [Next]_vars => Untouched' \/ Shutting'
<1> SUFFICES ASSUME TypeOK, Untouched, ~Shutting, [Next]_vars
             PROVE  Untouched' \/ Shutting'
  OBVIOUS
<1> USE DEF TypeOK, Untouched, Alive, serverVars
<1>1. CASE SetReady
  BY <1>1 DEF SetReady
<1>2. CASE StartServers
  BY <1>2 DEF StartServers, Start
<1>3. CASE Exit
  BY <1>3 DEF Exit, ExitOK, ExitError
<1>u. ASSUME UNCHANGED <<state, main, cancelled, listening, serverVars, rpc,
                         timer>>
      PROVE  Untouched'
  BY <1>u
<1>4. ASSUME NEW s \in Servers, ServeGoroutine(s) PROVE Untouched'
  <2>1. ServeBegins(s)
    BY <1>4 DEF ServeGoroutine, ServeTooLate, ServeFails, ServeLeaves,
                ServeReturns, DropError, SendError, ServeStep
  <2> QED BY <2>1 DEF ServeBegins, ServeStep
<1>5. ASSUME NEW r \in Rpcs, ReadState(r) \/ ShutdownRpc(r) PROVE Untouched'
  <2>1. CASE ReadState(r)
    BY <2>1 DEF ReadState, Rejecting
  <2>2. CASE ShutdownRpc(r)
    <3>1. AcceptRpc(r)
      BY <2>2 DEF ShutdownRpc, Reject
    <3> QED BY <3>1 DEF AcceptRpc
  <2> QED BY <1>5, <2>1, <2>2
<1>6. CASE Signal
  BY <1>6, <1>u DEF Signal
<1>7. ASSUME NEW t \in Triggers, TriggerShutdown(t) PROVE Shutting'
  <2>1. ASSUME NEW label \in Labels \ {"done"}, Advance(t, label)
        PROVE  Shutting'
    BY <2>1, AdvancedPast
  <2>2. ASSUME NEW s \in Servers, trigger[t] = s PROVE FALSE
    BY <2>2, TwoServers DEF Shutting
  <2> QED BY <1>7, <2>1, <2>2, TwoServers
          DEF TriggerShutdown, Drain, CancelCtx, CloseListener, EndStop,
              SetStopped, Labels
<1>8. ASSUME NEW t \in Triggers, Expire(t) \/ Timeout(t) PROVE FALSE
  BY <1>8, TwoServers DEF Expire, Timeout, ForceStop, TimerStep
<1>9. ASSUME NEW q \in Requests, RequestBegins(q) \/ RequestEnds(q)
      PROVE  Untouched'
  BY <1>9, <1>u DEF RequestBegins, RequestEnds
<1>10. CASE UNCHANGED vars
  BY <1>10, <1>u DEF vars
<1> QED BY <1>1, <1>2, <1>3, <1>4, <1>5, <1>6, <1>7, <1>8, <1>9, <1>10 DEF Next

LEMMA CauseStep == CauseInv /\ [Next]_vars => CauseInv'
BY TypeStep, ShuttingStep, UntouchedStep DEF CauseInv

LEMMA CauseFollows == CauseInv => OnlyShutdownEnds
BY DEF CauseInv, Shutting, Untouched, OnlyShutdownEnds

-----------------------------------------------------------------------------
(* STOPPED is quiet *)

\* How far a shutdown has come, and what it has done by then.  That a server
\* that was stopped does not accept stays true, as Serve on it returns at once.
QuietInv ==
    /\ \A t \in Triggers :
           /\ trigger[t] \in {"control", "a2a", "stopped", "done"} => ~listening
           /\ trigger[t] \in {"a2a", "stopped", "done"} => "control" \in stopped
           /\ trigger[t] \in {"stopped", "done"} => "a2a" \in stopped
    /\ \A s \in stopped : ~Accepting(s)
    /\ ~listening => \A q \in Requests : request[q] # "running"
    /\ state = "STOPPED" => \E t \in Triggers : trigger[t] = "done"

LEMMA QuietInit == Init => QuietInv
BY DEF Init, QuietInv

LEMMA QuietStep == TypeOK /\ QuietInv /\ [Next]_vars => QuietInv'
<1> SUFFICES ASSUME TypeOK, QuietInv, [Next]_vars PROVE QuietInv'
  OBVIOUS
<1> USE DEF TypeOK, QuietInv, Accepting
<1>1. ASSUME UNCHANGED <<listening, serve, stopped, trigger>>,
             state' = state \/ state' # "STOPPED",
             \A q \in Requests : request'[q] = "running" =>
                                     request[q] = "running" \/ listening
      PROVE  QuietInv'
  BY <1>1
<1>2. CASE SetReady
  BY <1>2, <1>1 DEF SetReady, serverVars
<1>3. CASE StartServers
  BY <1>3 DEF StartServers, Start
<1>4. CASE Exit
  BY <1>4, <1>1 DEF Exit, ExitOK, ExitError, CutRequests, serverVars
<1>5. ASSUME NEW s \in Servers, ServeGoroutine(s) PROVE QuietInv'
  BY <1>5 DEF ServeGoroutine, ServeBegins, ServeTooLate, ServeFails,
              ServeLeaves, ServeReturns, DropError, SendError, ServeStep
<1>6. ASSUME NEW t \in Triggers, trigger[t] = "none", Spawn(t),
             UNCHANGED <<state, listening, serve, stopped, request>>
      PROVE  QuietInv'
  BY <1>6, FollowingSteps DEF Spawn
<1>7. ASSUME NEW r \in Rpcs, ReadState(r) \/ ShutdownRpc(r) PROVE QuietInv'
  <2>1. CASE AcceptRpc(r)
    BY <2>1, <1>6 DEF AcceptRpc, TypeOK, Triggers, serverVars
  <2> QED BY <1>7, <2>1, <1>1 DEF ReadState, ShutdownRpc, Reject, serverVars
<1>8. CASE Signal
  BY <1>8, <1>6, DaemonAssumption DEF Signal, Triggers, serverVars
<1>9. ASSUME NEW t \in Triggers, TriggerShutdown(t) PROVE QuietInv'
  <2>1. CASE Drain(t)
    BY <2>1, FollowingSteps DEF Drain, Advance
  <2>2. CASE CancelCtx(t)
    BY <2>2, FollowingSteps DEF CancelCtx, Advance
  <2>3. CASE CloseListener(t)
    BY <2>3, FollowingSteps DEF CloseListener, Advance, CutRequests
  <2>4. ASSUME NEW s \in Servers, BeginStop(s) PROVE QuietInv'
    BY <2>4, <1>1 DEF BeginStop
  <2>5. ASSUME NEW s \in Servers, EndStop(t, s) PROVE QuietInv'
    BY <2>5, FollowingSteps, TwoServers DEF EndStop, Advance
  <2>6. CASE SetStopped(t)
    BY <2>6, FollowingSteps DEF SetStopped, Advance
  <2> QED BY <1>9, <2>1, <2>2, <2>3, <2>4, <2>5, <2>6 DEF TriggerShutdown
<1>10. ASSUME NEW t \in Triggers, Expire(t) \/ Timeout(t) PROVE QuietInv'
  <2>1. CASE Expire(t)
    BY <2>1, <1>1 DEF Expire, TimerStep
  <2>2. ASSUME NEW s \in Servers, BeginStop(s) PROVE QuietInv'
    BY <2>2, <1>1 DEF BeginStop
  <2>3. ASSUME NEW s \in Servers, ForceStop(t, s) PROVE QuietInv'
    BY <2>3 DEF ForceStop, TimerStep, CutRequests
  <2> QED BY <1>10, <2>1, <2>2, <2>3 DEF Timeout
<1>11. ASSUME NEW q \in Requests, RequestBegins(q) \/ RequestEnds(q)
       PROVE  QuietInv'
  BY <1>11, <1>1 DEF RequestBegins, RequestEnds, serverVars
<1>12. CASE UNCHANGED vars
  BY <1>12, <1>1 DEF vars, serverVars
<1> QED BY <1>2, <1>3, <1>4, <1>5, <1>7, <1>8, <1>9, <1>10, <1>11, <1>12
        DEF Next

LEMMA QuietFollows == TypeOK /\ QuietInv => StoppedMeansQuiet
BY TwoServers DEF TypeOK, QuietInv, StoppedMeansQuiet

-----------------------------------------------------------------------------
(* Which steps set the state, and when clients are connected *)

\* There is no control server before READY.
MainInv == main \in {"setReady", "startControl"} => serve["control"] = "none"

LEMMA MainInit == Init => MainInv
BY TwoServers DEF Init, MainInv

LEMMA MainStep == TypeOK /\ MainInv /\ [Next]_vars => MainInv'
<1> SUFFICES ASSUME TypeOK, MainInv, [Next]_vars PROVE MainInv'
  OBVIOUS
<1> USE DEF TypeOK, MainInv
<1>1. CASE UNCHANGED <<main, serve>>
  BY <1>1
<1>2. CASE SetReady
  BY <1>2 DEF SetReady, serverVars
<1>3. CASE StartServers
  BY <1>3 DEF StartServers, Start
<1>4. CASE Exit
  BY <1>4 DEF Exit, ExitOK, ExitError
<1>5. ASSUME NEW s \in Servers, ServeGoroutine(s) PROVE MainInv'
  <2>1. UNCHANGED main /\ serve[s] # "none"
    BY <1>5 DEF ServeGoroutine, ServeBegins, ServeTooLate, ServeFails,
                ServeLeaves, ServeReturns, DropError, SendError, ServeStep
  <2>2. \A x \in Servers \ {s} : serve'[x] = serve[x]
    BY <1>5 DEF ServeGoroutine, ServeBegins, ServeTooLate, ServeFails,
                ServeLeaves, ServeReturns, DropError, SendError, ServeStep
  <2> QED BY <2>1, <2>2, TwoServers
<1>6. ASSUME NEW r \in Rpcs, ReadState(r) \/ ShutdownRpc(r)
      PROVE  UNCHANGED <<main, serve>>
  BY <1>6 DEF ReadState, ShutdownRpc, Reject, AcceptRpc, serverVars
<1>7. ASSUME Signal PROVE UNCHANGED <<main, serve>>
  BY <1>7 DEF Signal, serverVars
<1>8. ASSUME NEW t \in Triggers, TriggerShutdown(t)
      PROVE  UNCHANGED <<main, serve>>
  BY <1>8 DEF TriggerShutdown, Drain, CancelCtx, CloseListener, BeginStop,
              EndStop, SetStopped, Advance
<1>9. ASSUME NEW t \in Triggers, Expire(t) \/ Timeout(t)
      PROVE  UNCHANGED <<main, serve>>
  BY <1>9 DEF Expire, Timeout, BeginStop, ForceStop, TimerStep
<1>10. ASSUME NEW q \in Requests, RequestBegins(q) \/ RequestEnds(q)
       PROVE  UNCHANGED <<main, serve>>
  BY <1>10 DEF RequestBegins, RequestEnds, serverVars
<1>11. CASE UNCHANGED vars
  BY <1>11, <1>1 DEF vars, serverVars
<1> QED BY <1>1, <1>2, <1>3, <1>4, <1>5, <1>6, <1>7, <1>8, <1>9, <1>10, <1>11
        DEF Next

LEMMA StateChanges ==
    [Next]_vars =>
        \/ UNCHANGED state
        \/ SetReady
        \/ \E t \in Triggers : Drain(t) \/ SetStopped(t)
<1> SUFFICES ASSUME [Next]_vars, ~UNCHANGED state
             PROVE  SetReady \/ \E t \in Triggers : Drain(t) \/ SetStopped(t)
  OBVIOUS
<1>1. ~StartServers /\ ~Exit /\ ~Signal /\ ~UNCHANGED vars
  BY DEF StartServers, Start, Exit, ExitOK, ExitError, Signal, vars
<1>2. \A s \in Servers : ~ServeGoroutine(s)
  BY DEF ServeGoroutine, ServeBegins, ServeTooLate, ServeFails, ServeLeaves,
         ServeReturns, DropError, SendError, ServeStep
<1>3. \A r \in Rpcs : ~ReadState(r) /\ ~ShutdownRpc(r)
  BY DEF ReadState, ShutdownRpc, Reject, AcceptRpc
<1>4. \A t \in Triggers : ~Expire(t) /\ ~Timeout(t)
  BY DEF Expire, Timeout, BeginStop, ForceStop, TimerStep
<1>5. \A q \in Requests : ~RequestBegins(q) /\ ~RequestEnds(q)
  BY DEF RequestBegins, RequestEnds
<1>6. ASSUME NEW t \in Triggers, TriggerShutdown(t)
      PROVE  Drain(t) \/ SetStopped(t)
  BY <1>6 DEF TriggerShutdown, CancelCtx, CloseListener, BeginStop, EndStop
<1> QED BY <1>1, <1>2, <1>3, <1>4, <1>5, <1>6 DEF Next

LEMMA Positions ==
    /\ Position("STARTING") = 1 /\ Position("READY") = 2
    /\ Position("DRAINING") = 3 /\ Position("STOPPED") = 4
<1>1. \A i \in 1 .. 4 : Position(Order[i]) = i
  BY DEF Position, Order
<1>2. /\ Order[1] = "STARTING" /\ Order[2] = "READY"
      /\ Order[3] = "DRAINING" /\ Order[4] = "STOPPED"
  BY DEF Order
<1> QED BY <1>1, <1>2

\* SetReady comes before the control server, and what is STOPPED is closed.
LEMMA ForwardStep ==
    TypeOK /\ QuietInv /\ MainInv /\ [Next]_vars /\ Connected
        => Position(state) <= Position(state')
<1> SUFFICES ASSUME TypeOK, QuietInv, MainInv, [Next]_vars, Connected
             PROVE  Position(state) <= Position(state')
  OBVIOUS
<1>1. state \in {"STARTING", "READY", "DRAINING", "STOPPED"}
  BY DEF TypeOK
<1>2. CASE UNCHANGED state
  BY <1>1, <1>2, Positions
<1>3. ~SetReady
  BY DEF SetReady, MainInv, Connected, Accepting
<1>4. ASSUME NEW t \in Triggers, Drain(t)
      PROVE  Position(state) <= Position(state')
  <2>1. state # "STOPPED"
    BY DEF QuietInv, Connected, Gone
  <2>2. state' = "DRAINING"
    BY <1>4 DEF Drain
  <2> QED BY <1>1, <2>1, <2>2, Positions
<1>5. ASSUME NEW t \in Triggers, SetStopped(t)
      PROVE  Position(state) <= Position(state')
  <2>1. state' = "STOPPED"
    BY <1>5 DEF SetStopped
  <2> QED BY <1>1, <2>1, Positions
<1> QED BY <1>2, <1>3, <1>4, <1>5, StateChanges

-----------------------------------------------------------------------------
(* One shutdown *)

\* The case that docs/design/server.md describes: one call of Shutdown, if any
OneShutdown == Signals = {} /\ \A r, t \in Rpcs : r = t

\* The state follows the one shutdown, which nobody could ask for before READY.
OrderInv ==
    /\ main = "setReady" => state = "STARTING" /\ \A r \in Rpcs : rpc[r] = "none"
    /\ \A t \in Triggers :
           /\ trigger[t] \in {"none", "draining"} => state \in {"STARTING", "READY"}
           /\ trigger[t] \in {"cancel", "listener", "control", "a2a", "stopped"} =>
                  state = "DRAINING"
           /\ trigger[t] = "done" => state = "STOPPED"

LEMMA OrderInit == Init => OrderInv
<1> SUFFICES ASSUME Init PROVE OrderInv
  OBVIOUS
<1>1. /\ state = "STARTING"
      /\ \A r \in Rpcs : rpc[r] = "none"
      /\ \A t \in Triggers : trigger[t] = "none"
  BY DEF Init
<1> QED BY <1>1 DEF OrderInv

LEMMA OrderStep ==
    ASSUME OneShutdown, TypeOK, MainInv, OrderInv, [Next]_vars
    PROVE  OrderInv' /\ [LC!Next]_state
<1>1. /\ \A t \in Triggers : t \in Rpcs
      /\ \A r, t \in Triggers : r = t
  BY DEF OneShutdown, Triggers
<1>2. CASE SetReady
  <2>1. \A t \in Triggers : trigger[t] = "none"
    BY <1>1, <1>2 DEF SetReady, OrderInv, TypeOK
  <2> QED BY <1>2, <2>1 DEF SetReady, OrderInv, LC!Next, LC!Serve
<1>3. ASSUME NEW t \in Triggers, Drain(t) PROVE OrderInv' /\ [LC!Next]_state
  <2>1. /\ trigger[t] = "draining" /\ trigger'[t] = "cancel" /\ state' = "DRAINING"
        /\ UNCHANGED <<main, rpc>>
    BY <1>3, FollowingSteps DEF Drain, Advance, TypeOK
  <2>2. state \in {"STARTING", "READY"} /\ main # "setReady"
    BY <1>1, <2>1 DEF OrderInv, TypeOK
  <2> QED BY <1>1, <2>1, <2>2 DEF OrderInv, LC!Next, LC!Drain
<1>4. ASSUME NEW t \in Triggers, SetStopped(t) PROVE OrderInv' /\ [LC!Next]_state
  <2>1. /\ trigger[t] = "stopped" /\ trigger'[t] = "done" /\ state' = "STOPPED"
        /\ UNCHANGED <<main, rpc>>
    BY <1>4, FollowingSteps DEF SetStopped, Advance, TypeOK
  <2>2. state = "DRAINING" /\ main # "setReady"
    BY <1>1, <2>1 DEF OrderInv, TypeOK
  <2> QED BY <1>1, <2>1, <2>2 DEF OrderInv, LC!Next, LC!Stop
<1>5. CASE UNCHANGED state /\ ~SetReady /\ \A t \in Triggers : ~Drain(t) /\ ~SetStopped(t)
  <2> SUFFICES OrderInv'
    BY <1>5
  <2>1. main' = "setReady" => main = "setReady"
    BY <1>5 DEF Next, SetReady, StartServers, Start, Exit, ExitOK, ExitError,
                ServeGoroutine, ServeBegins, ServeTooLate, ServeFails, ServeLeaves,
                ServeReturns, DropError, SendError, ServeStep, ReadState, ShutdownRpc,
                Reject, AcceptRpc, Signal, TriggerShutdown, CancelCtx, CloseListener,
                BeginStop, EndStop, Advance, Expire, Timeout, ForceStop, TimerStep,
                RequestBegins, RequestEnds, vars
  <2>2. CASE UNCHANGED <<rpc, trigger>>
    BY <1>5, <2>1, <2>2 DEF OrderInv
  <2>3. ASSUME NEW r \in Rpcs, ReadState(r) \/ ShutdownRpc(r) PROVE OrderInv'
    <3>1. main' # "setReady"
      BY <1>1, <2>1, <2>3
         DEF ReadState, ShutdownRpc, Reject, AcceptRpc, MainInv, Accepting, OrderInv
    <3>2. UNCHANGED trigger \/ (trigger'[r] = "draining" /\ trigger[r] = "none")
      BY <1>1, <2>3, FollowingSteps
         DEF ReadState, ShutdownRpc, Reject, AcceptRpc, Spawn, TypeOK
    <3>3. r \in Triggers
      BY DEF Triggers
    <3> QED BY <1>1, <1>5, <3>1, <3>2, <3>3 DEF OrderInv
  <2>4. CASE Signal
    BY <2>4 DEF Signal, OneShutdown
  <2>5. ASSUME NEW t \in Triggers, TriggerShutdown(t) PROVE OrderInv'
    <3>1. CASE UNCHANGED <<rpc, trigger>>
      BY <2>2, <3>1
    <3>2. CASE CancelCtx(t) \/ CloseListener(t) \/ \E s \in Servers : EndStop(t, s)
      <4>1. /\ trigger[t] \in {"cancel", "listener", "control", "a2a"}
            /\ trigger'[t] \in {"listener", "control", "a2a", "stopped"}
            /\ UNCHANGED <<main, rpc>>
        BY <3>2, FollowingSteps, TwoServers
           DEF CancelCtx, CloseListener, EndStop, Advance, TypeOK
      <4> QED BY <1>1, <1>5, <4>1 DEF OrderInv
    <3> QED BY <1>5, <2>5, <3>1, <3>2 DEF TriggerShutdown, BeginStop
  <2>6. ASSUME ~(\E r \in Rpcs : ReadState(r) \/ ShutdownRpc(r)), ~Signal,
               ~(\E t \in Triggers : TriggerShutdown(t))
        PROVE  UNCHANGED <<rpc, trigger>>
    BY <1>5, <2>6
       DEF Next, StartServers, Start, Exit, ExitOK, ExitError, ServeGoroutine,
           ServeBegins, ServeTooLate, ServeFails, ServeLeaves, ServeReturns, DropError,
           SendError, ServeStep, Expire, Timeout, BeginStop, ForceStop, TimerStep,
           RequestBegins, RequestEnds, vars
  <2> QED BY <2>2, <2>3, <2>4, <2>5, <2>6
<1> QED BY <1>2, <1>3, <1>4, <1>5, StateChanges

-----------------------------------------------------------------------------
(* The theorems *)

DaemonInv == CauseInv /\ QuietInv /\ MainInv

LEMMA DaemonInvariant == Spec => []DaemonInv
<1>1. Init => DaemonInv
  BY CauseInit, QuietInit, MainInit DEF DaemonInv
<1>2. DaemonInv /\ [Next]_vars => DaemonInv'
  BY CauseStep, QuietStep, MainStep DEF DaemonInv, CauseInv
<1> QED BY <1>1, <1>2, PTL DEF Spec

\* The types of the daemon (serve.go:79), for any sets of calls and requests.
THEOREM TypeCorrect == Spec => []TypeOK
<1>1. DaemonInv => TypeOK
  BY DEF DaemonInv, CauseInv
<1> QED BY <1>1, DaemonInvariant, PTL

\* The process ends, and a Shutdown call is rejected, only after a shutdown
\* has begun (serve.go:161, control.go:57), however many calls race.
THEOREM OnlyShutdownEndsCorrect == Spec => []OnlyShutdownEnds
<1>1. DaemonInv => OnlyShutdownEnds
  BY CauseFollows DEF DaemonInv
<1> QED BY <1>1, DaemonInvariant, PTL

\* A node that says STOPPED is quiet (serve.go:172), however many shutdowns
\* and timeouts run at once.
THEOREM StoppedCorrect == Spec => []StoppedMeansQuiet
<1>1. DaemonInv => StoppedMeansQuiet
  BY QuietFollows DEF DaemonInv, CauseInv
<1> QED BY <1>1, DaemonInvariant, PTL

\* Commands does to the daemon only what Daemon allows, so that the theorems
\* above hold of it too.
LEMMA CommandsStep == [CommandsNext]_allVars => [Next]_vars
BY DEF CommandsNext, DaemonNext, ShutdownCommand, Connect, ConnectFails, Arrive,
       Answer, CallFails, Command, Next, allVars

THEOREM CommandsImplementDaemon == CommandsSpec => Spec
<1>1. CommandsInit => Init
  BY DEF CommandsInit
<1> QED BY <1>1, CommandsStep, PTL DEF CommandsSpec, Spec

\* The state table of docs/design/server.md holds if there is no signal and one
\* call of Shutdown at most, with whatever timeout: the node is STARTING, READY,
\* DRAINING, STOPPED, in this order (serve.go:130, :187, :199).  A second call, or a
\* signal before READY, breaks it.
THEOREM LifecycleOfOne == ASSUME OneShutdown PROVE Spec => ImplementsLifecycle
<1>1. Init => OrderInv /\ LC!Init
  BY OrderInit DEF Init, LC!Init
<1>2. DaemonInv /\ OrderInv /\ [Next]_vars => OrderInv' /\ [LC!Next]_state
  BY OneShutdown, OrderStep DEF DaemonInv, CauseInv
<1> QED BY <1>1, <1>2, DaemonInvariant, PTL DEF Spec, ImplementsLifecycle, LC!Spec

\* No client that stays connected sees the state go back (serve.go:130, 187),
\* whatever shutdowns overlap.
THEOREM StatusForwardCorrect == CommandsSpec => StatusForward
<1>1. DaemonInv /\ [CommandsNext]_allVars
          => [Connected => Position(state) <= Position(state')]_allVars
  BY CommandsStep, ForwardStep DEF DaemonInv, CauseInv
<1> QED BY <1>1, CommandsImplementDaemon, DaemonInvariant, PTL
        DEF CommandsSpec, StatusForward
=============================================================================
