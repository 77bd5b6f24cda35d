------------------------------- MODULE Daemon -------------------------------
(***************************************************************************)
(* cmd/tndrl/serve.go and the Shutdown handler of pkg/control/control.go:  *)
(* how the daemon starts its two gRPC servers and how it goes down.        *)
(*                                                                         *)
(* The goroutines are main (run), one per server calling Serve, one per    *)
(* shutdown (an accepted Shutdown RPC, or the signal), and one per         *)
(* graceful timeout.  The process ends when main returns: whatever the     *)
(* others still had to do is not done.                                     *)
(*                                                                         *)
(* gRPC is external and modelled by what serve.go relies on.  Serve        *)
(* returns when Accept fails, with an error unless the server is being     *)
(* stopped, and at once when it already was.  Stop and GracefulStop wait   *)
(* until no Serve loop is in Accept; GracefulStop also waits for the       *)
(* handlers.  Accept fails when the listener is closed, which also ends    *)
(* every connection (MuxListener), and with it the request of a client.    *)
(***************************************************************************)
EXTENDS Naturals, Sequences

CONSTANTS
    Rpcs,           \* the Shutdown calls clients make
    Graceful,       \* those of them with graceful = true
    Timed,          \* those of them with timeout_seconds > 0
    Signals,        \* {"signal"} if SIGINT or SIGTERM may arrive, else {}
    Requests        \* the A2A requests clients make

ASSUME DaemonAssumption ==
    /\ Graceful \subseteq Rpcs
    /\ Timed \subseteq Rpcs
    /\ Signals \subseteq {"signal"}
    /\ Rpcs \cap Signals = {}

Servers == {"control", "a2a"}
Triggers == Rpcs \cup Signals

VARIABLES
    state,          \* control.State.state
    main,           \* run()
    cancelled,      \* server.ctx is done
    listening,      \* the MuxListener is not closed
    serve,          \* the goroutine that calls Serve, for each server
    quit,           \* the servers that Stop or GracefulStop was called on
    stopped,        \* ... and has returned
    errChan,        \* how many errors are in errChan
    rpc,            \* each Shutdown handler, and then its answer
    trigger,        \* each triggerShutdown
    timer,          \* the goroutine of its graceful timeout
    request         \* each A2A request

serverVars == <<serve, quit, stopped, errChan>>
vars == <<state, main, cancelled, listening, serverVars, rpc, trigger, timer,
          request>>

\* A signal shuts down gracefully, with 30 seconds.
IsGraceful(t) == t \in Graceful \cup {"signal"}
HasTimer(t) == t \in (Graceful \cap Timed) \cup {"signal"}

Alive == main \notin {"exitOK", "exitError"}

Accepting(s) == serve[s] = "serving"

\* The connections end: no client gets the answer of a running request.
CutRequests ==
    request' = [q \in Requests |-> IF request[q] = "running" THEN "cut"
                                                            ELSE request[q]]

-----------------------------------------------------------------------------
(* A bug in one operation, used to confirm that the properties see it. *)
BugStopFirst ==
    <<"draining", "cancel", "control", "a2a", "listener", "stopped", "done">>
BugStoppedFirst ==
    <<"draining", "stopped", "cancel", "listener", "control", "a2a", "done">>
BugRejectReady(st) == st # "STARTING"
BugNoSpawn(t) == UNCHANGED trigger
BugServeTwice(s, label, next) ==
    /\ main = label
    /\ serve' = [serve EXCEPT !["a2a"] = "starting"]
    /\ main' = next
    /\ UNCHANGED <<state, cancelled, listening, quit, stopped, errChan, rpc,
                   trigger, timer, request>>
-----------------------------------------------------------------------------

\* newServer, and Run up to srv.run()
Init ==
    /\ state = "STARTING"
    /\ main = "setReady"
    /\ cancelled = FALSE
    /\ listening = TRUE
    /\ serve = [s \in Servers |-> "none"]
    /\ quit = {}
    /\ stopped = {}
    /\ errChan = 0
    /\ rpc = [r \in Rpcs |-> "none"]
    /\ trigger = [t \in Triggers |-> "none"]
    /\ timer = [t \in Triggers |-> "none"]
    /\ request = [q \in Requests |-> "none"]

-----------------------------------------------------------------------------
(* run() *)

SetReady ==
    /\ main = "setReady"
    /\ state' = "READY"
    /\ main' = "startControl"
    /\ UNCHANGED <<cancelled, listening, serverVars, rpc, trigger, timer, request>>

\* go func() { ... Serve(...) ... }()
Start(s, label, next) ==
    /\ main = label
    /\ serve' = [serve EXCEPT ![s] = "starting"]
    /\ main' = next
    /\ UNCHANGED <<state, cancelled, listening, quit, stopped, errChan, rpc,
                   trigger, timer, request>>

StartServers ==
    \/ Start("control", "startControl", "startA2A")
    \/ Start("a2a", "startA2A", "select")

\* select: case <-s.ctx.Done(): Run returns nil.
ExitOK ==
    /\ main = "select"
    /\ cancelled
    /\ main' = "exitOK"
    /\ CutRequests
    /\ UNCHANGED <<state, cancelled, listening, serverVars, rpc, trigger, timer>>

\* select: case err := <-errChan: Run returns an error.
ExitError ==
    /\ main = "select"
    /\ errChan > 0
    /\ main' = "exitError"
    /\ errChan' = errChan - 1
    /\ CutRequests
    /\ UNCHANGED <<state, cancelled, listening, serve, quit, stopped, rpc,
                   trigger, timer>>

-----------------------------------------------------------------------------
(* The goroutine of a server *)

ServeStep(s, from, to) ==
    /\ Alive
    /\ serve[s] = from
    /\ serve' = [serve EXCEPT ![s] = to]
    /\ UNCHANGED <<state, main, cancelled, listening, quit, stopped, rpc,
                   trigger, timer, request>>

\* Serve begins to accept.
ServeBegins(s) ==
    /\ s \notin quit
    /\ ServeStep(s, "starting", "serving")
    /\ UNCHANGED errChan

\* Serve on a stopped server returns ErrServerStopped.
ServeTooLate(s) ==
    /\ s \in quit
    /\ ServeStep(s, "starting", "failed")
    /\ UNCHANGED errChan

\* Accept fails, and nobody is stopping the server: Serve returns the error.
ServeFails(s) ==
    /\ ~listening
    /\ s \notin quit
    /\ ServeStep(s, "serving", "failed")
    /\ UNCHANGED errChan

\* Accept fails while the server is being stopped: Serve waits for Stop or
\* GracefulStop to be over and returns nil.
ServeLeaves(s) ==
    /\ ~listening
    /\ s \in quit
    /\ ServeStep(s, "serving", "leaving")
    /\ UNCHANGED errChan

ServeReturns(s) ==
    /\ s \in stopped
    /\ ServeStep(s, "leaving", "done")
    /\ UNCHANGED errChan

\* select: case <-s.ctx.Done()
DropError(s) ==
    /\ cancelled
    /\ ServeStep(s, "failed", "done")
    /\ UNCHANGED errChan

\* select: case errChan <- ...; its capacity is one error per server.
SendError(s) ==
    /\ errChan < 2
    /\ ServeStep(s, "failed", "done")
    /\ errChan' = errChan + 1

-----------------------------------------------------------------------------
(* Server.Shutdown, a handler of the control server *)

\* The handler reads the state and decides to reject; logging comes between
\* this and what it does then.
Rejecting(st) == st \in {"DRAINING", "STOPPED"}

ReadState(r) ==
    /\ Alive
    /\ rpc[r] = "none"
    /\ Accepting("control") /\ listening
    /\ rpc' = [rpc EXCEPT ![r] = IF Rejecting(state) THEN "reject" ELSE "accept"]
    /\ UNCHANGED <<state, main, cancelled, listening, serverVars, trigger,
                   timer, request>>

Reject(r) ==
    /\ Alive
    /\ rpc[r] = "reject"
    /\ rpc' = [rpc EXCEPT ![r] = "rejected"]
    /\ UNCHANGED <<state, main, cancelled, listening, serverVars, trigger,
                   timer, request>>

\* Where triggerShutdown goes, step by step; stopServers is the middle part.
Steps == <<"draining", "cancel", "listener", "control", "a2a", "stopped", "done">>
Following(label) ==
    Steps[(CHOOSE i \in DOMAIN Steps : Steps[i] = label) + 1]

\* go s.shutdown(...)
Spawn(t) == trigger' = [trigger EXCEPT ![t] = Head(Steps)]

AcceptRpc(r) ==
    /\ Alive
    /\ rpc[r] = "accept"
    /\ rpc' = [rpc EXCEPT ![r] = "accepted"]
    /\ Spawn(r)
    /\ UNCHANGED <<state, main, cancelled, listening, serverVars, timer, request>>

\* The goroutine in Run receives the signal, at any time, also before run().
Signal ==
    /\ Alive
    /\ "signal" \in Signals
    /\ trigger["signal"] = "none"
    /\ Spawn("signal")
    /\ UNCHANGED <<state, main, cancelled, listening, serverVars, rpc, timer,
                   request>>

-----------------------------------------------------------------------------
(* triggerShutdown and stopServers, for an RPC or for the signal *)

Advance(t, label) ==
    /\ Alive
    /\ trigger[t] = label
    /\ trigger' = [trigger EXCEPT ![t] = Following(label)]
    /\ UNCHANGED <<main, serve, errChan, rpc>>

\* SetDraining, and the goroutine of the timeout if there is one
Drain(t) ==
    /\ Advance(t, "draining")
    /\ state' = "DRAINING"
    /\ timer' = [timer EXCEPT ![t] = IF HasTimer(t) THEN "armed" ELSE "none"]
    /\ UNCHANGED <<cancelled, listening, quit, stopped, request>>

CancelCtx(t) ==
    /\ Advance(t, "cancel")
    /\ cancelled' = TRUE
    /\ UNCHANGED <<state, listening, quit, stopped, timer, request>>

\* listener.Close(): every connection ends, and with it the requests on it.
\* Closing it again does nothing.
CloseListener(t) ==
    /\ Advance(t, "listener")
    /\ listening' = FALSE
    /\ CutRequests
    /\ UNCHANGED <<state, cancelled, quit, stopped, timer>>

\* The handlers that run.  One whose client is gone runs until it notices.
Handlers(s) ==
    IF s = "a2a" THEN {q \in Requests : request[q] \in {"running", "cut"}}
                 ELSE {r \in Rpcs : rpc[r] \in {"reject", "accept"}}

\* A call of Stop or GracefulStop begins: from now on Serve knows.
BeginStop(s) ==
    /\ Alive
    /\ s \notin quit
    /\ quit' = quit \cup {s}
    /\ UNCHANGED <<state, main, cancelled, listening, serve, stopped, errChan,
                   rpc, trigger, timer, request>>

\* It returns when the server's Serve is not in Accept, GracefulStop only when
\* there is no handler either.
EndStop(t, s) ==
    /\ s \in quit
    /\ ~Accepting(s)
    /\ IsGraceful(t) => Handlers(s) = {}
    /\ Advance(t, s)
    /\ stopped' = stopped \cup {s}
    /\ UNCHANGED <<state, cancelled, listening, quit, timer, request>>

SetStopped(t) ==
    /\ Advance(t, "stopped")
    /\ state' = "STOPPED"
    /\ UNCHANGED <<cancelled, listening, quit, stopped, timer, request>>

\* The timeout of a graceful shutdown: the goroutine wakes up ...
TimerStep(t, from, to) ==
    /\ Alive
    /\ timer[t] = from
    /\ timer' = [timer EXCEPT ![t] = to]
    /\ UNCHANGED <<state, main, cancelled, listening, serve, quit, errChan, rpc,
                   trigger>>

Expire(t) ==
    /\ TimerStep(t, "armed", "control")
    /\ UNCHANGED <<stopped, request>>

\* ... and calls Stop on both servers, which waits for Serve, then ends the
\* connections.
ForceStop(t, s) ==
    /\ s \in quit
    /\ ~Accepting(s)
    /\ TimerStep(t, s, IF s = "control" THEN "a2a" ELSE "expired")
    /\ stopped' = stopped \cup {s}
    /\ IF s = "a2a" THEN CutRequests ELSE UNCHANGED request

-----------------------------------------------------------------------------
(* A2A requests *)

RequestBegins(q) ==
    /\ Alive
    /\ request[q] = "none"
    /\ Accepting("a2a") /\ listening /\ "a2a" \notin quit
    /\ request' = [request EXCEPT ![q] = "running"]
    /\ UNCHANGED <<state, main, cancelled, listening, serverVars, rpc, trigger,
                   timer>>

\* The answer reaches the client, or the handler of a request that lost its
\* client returns.
RequestEnds(q) ==
    /\ Alive
    /\ request[q] \in {"running", "cut"}
    /\ request' = [request EXCEPT ![q] = IF @ = "cut" THEN "lost" ELSE "completed"]
    /\ UNCHANGED <<state, main, cancelled, listening, serverVars, rpc, trigger,
                   timer>>

-----------------------------------------------------------------------------

Exit == ExitOK \/ ExitError

ServeGoroutine(s) ==
    \/ ServeBegins(s) \/ ServeTooLate(s)
    \/ ServeFails(s) \/ ServeLeaves(s) \/ ServeReturns(s)
    \/ DropError(s) \/ SendError(s)

ShutdownRpc(r) == Reject(r) \/ AcceptRpc(r)

TriggerShutdown(t) ==
    \/ Drain(t) \/ CancelCtx(t) \/ CloseListener(t)
    \/ \E s \in Servers : \/ trigger[t] = s /\ BeginStop(s)
                          \/ EndStop(t, s)
    \/ SetStopped(t)

Timeout(t) ==
    \E s \in Servers : \/ timer[t] = s /\ BeginStop(s)
                       \/ ForceStop(t, s)

Next ==
    \/ SetReady \/ StartServers \/ Exit
    \/ \E s \in Servers : ServeGoroutine(s)
    \/ \E r \in Rpcs : ReadState(r) \/ ShutdownRpc(r)
    \/ Signal
    \/ \E t \in Triggers : TriggerShutdown(t) \/ Expire(t) \/ Timeout(t)
    \/ \E q \in Requests : RequestBegins(q) \/ RequestEnds(q)

Spec == Init /\ [][Next]_vars

\* Every goroutine that can go on does, except that main may be slow to see
\* the cancelled context.  A handler notices that its client is gone.
Fairness ==
    /\ WF_vars(SetReady \/ StartServers)
    /\ \A s \in Servers : WF_vars(ServeGoroutine(s))
    /\ \A r \in Rpcs : WF_vars(ShutdownRpc(r))
    /\ \A t \in Triggers : WF_vars(TriggerShutdown(t)) /\ WF_vars(Timeout(t))
    /\ \A q \in Requests : WF_vars(RequestEnds(q))

FairSpec == Spec /\ Fairness

-----------------------------------------------------------------------------
(* Properties *)

\* The variables have their types, and a call of Shutdown has a shutdown running
\* for it, or finished, exactly when it was accepted: no rejected call starts one
\* and no accepted one is forgotten.
TypeOK ==
    /\ state \in {"STARTING", "READY", "DRAINING", "STOPPED"}
    /\ main \in {"setReady", "startControl", "startA2A", "select", "exitOK",
                 "exitError"}
    /\ cancelled \in BOOLEAN /\ listening \in BOOLEAN
    /\ serve \in [Servers -> {"none", "starting", "serving", "failed",
                              "leaving", "done"}]
    /\ quit \subseteq Servers /\ stopped \subseteq quit
    /\ errChan \in 0 .. 2
    /\ rpc \in [Rpcs -> {"none", "reject", "accept", "rejected", "accepted"}]
    /\ trigger \in [Triggers -> {"none", "draining", "cancel", "listener",
                                 "control", "a2a", "stopped", "done"}]
    /\ timer \in [Triggers -> {"none", "armed", "control", "a2a", "expired"}]
    /\ request \in [Requests -> {"none", "running", "completed", "cut", "lost"}]
    /\ \A r \in Rpcs : trigger[r] # "none" <=> rpc[r] = "accepted"

\* The state that GetStatus reports goes STARTING, READY, DRAINING, STOPPED
\* (docs/design/server.md, Lifecycle).
LC == INSTANCE Lifecycle WITH phase <- state
ImplementsLifecycle == LC!Spec

\* Once a shutdown has cancelled the context, either the process ends or every
\* shutdown finishes and both Serve goroutines return: closing the listener
\* before GracefulStop is what makes this so (TestWrongCleanupOrderHangs).
Begun(t) == trigger[t] # "none"
StopCompletes ==
    cancelled ~>
        \/ ~Alive
        \/ /\ \A s \in Servers : serve[s] = "done"
           /\ \A t \in Triggers : Begun(t) => trigger[t] = "done"

\* A Shutdown call is rejected, and the process ends, with whatever exit code,
\* only after some shutdown has set DRAINING: main never takes an error of a
\* server that was not being stopped, nor does a call reject itself.
OnlyShutdownEnds ==
    (~Alive \/ \E r \in Rpcs : rpc[r] = "rejected") =>
        \E t \in Triggers : trigger[t] \notin {"none", "draining"}

\* "Shutdown complete" (docs/design/server.md, state table): a node that says
\* STOPPED has no server accepting and no request still being answered.
StoppedMeansQuiet ==
    state = "STOPPED" =>
        /\ \A s \in Servers : ~Accepting(s)
        /\ \A q \in Requests : request[q] # "running"

\* "If true, wait for in-progress tasks to complete before shutting down"
\* (control.proto): while every shutdown is graceful and no timeout has
\* expired, no request loses its client.
GracefulDrains ==
    (\A t \in Triggers : Begun(t) => IsGraceful(t) /\ timer[t] \in {"none", "armed"})
        => \A q \in Requests : request[q] \in {"none", "running", "completed"}
=============================================================================
