------------------------------ MODULE Commands ------------------------------
(***************************************************************************)
(* "tndrl shutdown" (cmd/tndrl/shutdown.go), and the PeerConnection of     *)
(* client.go that carries its one call, beside the daemon it calls.        *)
(*                                                                         *)
(* The command dials the daemon, sends its call and waits for the answer,  *)
(* without a timeout and without a retry.  The daemon may go away at any   *)
(* moment, above all because the call told it to: the answer of Shutdown   *)
(* and the closing of the connection by the shutdown race each other.      *)
(* Apart from that the network loses nothing.                              *)
(*                                                                         *)
(* "tndrl status" (status.go) and GetStatus change nothing; what they can  *)
(* print is stated as StatusForward.                                       *)
(***************************************************************************)
EXTENDS Daemon

VARIABLE cmd        \* where each command is, and how it ended

allVars == <<vars, cmd>>

Ended == {"accepted", "rejected", "error"}

\* Every connection to the daemon has ended.
Gone == ~listening \/ ~Alive

\* The control server has connections, and takes new ones until it is stopped.
Connected == ~Gone /\ Accepting("control")
Reachable == Connected /\ "control" \notin quit

-----------------------------------------------------------------------------
(* ShutdownCmd.Run: ConnectToPeer, doShutdown *)

CommandsInit == Init /\ cmd = [r \in Rpcs |-> "dialing"]

Command(r, from, to) ==
    /\ cmd[r] = from
    /\ cmd' = [cmd EXCEPT ![r] = to]
    /\ UNCHANGED vars

\* NewClient connects only when the first call needs it.  A command that is
\* run later is one that takes long to get here.
Connect(r) == Reachable /\ Command(r, "dialing", "calling")

\* The daemon is not there, or its server closes what it still accepts while
\* it is being stopped.
ConnectFails(r) ==
    /\ Gone \/ "control" \in quit
    /\ Command(r, "dialing", "error")

\* The call reaches the handler.
Arrive(r) ==
    /\ cmd[r] = "calling"
    /\ ReadState(r)
    /\ UNCHANGED cmd

\* The answer arrives: "shutdown accepted" and exit code 0, or "shutdown
\* rejected" and exit code 1.
Answer(r) ==
    /\ ~Gone
    /\ rpc[r] \in {"accepted", "rejected"}
    /\ Command(r, "calling", rpc[r])

\* "shutdown request failed", whatever became of the call
CallFails(r) == Gone /\ Command(r, "calling", "error")

ShutdownCommand(r) ==
    \/ Connect(r) \/ ConnectFails(r)
    \/ Arrive(r)
    \/ Answer(r) \/ CallFails(r)

\* Calls of Shutdown come from the commands; the rest is the daemon's.
DaemonNext ==
    /\ Next
    /\ \A r \in Rpcs : rpc[r] = "none" => rpc'[r] = "none"
    /\ UNCHANGED cmd

CommandsNext == DaemonNext \/ \E r \in Rpcs : ShutdownCommand(r)

\* The network delivers what is not cut off, and a command whose connection
\* has ended notices, at the latest by QUIC's idle timeout.
CommandsSpec ==
    /\ CommandsInit /\ [][CommandsNext]_allVars
    /\ Fairness
    /\ \A r \in Rpcs : WF_allVars(ShutdownCommand(r))

-----------------------------------------------------------------------------
(* Properties *)

\* Who runs "tndrl status" again and again sees the node go READY, DRAINING
\* and never back, although of two shutdowns one takes the STOPPED node of
\* the other to DRAINING, and a signal may come before READY: when these
\* happen nobody is connected yet, or nobody any more.
Order == <<"STARTING", "READY", "DRAINING", "STOPPED">>
Position(s) == CHOOSE i \in DOMAIN Order : Order[i] = s
StatusForward ==
    [][Connected => Position(state) <= Position(state')]_allVars

\* A shutdown that was called for happens, whether its command is told that
\* it was accepted, that another one is under way, or loses the answer with
\* the connection.
ShutdownTakesEffect ==
    \A r \in Rpcs : cmd[r] = "calling" ~> ~Alive \/ state = "STOPPED"

\* No command waits for ever, though it has no timeout of its own: the daemon
\* answers or the connection ends, also for who connects while it is going
\* down, or before it has started its servers and is told to stop.
CommandsEnd == \A r \in Rpcs : <>(cmd[r] \in Ended)
=============================================================================
