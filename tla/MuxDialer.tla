----------------------------- MODULE MuxDialer -----------------------------
(***************************************************************************)
(* pkg/transport/quic/mux_dialer.go: a pool with one QUIC connection per   *)
(* address, shared by concurrent calls of Dial.  The mutex d.mu guards     *)
(* only the map: it is released while DialAddr runs, so two calls may both *)
(* miss the pool and dial, and the second to come back closes its own      *)
(* connection.  A goroutine per installed connection waits for the         *)
(* connection to end and then deletes the pool's entry for the ADDRESS,    *)
(* whatever connection is there by then; a call whose OpenStream fails     *)
(* does the same once and retries.                                         *)
(*                                                                         *)
(* A step is a critical section of d.mu or a call that may block.  A call  *)
(* of Dial dials at most twice, so the connections it may create have the  *)
(* names <<call, 1>> and <<call, 2>>.  The stream limit of a connection is *)
(* not modelled: OpenStreamSync returns at once.                           *)
(***************************************************************************)
EXTENDS Naturals

CONSTANTS
    Calls,      \* the calls of Dial (by gRPC, for a control or an A2A stream)
    Addrs,      \* the peers' addresses
    None,       \* no connection, no address
    Faults      \* what the environment may do

Conns == Calls \X {1, 2}

ASSUME DialerAssumption ==
    /\ None \notin Conns
    /\ None \notin Addrs
    /\ Faults \subseteq {"refuse", "die", "cancel", "close"}

VARIABLES
    conns,      \* MuxDialer.conns
    quic,       \* the state of each QUIC connection
    monitor,    \* the goroutine watching an installed connection
    pc,         \* where each call is
    addr,       \* its argument
    muxConn,    \* its local variable: the connection it will open a stream on
    failed,     \* the connection its first OpenStream failed on
    cancelled   \* its context is done

vars == <<conns, quic, monitor, pc, addr, muxConn, failed, cancelled>>

Returned == {"stream", "error"}
Goto(d, label) == pc' = [pc EXCEPT ![d] = label]

-----------------------------------------------------------------------------
(* A bug in one operation, used to confirm that the properties see it. *)
BugNoMonitor(c) == monitor' = [monitor EXCEPT ![c] = "done"]
BugAlwaysInstall(d) == FALSE
BugKeepDuplicate(d) == quic' = quic
BugReturnDuplicate(d) == muxConn' = [muxConn EXCEPT ![d] = <<d, 1>>]
BugKeepEntry(a) == conns' = conns
BugRetrySame(d) == "open"
BugReread(d) == muxConn' = [muxConn EXCEPT ![d] = conns[addr[d]]]
-----------------------------------------------------------------------------

\* NewMuxDialer
Init ==
    /\ conns = [a \in Addrs |-> None]
    /\ quic = [c \in Conns |-> "unused"]
    /\ monitor = [c \in Conns |-> "none"]
    /\ pc = [d \in Calls |-> "idle"]
    /\ addr = [d \in Calls |-> None]
    /\ muxConn = [d \in Calls |-> None]
    /\ failed = [d \in Calls |-> None]
    /\ cancelled = [d \in Calls |-> FALSE]

\* Dial is called.
Dial(d, a) ==
    /\ pc[d] = "idle"
    /\ addr' = [addr EXCEPT ![d] = a]
    /\ Goto(d, "lookup")
    /\ UNCHANGED <<conns, quic, monitor, muxConn, failed, cancelled>>

\* getOrCreateConn: the connection of the address is in the pool.
Reuse(d) ==
    /\ pc[d] = "lookup"
    /\ conns[addr[d]] # None
    /\ muxConn' = [muxConn EXCEPT ![d] = conns[addr[d]]]
    /\ Goto(d, "open")
    /\ UNCHANGED <<conns, quic, monitor, addr, failed, cancelled>>

\* getOrCreateConn: it is not; the mutex is released to dial.
Miss(d) ==
    /\ pc[d] = "lookup"
    /\ conns[addr[d]] = None
    /\ Goto(d, "dial")
    /\ UNCHANGED <<conns, quic, monitor, addr, muxConn, failed, cancelled>>

\* The connection this call of getOrCreateConn creates
Fresh(d) == <<d, IF failed[d] = None THEN 1 ELSE 2>>

\* quic.DialAddr succeeds.
DialOK(d) ==
    /\ pc[d] = "dial"
    /\ ~cancelled[d]
    /\ quic[Fresh(d)] = "unused"
    /\ quic' = [quic EXCEPT ![Fresh(d)] = "open"]
    /\ Goto(d, "install")
    /\ UNCHANGED <<conns, monitor, addr, muxConn, failed, cancelled>>

\* quic.DialAddr fails: the peer does not answer, or the context is done.
DialFail(d) ==
    /\ pc[d] = "dial"
    /\ cancelled[d] \/ "refuse" \in Faults
    /\ Goto(d, "error")
    /\ UNCHANGED <<conns, quic, monitor, addr, muxConn, failed, cancelled>>

\* "Check again in case another goroutine created it"
Created(d) == conns[addr[d]] # None

\* go func() { <-muxConn.Context().Done(); ... }()
Watch(c) == monitor' = [monitor EXCEPT ![c] = "waiting"]

\* getOrCreateConn: no other call was first, the new connection is pooled.
Install(d) ==
    /\ pc[d] = "install"
    /\ ~Created(d)
    /\ conns' = [conns EXCEPT ![addr[d]] = Fresh(d)]
    /\ Watch(Fresh(d))
    /\ muxConn' = [muxConn EXCEPT ![d] = Fresh(d)]
    /\ Goto(d, "open")
    /\ UNCHANGED <<quic, addr, failed, cancelled>>

\* The call goes on with the connection that is in the pool.
UseExisting(d) == muxConn' = [muxConn EXCEPT ![d] = conns[addr[d]]]

\* getOrCreateConn: another call was first.
LoseRace(d) ==
    /\ pc[d] = "install"
    /\ Created(d)
    /\ UseExisting(d)
    /\ Goto(d, "closeDup")
    /\ UNCHANGED <<conns, quic, monitor, addr, failed, cancelled>>

\* muxConn.Close() of the connection just created
CloseFresh(d) == quic' = [quic EXCEPT ![Fresh(d)] = "closed"]

\* return existing, nil: the connection that was seen under the mutex, whether
\* or not it is still in the pool
ReturnExisting(d) == UNCHANGED muxConn

\* The duplicate is closed after the mutex is released.
CloseDup(d) ==
    /\ pc[d] = "closeDup"
    /\ CloseFresh(d)
    /\ ReturnExisting(d)
    /\ Goto(d, "open")
    /\ UNCHANGED <<conns, monitor, addr, failed, cancelled>>

\* MuxConn.OpenStream fails on a connection that has ended, by either side,
\* and when the call's context is done.
CanOpen(d) == quic[muxConn[d]] = "open" /\ ~cancelled[d]

OpenOK(d) ==
    /\ pc[d] = "open"
    /\ CanOpen(d)
    /\ Goto(d, "stream")
    /\ UNCHANGED <<conns, quic, monitor, addr, muxConn, failed, cancelled>>

\* Dial retries once.
AfterFailure(d) == IF failed[d] = None THEN "remove" ELSE "error"

OpenFail(d) ==
    /\ pc[d] = "open"
    /\ ~CanOpen(d)
    /\ failed' = [failed EXCEPT ![d] = IF @ = None THEN muxConn[d] ELSE @]
    /\ Goto(d, AfterFailure(d))
    /\ UNCHANGED <<conns, quic, monitor, addr, muxConn, cancelled>>

\* removeConn: by address; the connection is not closed.
RemoveConn(a) == conns' = [conns EXCEPT ![a] = None]

Remove(d) ==
    /\ pc[d] = "remove"
    /\ RemoveConn(addr[d])
    /\ Goto(d, "lookup")
    /\ UNCHANGED <<quic, monitor, addr, muxConn, failed, cancelled>>

\* The address a connection was dialled for
Peer(c) == addr[c[1]]

\* The goroutine of an installed connection, some time after its end
Monitor(c) ==
    /\ monitor[c] = "waiting"
    /\ quic[c] = "closed"
    /\ RemoveConn(Peer(c))
    /\ monitor' = [monitor EXCEPT ![c] = "done"]
    /\ UNCHANGED <<quic, pc, addr, muxConn, failed, cancelled>>

Pooled == {c \in Conns : \E a \in Addrs : conns[a] = c}

\* for addr, conn := range d.conns { conn.Close() ... }
ClosePooled ==
    quic' = [c \in Conns |-> IF c \in Pooled THEN "closed" ELSE quic[c]]

\* MuxDialer.Close.  There is no closed flag: a later Dial works again.
CloseAll ==
    /\ "close" \in Faults
    /\ ClosePooled
    /\ conns' = [a \in Addrs |-> None]
    /\ UNCHANGED <<monitor, pc, addr, muxConn, failed, cancelled>>

\* The peer closes the connection, or the idle timeout does.
ConnDies(c) ==
    /\ "die" \in Faults
    /\ quic[c] = "open"
    /\ quic' = [quic EXCEPT ![c] = "closed"]
    /\ UNCHANGED <<conns, monitor, pc, addr, muxConn, failed, cancelled>>

\* The caller gives up.
Cancel(d) ==
    /\ "cancel" \in Faults
    /\ pc[d] \notin Returned \cup {"idle"}
    /\ cancelled' = [cancelled EXCEPT ![d] = TRUE]
    /\ UNCHANGED <<conns, quic, monitor, pc, addr, muxConn, failed>>

CallStep(d) ==
    \/ Reuse(d) \/ Miss(d)
    \/ DialOK(d) \/ DialFail(d)
    \/ Install(d) \/ LoseRace(d) \/ CloseDup(d)
    \/ OpenOK(d) \/ OpenFail(d) \/ Remove(d)

Next ==
    \/ \E d \in Calls, a \in Addrs : Dial(d, a)
    \/ \E d \in Calls : CallStep(d) \/ Cancel(d)
    \/ \E c \in Conns : Monitor(c) \/ ConnDies(c)
    \/ CloseAll

Spec == Init /\ [][Next]_vars

\* The scheduler runs every goroutine that can go on.  DialAddr returns (its
\* handshake has a timeout); nobody is obliged to call, cancel or close.
Fairness ==
    /\ \A d \in Calls : WF_vars(CallStep(d))
    /\ \A c \in Conns : WF_vars(Monitor(c))

FairSpec == Spec /\ Fairness
-----------------------------------------------------------------------------
(* Properties *)

\* The variables have their types, and a call that is past getOrCreateConn has
\* a connection: never nil, also when the one it found has been evicted.
TypeOK ==
    /\ conns \in [Addrs -> Conns \cup {None}]
    /\ quic \in [Conns -> {"unused", "open", "closed"}]
    /\ monitor \in [Conns -> {"none", "waiting", "done"}]
    /\ pc \in [Calls -> Returned \cup {"idle", "lookup", "dial", "install",
                                       "closeDup", "open", "remove"}]
    /\ addr \in [Calls -> Addrs \cup {None}]
    /\ muxConn \in [Calls -> Conns \cup {None}]
    /\ failed \in [Calls -> Conns \cup {None}]
    /\ cancelled \in [Calls -> BOOLEAN]
    /\ \A d \in Calls :
           pc[d] \in {"closeDup", "open", "remove", "stream"} => muxConn[d] # None

\* A connection that was put in the pool
Established(c) == monitor[c] # "none"

\* The goroutine that will evict a pooled connection has not run yet: an
\* ended connection never stays in the pool with nobody left to remove it,
\* and it is pooled under the address it was dialled for.
PooledWatched ==
    \A a \in Addrs, c \in Conns :
        conns[a] = c => monitor[c] = "waiting" /\ Peer(c) = a

\* A stream is opened only on a connection that was pooled, of the address the
\* call asked for: never on the duplicate that lost the race.
StreamsOnInstalled ==
    \A d \in Calls :
        pc[d] \in {"open", "stream"} =>
            /\ muxConn[d] # None
            /\ Established(muxConn[d])
            /\ Peer(muxConn[d]) = addr[d]

\* No connection leaks on the way to the pool: one that is open and was not
\* pooled is in the hands of the call that dialled it.
DuplicatesClosed ==
    \A c \in Conns :
        quic[c] = "open" /\ ~Established(c) =>
            pc[c[1]] \in {"install", "closeDup"}

\* The retry after a failed OpenStream is never on the connection it failed on.
RetryElsewhere ==
    \A d \in Calls :
        failed[d] # None /\ pc[d] \in {"open", "stream"} =>
            muxConn[d] # failed[d]

\* At most one usable connection per address (mux_dialer.go:15).
SingleConn ==
    \A c1, c2 \in Conns :
        /\ Established(c1) /\ quic[c1] = "open"
        /\ Established(c2) /\ quic[c2] = "open"
        /\ Peer(c1) = Peer(c2)
        => c1 = c2

\* No call was cancelled and no pooled connection has ended.
Undisturbed ==
    /\ \A d \in Calls : ~cancelled[d]
    /\ \A c \in Conns : Established(c) => quic[c] = "open"

\* However many calls race to dial one address, they end up sharing a single
\* connection, as long as nothing is cancelled and no connection ends.
SharedUntilLoss == Undisturbed => SingleConn

\* Every call of Dial returns, with a stream or with an error.
DialReturns == \A d \in Calls : pc[d] # "idle" ~> pc[d] \in Returned

\* An ended connection is eventually out of the pool.
DeadEvicted ==
    \A a \in Addrs, c \in Conns :
        conns[a] = c /\ quic[c] = "closed" ~> conns[a] # c
=============================================================================
