---------------------------- MODULE MuxListener ----------------------------
(***************************************************************************)
(* pkg/transport/quic/mux_listener.go and the accepting side of mux.go:    *)
(* one goroutine accepts QUIC connections, one goroutine per connection    *)
(* accepts its streams one after the other, reads the byte that names the  *)
(* type and sends the stream into the bounded channel of that type, and    *)
(* the two gRPC servers receive from the channels.  Close cancels the      *)
(* context, closes the channels and then the connections, all under l.mu.  *)
(*                                                                         *)
(* A step is a critical section of l.mu or an operation that may block;    *)
(* only Close, which other goroutines observe half way through its         *)
(* critical section, is split further.  A handler at "send" is about to    *)
(* evaluate the select statement or parked in it.                          *)
(*                                                                         *)
(* A stream is <<connection, position>>.  QUIC announces streams in order, *)
(* but the first byte of one may be lost and arrive after a later stream   *)
(* is complete, or never if the peer resets the stream.                    *)
(***************************************************************************)
EXTENDS Naturals, Sequences

CONSTANTS
    Conns,          \* the connections peers may make
    StreamTypes,    \* per connection, the types of the streams it opens
    Types,          \* the keys of MuxListener.streams: control and A2A
    Cap,            \* the capacity of a channel; 16 in the code
    Faults          \* what may happen to which connection: <<"reset", c>>, of
                    \* one of its streams, and <<"loss", c>>

ASSUME ListenerAssumption ==
    /\ DOMAIN StreamTypes = Conns
    /\ \A c \in Conns : /\ Len(StreamTypes[c]) \in Nat
                         /\ DOMAIN StreamTypes[c] = 1 .. Len(StreamTypes[c])
    /\ Cap \in Nat \ {0}
    /\ Faults \subseteq {"reset", "loss"} \X Conns

VARIABLES
    closer,         \* how far Close has come
    chanClosed,     \* the channels that are closed
    acceptor,       \* acceptLoop
    conns,          \* MuxListener.conns
    quic,           \* the state of each connection
    handler,        \* handleConnection, for each connection
    opened,         \* how many streams the peer has opened
    taken,          \* how many of them AcceptStream has returned
    wire,           \* what has arrived of each stream
    chan,           \* MuxListener.streams
    fate,           \* what became of each stream
    server          \* the Serve loop of each gRPC server, in Accept

listenerVars == <<closer, chanClosed, acceptor, conns>>
streamVars == <<opened, wire>>
vars == <<listenerVars, quic, handler, streamVars, taken, chan, fate, server>>

Streams == UNION {{<<c, i>> : i \in 1 .. Len(StreamTypes[c])} : c \in Conns}
TypeOf(s) == StreamTypes[s[1]][s[2]]

\* l.ctx is done.
Cancelled == closer # "open"

\* The stream the handler of c has in hand
Current(c) == <<c, taken[c]>>

Goto(c, label) == handler' = [handler EXCEPT ![c] = label]

-----------------------------------------------------------------------------
(* A bug in one operation, used to confirm that the properties see it. *)
BugNoLock == FALSE
BugKeepConns == quic' = quic
BugOtherChannel(c) == CHOOSE t \in Types : t # TypeOf(Current(c))
BugDropWhenFull(c) == Cancelled \/ Len(chan[TypeOf(Current(c))]) >= Cap
BugNoLimit(t) == TRUE
BugUnknownEnds == "exit"
-----------------------------------------------------------------------------

\* l.mu is held by Close.
Locked == closer = "closing"

\* ListenMux
Init ==
    /\ closer = "open"
    /\ chanClosed = {}
    /\ acceptor = "accept"
    /\ conns = {}
    /\ quic = [c \in Conns |-> "none"]
    /\ handler = [c \in Conns |-> "none"]
    /\ opened = [c \in Conns |-> 0]
    /\ taken = [c \in Conns |-> 0]
    /\ wire = [s \in Streams |-> "none"]
    /\ chan = [t \in Types |-> <<>>]
    /\ fate = [s \in Streams |-> "pending"]
    /\ server = [t \in Types |-> "lookup"]

-----------------------------------------------------------------------------
(* Peers and the network *)

\* A peer completes a handshake.
Connect(c) ==
    /\ quic[c] = "none"
    /\ closer \notin {"done", "crashed"}
    /\ quic' = [quic EXCEPT ![c] = "open"]
    /\ UNCHANGED <<listenerVars, handler, streamVars, taken, chan, fate, server>>

\* A peer opens its next stream.
OpenStream(c) ==
    /\ quic[c] = "open"
    /\ opened[c] < Len(StreamTypes[c])
    /\ opened' = [opened EXCEPT ![c] = @ + 1]
    /\ wire' = [wire EXCEPT ![<<c, opened[c] + 1>>] = "announced"]
    /\ UNCHANGED <<listenerVars, quic, handler, taken, chan, fate, server>>

\* The byte that names the type arrives.
TypeArrives(s) ==
    /\ wire[s] = "announced"
    /\ quic[s[1]] = "open"
    /\ wire' = [wire EXCEPT ![s] = "typed"]
    /\ UNCHANGED <<listenerVars, quic, handler, opened, taken, chan, fate, server>>

\* The handler has not read the type of s.
Unread(s) ==
    \/ taken[s[1]] < s[2]
    \/ taken[s[1]] = s[2] /\ handler[s[1]] = "read"

\* The peer resets the stream, or ends it before that byte was sent.  A reset
\* also discards a byte that has arrived and was not read.
Reset(s) ==
    /\ <<"reset", s[1]>> \in Faults
    /\ wire[s] \in {"announced", "typed"}
    /\ Unread(s)
    /\ quic[s[1]] = "open"
    /\ wire' = [wire EXCEPT ![s] = "reset"]
    /\ UNCHANGED <<listenerVars, quic, handler, opened, taken, chan, fate, server>>

\* The peer closes the connection, or the idle timeout does.
ConnLost(c) ==
    /\ <<"loss", c>> \in Faults
    /\ quic[c] = "open"
    /\ quic' = [quic EXCEPT ![c] = "closed"]
    /\ UNCHANGED <<listenerVars, handler, streamVars, taken, chan, fate, server>>

-----------------------------------------------------------------------------
(* acceptLoop *)

\* ql.Accept returns a connection.
Accept(c) ==
    /\ acceptor = "accept"
    /\ quic[c] # "none"
    /\ handler[c] = "none"
    /\ acceptor' = "register"
    /\ Goto(c, "held")
    /\ UNCHANGED <<closer, chanClosed, conns, quic, streamVars, taken, chan,
                   fate, server>>

\* ql.Accept fails: the context is done.
AcceptFails ==
    /\ acceptor = "accept"
    /\ Cancelled
    /\ acceptor' = "stopped"
    /\ UNCHANGED <<closer, chanClosed, conns, quic, handler, streamVars, taken,
                   chan, fate, server>>

\* The listener is open: the connection gets its handler.
Register(c) ==
    /\ handler[c] = "held"
    /\ ~Locked
    /\ ~Cancelled
    /\ acceptor' = "accept"
    /\ conns' = conns \cup {c}
    /\ Goto(c, "accept")
    /\ UNCHANGED <<closer, chanClosed, quic, streamVars, taken, chan, fate, server>>

\* The listener was closed meanwhile: the connection is closed.
Refuse(c) ==
    /\ handler[c] = "held"
    /\ ~Locked
    /\ Cancelled
    /\ acceptor' = "stopped"
    /\ quic' = [quic EXCEPT ![c] = "closed"]
    /\ Goto(c, "gone")
    /\ UNCHANGED <<closer, chanClosed, conns, streamVars, taken, chan, fate, server>>

-----------------------------------------------------------------------------
(* handleConnection, and MuxConn.AcceptStream in it *)

ListenerUnchanged == UNCHANGED <<listenerVars, quic, streamVars, server>>

\* AcceptStream: qconn.AcceptStream returns the next stream.
TakeStream(c) ==
    /\ handler[c] = "accept"
    /\ quic[c] = "open"
    /\ taken[c] < opened[c]
    /\ taken' = [taken EXCEPT ![c] = @ + 1]
    /\ Goto(c, "read")
    /\ UNCHANGED <<chan, fate>> /\ ListenerUnchanged

\* AcceptStream: the connection has ended or the context is done.
TakeFails(c) ==
    /\ handler[c] = "accept"
    /\ quic[c] = "closed" \/ Cancelled
    /\ Goto(c, "exit")
    /\ UNCHANGED <<taken, chan, fate>> /\ ListenerUnchanged

\* AcceptStream: io.ReadFull returns the byte.  It does not watch the context.
ReadType(c) ==
    /\ handler[c] = "read"
    /\ wire[Current(c)] = "typed"
    /\ Goto(c, "route")
    /\ UNCHANGED <<taken, chan, fate>> /\ ListenerUnchanged

\* AcceptStream: the stream or the connection ended first.  The stream is
\* closed and the handler returns; the connection is left as it is.
ReadFails(c) ==
    /\ handler[c] = "read"
    /\ wire[Current(c)] = "reset" \/ quic[c] = "closed"
    /\ fate' = [fate EXCEPT ![Current(c)] = "dropped"]
    /\ Goto(c, "exit")
    /\ UNCHANGED <<taken, chan>> /\ ListenerUnchanged

\* The channel of the stream's type is looked up under l.mu.
Lookup(c) ==
    /\ handler[c] = "route"
    /\ ~Locked
    /\ TypeOf(Current(c)) \in Types
    /\ Goto(c, "send")
    /\ UNCHANGED <<taken, chan, fate>> /\ ListenerUnchanged

\* continue: a stream without a server is no reason to end the connection.
AfterUnknown == "accept"

\* There is no such channel: the stream is closed.
Unknown(c) ==
    /\ handler[c] = "route"
    /\ ~Locked
    /\ TypeOf(Current(c)) \notin Types
    /\ fate' = [fate EXCEPT ![Current(c)] = "dropped"]
    /\ Goto(c, AfterUnknown)
    /\ UNCHANGED <<taken, chan>> /\ ListenerUnchanged

\* l.streams[streamType]
ChannelFor(c) == TypeOf(Current(c))

\* make(chan net.Conn, 16): a send goes ahead while there is room.
Room(t) == Len(chan[t]) < Cap

\* select: case streamChan <- conn
Send(c) ==
    /\ handler[c] = "send"
    /\ ChannelFor(c) \notin chanClosed
    /\ Room(ChannelFor(c))
    /\ chan' = [chan EXCEPT ![ChannelFor(c)] = Append(@, Current(c))]
    /\ fate' = [fate EXCEPT ![Current(c)] = "queued"]
    /\ Goto(c, "accept")
    /\ UNCHANGED taken /\ ListenerUnchanged

\* The select statement does not wait for the channel.
GiveUp(c) == Cancelled

\* select: case <-l.ctx.Done()
SendCancelled(c) ==
    /\ handler[c] = "send"
    /\ GiveUp(c)
    /\ fate' = [fate EXCEPT ![Current(c)] = "dropped"]
    /\ Goto(c, "exit")
    /\ UNCHANGED <<taken, chan>> /\ ListenerUnchanged

\* select: a send on a closed channel is ready, and panics when it is chosen.
\* No goroutine of the process survives, and neither do its connections.
SendPanics(c) ==
    /\ handler[c] = "send"
    /\ ChannelFor(c) \in chanClosed
    /\ closer' = "crashed"
    /\ acceptor' = "dead"
    /\ handler' = [k \in Conns |-> "dead"]
    /\ server' = [t \in Types |-> "dead"]
    /\ quic' = [k \in Conns |-> "closed"]
    /\ UNCHANGED <<chanClosed, conns, streamVars, taken, chan, fate>>

\* The deferred function of handleConnection
HandlerReturns(c) ==
    /\ handler[c] = "exit"
    /\ ~Locked
    /\ conns' = conns \ {c}
    /\ Goto(c, "gone")
    /\ UNCHANGED <<closer, chanClosed, acceptor, quic, streamVars, taken, chan,
                   fate, server>>

-----------------------------------------------------------------------------
(* streamListener.Accept, called by a gRPC server's Serve loop *)

ServerLookup(t) ==
    /\ server[t] = "lookup"
    /\ ~Locked
    /\ server' = [server EXCEPT ![t] = "select"]
    /\ UNCHANGED <<listenerVars, quic, handler, streamVars, taken, chan, fate>>

\* A stream is received; a closed channel still gives what it holds.
ServerReceives(t) ==
    /\ server[t] = "select"
    /\ chan[t] # <<>>
    /\ fate' = [fate EXCEPT ![Head(chan[t])] = "delivered"]
    /\ chan' = [chan EXCEPT ![t] = Tail(@)]
    /\ server' = [server EXCEPT ![t] = "lookup"]
    /\ UNCHANGED <<listenerVars, quic, handler, streamVars, taken>>

\* net.ErrClosed, by the closed channel or by the context: Serve returns.
ServerStops(t) ==
    /\ server[t] = "select"
    /\ Cancelled
    /\ server' = [server EXCEPT ![t] = "stopped"]
    /\ UNCHANGED <<listenerVars, quic, handler, streamVars, taken, chan, fate>>

-----------------------------------------------------------------------------
(* MuxListener.Close *)

\* closed is set and the context cancelled, under l.mu.
CloseBegins ==
    /\ closer = "open"
    /\ closer' = "closing"
    /\ UNCHANGED <<chanClosed, acceptor, conns, quic, handler, streamVars,
                   taken, chan, fate, server>>

CloseChannel(t) ==
    /\ closer = "closing"
    /\ t \notin chanClosed
    /\ chanClosed' = chanClosed \cup {t}
    /\ UNCHANGED <<closer, acceptor, conns, quic, handler, streamVars, taken,
                   chan, fate, server>>

\* for conn := range l.conns { conn.Close() }
CloseRegistered ==
    quic' = [c \in Conns |-> IF c \in conns THEN "closed" ELSE quic[c]]

\* The connections are closed and l.mu is released.
CloseConns ==
    /\ closer = "closing"
    /\ chanClosed = Types
    /\ CloseRegistered
    /\ closer' = "unlocked"
    /\ UNCHANGED <<chanClosed, acceptor, conns, handler, streamVars, taken,
                   chan, fate, server>>

\* ql.Close(): no more handshakes; established connections are unaffected.
CloseSocket ==
    /\ closer = "unlocked"
    /\ closer' = "done"
    /\ UNCHANGED <<chanClosed, acceptor, conns, quic, handler, streamVars,
                   taken, chan, fate, server>>

-----------------------------------------------------------------------------

Peer ==
    \/ \E c \in Conns : Connect(c) \/ OpenStream(c) \/ ConnLost(c)
    \/ \E s \in Streams : TypeArrives(s) \/ Reset(s)

AcceptLoop ==
    \/ \E c \in Conns : Accept(c) \/ Register(c) \/ Refuse(c)
    \/ AcceptFails

HandleConnection(c) ==
    \/ TakeStream(c) \/ TakeFails(c)
    \/ ReadType(c) \/ ReadFails(c)
    \/ Lookup(c) \/ Unknown(c)
    \/ Send(c) \/ SendCancelled(c)
    \/ HandlerReturns(c)

Serve(t) == ServerLookup(t) \/ ServerReceives(t) \/ ServerStops(t)

Close ==
    \/ \E t \in Types : CloseChannel(t)
    \/ CloseConns
    \/ CloseSocket

\* The steps of the process, once Close was called
System ==
    \/ AcceptLoop
    \/ \E c \in Conns : HandleConnection(c) \/ SendPanics(c)
    \/ \E t \in Types : Serve(t)
    \/ Close

Next ==
    \/ Peer
    \/ System
    \/ CloseBegins

Spec == Init /\ [][Next]_vars

\* While a goroutine can go on, one does.  Peers make finitely many
\* connections and streams, so this comes to fairness for each goroutine.
\* Nobody is obliged to connect, open a stream, send its type or close the
\* listener.
FairSpec == Spec /\ WF_vars(System)

-----------------------------------------------------------------------------
(* Properties *)

Fates == {"pending", "queued", "delivered", "dropped"}

\* The variables have their types; no channel holds more than its capacity.
TypeOK ==
    /\ closer \in {"open", "closing", "unlocked", "done", "crashed"}
    /\ chanClosed \subseteq Types
    /\ acceptor \in {"accept", "register", "stopped", "dead"}
    /\ conns \subseteq Conns
    /\ quic \in [Conns -> {"none", "open", "closed"}]
    /\ handler \in [Conns -> {"none", "held", "accept", "read", "route",
                              "send", "exit", "gone", "dead"}]
    /\ opened \in [Conns -> Nat]
    /\ taken \in [Conns -> Nat]
    /\ wire \in [Streams -> {"none", "announced", "typed", "reset"}]
    /\ chan \in [Types -> Seq(Streams)]
    /\ \A t \in Types : Len(chan[t]) <= Cap
    /\ fate \in [Streams -> Fates]
    /\ server \in [Types -> {"lookup", "select", "stopped", "dead"}]

\* The router's promises: own type, at most once, in order, nothing thrown
\* away once queued.
Router == INSTANCE StreamRouter WITH queue <- chan
ImplementsRouter == Router!Spec

\* Streams with a server are lost only with their connection, their own reset
\* or the whole listener: a full channel makes the handler wait.
NeverShed ==
    [][\A s \in Streams :
          /\ fate[s] # "dropped" /\ fate'[s] = "dropped"
          /\ TypeOf(s) \in Types
          => Cancelled \/ quic[s[1]] = "closed" \/ wire[s] = "reset"]_vars

\* A stream of c ended before its type byte was read.
Spoilt(c) == \E s \in Streams : s[1] = c /\ wire[s] = "reset"

\* "Close closes the listener and all connections" (mux_listener.go:154): once
\* it has let go of l.mu no connection that was handed to a handler is open,
\* but for one whose handler a bad stream ended before (see ExitMeansClosed).
AllConnsClosed ==
    closer \in {"unlocked", "done"} =>
        \A c \in Conns :
            handler[c] \notin {"none", "held"} => quic[c] = "closed" \/ Spoilt(c)

\* A handler gives up on a connection for the reasons that the comment at
\* mux_listener.go:101 gives: the connection was closed or the context
\* cancelled.
ExitMeansClosed ==
    \A c \in Conns :
        handler[c] \in {"exit", "gone"} => quic[c] = "closed" \/ Cancelled

\* Closing the listener crashes nothing.
NoPanic == closer # "crashed"

\* After Close every goroutine of the listener ends and both servers get an
\* error from Accept (unless the process panics on the way).
CloseCompletes ==
    closer = "closing" ~>
        \/ closer = "crashed"
        \/ /\ closer = "done"
           /\ acceptor = "stopped"
           /\ \A c \in Conns : handler[c] \in {"none", "gone"}
           /\ \A t \in Types : server[t] = "stopped"

\* The types of s and of the streams opened before it on its connection have
\* arrived.
Readable(s) ==
    \A e \in Streams : e[1] = s[1] /\ e[2] <= s[2] => wire[e] = "typed"

\* While its connection and the listener last, a stream whose type has arrived
\* reaches its server as soon as those before it can be read: neither a full
\* channel nor a stream of an unknown type stops the handler.  (A stream whose
\* type is late holds up all later ones of its connection, whatever their
\* type: mux.go:81.  One that is reset ends the handler: ExitMeansClosed.)
StreamsServed ==
    \A s \in Streams :
        Readable(s) /\ TypeOf(s) \in Types
            ~> \/ fate[s] = "delivered" \/ quic[s[1]] = "closed" \/ Cancelled
               \/ Spoilt(s[1])
=============================================================================
