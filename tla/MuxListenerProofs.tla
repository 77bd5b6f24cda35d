------------------------- MODULE MuxListenerProofs -------------------------
(* Proofs about MuxListener, for any connections, streams, types, faults    *)
(* and capacity of the channels.                                            *)
EXTENDS MuxListener, SequenceTheorems, TLAPS

-----------------------------------------------------------------------------
(* The invariants *)

Positions(c) == 1 .. Len(StreamTypes[c])
InHand == {"read", "route", "send"}

\* AcceptStream returns the streams that the peer has opened, in order, and a
\* handler looks up a type before it sends; what a peer has not opened has not
\* arrived; only a panic kills a handler.
Taken(c) ==
    /\ opened[c] <= Len(StreamTypes[c])
    /\ taken[c] <= opened[c]
    /\ handler[c] \in InHand => taken[c] > 0
    /\ handler[c] \in {"none", "held"} => taken[c] = 0
    /\ handler[c] = "send" => TypeOf(Current(c)) \in Types
    /\ handler[c] = "dead" <=> closer = "crashed"
    /\ \A i \in Positions(c) : i > opened[c] => wire[<<c, i>>] = "none"

\* Every stream that was taken has its fate, but for the one in hand.
Decided(c) ==
    handler[c] # "dead" =>
        \A i \in Positions(c) :
            fate[<<c, i>>] = "pending" <=>
                i > taken[c] \/ (i = taken[c] /\ handler[c] \in InHand)

\* The streams of a connection are decided in order.
RoutedInOrder ==
    \A s \in Streams :
        fate[s] # "pending" => \A e \in Router!Earlier(s) : fate[e] # "pending"

RouterInv == Router!QueuesInOrder /\ RoutedInOrder

ListenerInv == TypeOK /\ RouterInv /\ \A c \in Conns : Taken(c) /\ Decided(c)

\* Close finds every connection with a running handler in l.conns, and a
\* handler does not return before Close or its connection has ended, or after
\* a bad stream.
Closable(c) ==
    /\ handler[c] \in InHand \cup {"accept", "exit"} => c \in conns
    /\ handler[c] = "exit" => quic[c] = "closed" \/ Spoilt(c) \/ Cancelled
    /\ handler[c] = "gone" => quic[c] = "closed" \/ Spoilt(c)

ClosedInv == ListenerInv /\ AllConnsClosed /\ \A c \in Conns : Closable(c)

-----------------------------------------------------------------------------
(* Types *)

Labels == {"none", "held", "accept", "read", "route", "send", "exit", "gone", "dead"}

LEMMA StreamsAre ==
    /\ \A c \in Conns : \A i \in Positions(c) : <<c, i>> \in Streams
    /\ \A s \in Streams :
           s[1] \in Conns /\ s[2] \in Positions(s[1]) /\ s = <<s[1], s[2]>>
    /\ \A c \in Conns : Len(StreamTypes[c]) \in Nat /\ Positions(c) \subseteq Nat \ {0}
    /\ Cap \in Nat \ {0}
<1>1. \A c \in Conns : Len(StreamTypes[c]) \in Nat /\ Positions(c) \subseteq Nat \ {0}
  <2>1. ASSUME NEW c \in Conns
        PROVE  Len(StreamTypes[c]) \in Nat /\ Positions(c) \subseteq Nat \ {0}
    <3>1. Len(StreamTypes[c]) \in Nat
      BY ListenerAssumption
    <3> QED BY <3>1 DEF Positions
  <2> QED BY <2>1
<1>2. \A c \in Conns : \A i \in Positions(c) : <<c, i>> \in Streams
  BY DEF Streams, Positions
<1>3. \A s \in Streams :
          s[1] \in Conns /\ s[2] \in Positions(s[1]) /\ s = <<s[1], s[2]>>
  <2>1. \A s \in Streams : \E c \in Conns : \E i \in Positions(c) : s = <<c, i>>
    BY DEF Streams, Positions
  <2> QED BY <2>1
<1> QED BY <1>1, <1>2, <1>3, ListenerAssumption

\* The stream in hand is one.
LEMMA CurrentIsStream ==
    ASSUME TypeOK, NEW c \in Conns, Taken(c), handler[c] \in InHand
    PROVE  Current(c) \in Streams /\ taken[c] \in Positions(c)
<1>1. taken[c] \in Nat /\ opened[c] \in Nat /\ Len(StreamTypes[c]) \in Nat
  BY StreamsAre DEF TypeOK
<1>2. taken[c] \in Positions(c)
  BY <1>1 DEF Taken, Positions
<1> QED BY <1>2, StreamsAre DEF Current

LEMMA TypeInit == Init => TypeOK
<1> SUFFICES ASSUME Init PROVE TypeOK
  OBVIOUS
<1>1. chan \in [Types -> Seq(Streams)] /\ \A t \in Types : Len(chan[t]) = 0
  <2>1. <<>> \in Seq(Streams) /\ Len(<<>>) = 0
    OBVIOUS
  <2>2. chan = [t \in Types |-> <<>>]
    BY DEF Init
  <2> QED BY <2>1, <2>2
<1> QED BY <1>1, StreamsAre DEF Init, TypeOK, Fates

LEMMA TypeStep ==
    ASSUME TypeOK, \A c \in Conns : Taken(c), [Next]_vars
    PROVE  TypeOK'
<1> USE DEF TypeOK, listenerVars, streamVars, Fates
<1>1. CASE Peer
  <2>1. ASSUME NEW c \in Conns, Connect(c) \/ OpenStream(c) \/ ConnLost(c)
        PROVE  TypeOK'
    <3>1. CASE Connect(c) \/ ConnLost(c)
      BY <3>1 DEF Connect, ConnLost
    <3>2. CASE OpenStream(c)
      <4>1. opened' \in [Conns -> Nat]
        BY <3>2 DEF OpenStream
      <4> QED BY <3>2, <4>1 DEF OpenStream
    <3> QED BY <2>1, <3>1, <3>2
  <2>2. ASSUME NEW s \in Streams, TypeArrives(s) \/ Reset(s) PROVE TypeOK'
    <3>1. /\ wire' \in [Streams -> {"none", "announced", "typed", "reset"}]
          /\ UNCHANGED <<listenerVars, quic, handler, opened, taken, chan, fate, server>>
      BY <2>2 DEF TypeArrives, Reset
    <3> QED BY <3>1
  <2> QED BY <1>1, <2>1, <2>2 DEF Peer
<1>2. CASE AcceptLoop
  <2>1. ASSUME NEW c \in Conns, Accept(c) PROVE TypeOK'
    <3>1. /\ handler' = [handler EXCEPT ![c] = "held"] /\ acceptor' = "register"
          /\ UNCHANGED <<closer, chanClosed, conns, quic, opened, wire, taken, chan,
                         fate, server>>
      BY <2>1 DEF Accept, Goto
    <3> QED BY <3>1
  <2>2. ASSUME NEW c \in Conns, Register(c) PROVE TypeOK'
    BY <2>2 DEF Register, Goto
  <2>3. ASSUME NEW c \in Conns, Refuse(c) PROVE TypeOK'
    BY <2>3 DEF Refuse, Goto
  <2>4. CASE AcceptFails
    BY <2>4 DEF AcceptFails
  <2> QED BY <1>2, <2>1, <2>2, <2>3, <2>4 DEF AcceptLoop
<1>3. ASSUME NEW c \in Conns, HandleConnection(c) \/ SendPanics(c) PROVE TypeOK'
  <2>1. CASE TakeStream(c)
    <3>1. taken' \in [Conns -> Nat]
      BY <2>1 DEF TakeStream
    <3> QED BY <2>1, <3>1 DEF TakeStream, ListenerUnchanged, Goto
  <2>2. CASE TakeFails(c) \/ ReadType(c) \/ Lookup(c)
    BY <2>2 DEF TakeFails, ReadType, Lookup, ListenerUnchanged, Goto
  <2>3. CASE ReadFails(c) \/ Unknown(c) \/ SendCancelled(c)
    BY <2>3 DEF ReadFails, Unknown, AfterUnknown, SendCancelled, ListenerUnchanged, Goto
  <2>4. CASE Send(c)
    <3>1. /\ ChannelFor(c) \in Types /\ Current(c) \in Streams
          /\ Len(chan[ChannelFor(c)]) < Cap /\ Cap \in Nat
          /\ chan[ChannelFor(c)] \in Seq(Streams)
      BY <2>4, CurrentIsStream, StreamsAre DEF Send, Room, ChannelFor, Taken, InHand
    <3>2. /\ Append(chan[ChannelFor(c)], Current(c)) \in Seq(Streams)
          /\ Len(Append(chan[ChannelFor(c)], Current(c))) <= Cap
      BY <3>1
    <3> QED BY <2>4, <3>1, <3>2 DEF Send, ListenerUnchanged, Goto
  <2>5. CASE SendPanics(c)
    BY <2>5 DEF SendPanics
  <2>6. CASE HandlerReturns(c)
    BY <2>6 DEF HandlerReturns, Goto
  <2> QED BY <1>3, <2>1, <2>2, <2>3, <2>4, <2>5, <2>6 DEF HandleConnection
<1>4. ASSUME NEW t \in Types, Serve(t) PROVE TypeOK'
  <2>1. CASE ServerLookup(t) \/ ServerStops(t)
    BY <2>1 DEF ServerLookup, ServerStops
  <2>2. CASE ServerReceives(t)
    <3>1. /\ Tail(chan[t]) \in Seq(Streams) /\ Len(Tail(chan[t])) <= Cap
          /\ Head(chan[t]) \in Streams
      BY <2>2, StreamsAre DEF ServerReceives
    <3> QED BY <2>2, <3>1 DEF ServerReceives
  <2> QED BY <1>4, <2>1, <2>2 DEF Serve
<1>5. CASE Close
  BY <1>5 DEF Close, CloseChannel, CloseConns, CloseRegistered, CloseSocket
<1>6. CASE CloseBegins
  BY <1>6 DEF CloseBegins
<1>7. CASE UNCHANGED vars
  BY <1>7 DEF vars
<1> QED BY <1>1, <1>2, <1>3, <1>4, <1>5, <1>6, <1>7 DEF Next, System

-----------------------------------------------------------------------------
(* The stream in hand *)

\* What a step does to one connection, its handler and its streams.
Same(c) ==
    /\ handler'[c] = handler[c] /\ taken'[c] = taken[c]
    /\ closer = "crashed" <=> closer' = "crashed"
    /\ \A i \in Positions(c) : fate'[<<c, i>>] = "pending" <=> fate[<<c, i>>] = "pending"
    /\ \A i \in Positions(c) : wire'[<<c, i>>] = "none" <=> wire[<<c, i>>] = "none"
    /\ opened'[c] = opened[c]

LEMMA SameKeeps ==
    ASSUME NEW c \in Conns, Taken(c), Decided(c), Same(c)
    PROVE  Taken(c)' /\ Decided(c)'
BY DEF Same, Taken, Decided, Positions, TypeOK, Current, TypeOf

\* The panic of one handler is the end of all.
LEMMA PanicStep ==
    ASSUME TypeOK, NEW c \in Conns, SendPanics(c), NEW q \in Conns, Taken(q)
    PROVE  Taken(q)' /\ Decided(q)'
BY DEF SendPanics, streamVars, TypeOK, Taken, Decided, InHand

LEMMA HandlerStep ==
    ASSUME TypeOK, NEW c \in Conns, Taken(c), Decided(c), HandleConnection(c)
    PROVE  Taken(c)' /\ Decided(c)'
<1> USE DEF ListenerUnchanged, listenerVars, streamVars, Goto
<1>t. /\ taken[c] \in Nat /\ opened[c] \in Nat /\ taken \in [Conns -> Nat]
      /\ handler \in [Conns -> Labels] /\ fate \in [Streams -> Fates]
      /\ Positions(c) \subseteq Nat
      /\ \A i \in Positions(c) : <<c, i>> \in Streams
  BY StreamsAre DEF TypeOK, Labels
<1>1. CASE TakeStream(c)
  <2>1. /\ handler[c] = "accept" /\ handler'[c] = "read"
        /\ taken'[c] = taken[c] + 1 /\ taken[c] < opened[c]
        /\ UNCHANGED <<closer, opened, wire, fate>>
    BY <1>t, <1>1 DEF TakeStream
  <2>2. Taken(c)'
    BY <1>t, <2>1 DEF Taken, InHand, TypeOf
  <2>3. Decided(c)'
    BY <1>t, <2>1 DEF Decided, InHand
  <2> QED BY <2>2, <2>3
<1>2. CASE TakeFails(c) \/ HandlerReturns(c)
  BY <1>t, <1>2 DEF TakeFails, HandlerReturns, Taken, Decided, InHand
<1>3. CASE ReadType(c) \/ Lookup(c)
  BY <1>t, <1>3 DEF ReadType, Lookup, Taken, Decided, InHand, Current, TypeOf
<1>4. CASE ReadFails(c) \/ Unknown(c) \/ Send(c) \/ SendCancelled(c)
  <2>1. /\ handler[c] \in InHand /\ handler'[c] \in {"accept", "exit"}
        /\ UNCHANGED <<closer, opened, wire, taken>>
    BY <1>t, <1>4 DEF ReadFails, Unknown, AfterUnknown, Send, SendCancelled, InHand
  <2>2. Taken(c)'
    BY <2>1 DEF Taken, InHand
  <2>3. PICK f \in {"queued", "dropped"} : fate' = [fate EXCEPT ![Current(c)] = f]
    BY <1>4 DEF ReadFails, Unknown, Send, SendCancelled
  <2>4. \A i \in Positions(c) :
            fate'[<<c, i>>] = IF i = taken[c] THEN f ELSE fate[<<c, i>>]
    BY <1>t, <2>3 DEF Current
  <2>5. Decided(c)'
    BY <1>t, <2>1, <2>3, <2>4 DEF Decided, InHand
  <2> QED BY <2>2, <2>5
<1> QED BY <1>1, <1>2, <1>3, <1>4 DEF HandleConnection

\* A handler has to do with its own connection and streams only.
LEMMA HandlerElsewhere ==
    ASSUME TypeOK, NEW c \in Conns, HandleConnection(c), NEW q \in Conns \ {c}
    PROVE  Same(q)
<1>1. /\ UNCHANGED <<closer, opened, wire>>
      /\ handler'[q] = handler[q] /\ taken'[q] = taken[q]
  BY DEF HandleConnection, TakeStream, TakeFails, ReadType, ReadFails, Lookup,
         Unknown, Send, SendCancelled, HandlerReturns, ListenerUnchanged,
         listenerVars, streamVars, Goto, TypeOK
<1>2. \/ UNCHANGED fate
      \/ \E f : fate' = [fate EXCEPT ![Current(c)] = f]
  BY DEF HandleConnection, TakeStream, TakeFails, ReadType, ReadFails, Lookup,
         Unknown, Send, SendCancelled, HandlerReturns
<1>3. \A i \in Positions(q) : fate'[<<q, i>>] = fate[<<q, i>>]
  BY <1>2, StreamsAre DEF Current, TypeOK
<1> QED BY <1>1, <1>3 DEF Same

\* What peers and the accept loop do.
LEMMA ArrivalStep ==
    ASSUME TypeOK, Peer \/ AcceptLoop, NEW q \in Conns, Taken(q), Decided(q)
    PROVE  Taken(q)' /\ Decided(q)'
<1> USE DEF listenerVars, streamVars, Goto
<1>t. /\ taken[q] \in Nat /\ opened[q] \in Nat /\ Len(StreamTypes[q]) \in Nat
      /\ opened \in [Conns -> Nat]
      /\ handler \in [Conns -> Labels] /\ DOMAIN wire = Streams
      /\ Positions(q) \subseteq Nat
      /\ \A i \in Positions(q) : <<q, i>> \in Streams
  BY StreamsAre DEF TypeOK, Labels
<1>1. ASSUME NEW c \in Conns, Connect(c) \/ ConnLost(c) PROVE Same(q)
  BY <1>1 DEF Connect, ConnLost, Same
<1>2. ASSUME NEW s \in Streams, TypeArrives(s) \/ Reset(s) PROVE Same(q)
  BY <1>t, <1>2 DEF TypeArrives, Reset, Same
<1>3. ASSUME NEW c \in Conns, OpenStream(c) PROVE Taken(q)' /\ Decided(q)'
  <2>1. /\ UNCHANGED <<closer, handler, taken, fate>>
        /\ opened' = [opened EXCEPT ![c] = @ + 1]
        /\ opened[c] < Len(StreamTypes[c])
        /\ wire' = [wire EXCEPT ![<<c, opened[c] + 1>>] = "announced"]
    BY <1>3 DEF OpenStream
  <2>2. CASE c = q
    <3>1. opened'[q] = opened[q] + 1
      BY <1>t, <2>1, <2>2
    <3>2. \A i \in Positions(q) : i > opened[q] + 1 => wire'[<<q, i>>] = wire[<<q, i>>]
      BY <1>t, <2>1, <2>2
    <3>3. Taken(q)'
      BY <1>t, <2>1, <2>2, <3>1, <3>2 DEF Taken, Current, TypeOf, Positions
    <3> QED BY <2>1, <3>3 DEF Decided
  <2>3. CASE c # q
    <3>1. Same(q)
      BY <1>t, <2>1, <2>3 DEF Same
    <3> QED BY <3>1, SameKeeps
  <2> QED BY <2>2, <2>3
<1>4. CASE AcceptLoop
  <2>1. /\ UNCHANGED <<closer, opened, taken, wire, fate>>
        /\ \/ handler'[q] = handler[q]
           \/ handler[q] = "none" /\ handler'[q] = "held"
           \/ handler[q] = "held" /\ handler'[q] \in {"accept", "gone"}
    BY <1>t, <1>4 DEF AcceptLoop, Accept, AcceptFails, Register, Refuse
  <2> QED BY <1>t, <2>1 DEF Taken, Decided, InHand, Current, TypeOf
<1> QED BY <1>1, <1>2, <1>3, <1>4, SameKeeps DEF Peer

\* What servers and Close do.
LEMMA ServiceStep ==
    ASSUME TypeOK, RouterInv, Close \/ CloseBegins \/ (\E t \in Types : Serve(t)),
           NEW q \in Conns, Taken(q), Decided(q)
    PROVE  Taken(q)' /\ Decided(q)'
<1> USE DEF listenerVars, streamVars
<1>1. CASE Close \/ CloseBegins
  <2>1. Same(q)
    BY <1>1 DEF Close, CloseBegins, CloseChannel, CloseConns, CloseSocket, Same
  <2> QED BY <2>1, SameKeeps
<1>2. ASSUME NEW t \in Types, Serve(t) PROVE Same(q)
  <2>1. CASE ServerLookup(t) \/ ServerStops(t)
    BY <2>1 DEF ServerLookup, ServerStops, Same
  <2>2. CASE ServerReceives(t)
    <3>1. /\ chan[t] \in Seq(Streams) /\ chan[t] # <<>>
          /\ fate' = [fate EXCEPT ![Head(chan[t])] = "delivered"]
          /\ UNCHANGED <<closer, handler, taken, opened, wire>>
      BY <2>2 DEF ServerReceives, TypeOK
    <3>2. 1 \in DOMAIN chan[t] /\ Head(chan[t]) = chan[t][1]
      BY <3>1, EmptySeq, LenProperties
    <3>3. fate[Head(chan[t])] = "queued"
      BY <3>2 DEF RouterInv, Router!QueuesInOrder
    <3>4. \A s \in Streams : fate'[s] = "pending" <=> fate[s] = "pending"
      BY <3>1, <3>3 DEF TypeOK
    <3> QED BY <3>1, <3>4, StreamsAre DEF Same
  <2> QED BY <1>2, <2>1, <2>2 DEF Serve
<1> QED BY <1>1, <1>2, SameKeeps

-----------------------------------------------------------------------------
(* The router *)

LEMMA SameStreams ==
    /\ Router!Streams = Streams
    /\ \A s : Router!TypeOf(s) = TypeOf(s)
<1>1. Router!Streams = Streams
  BY ListenerAssumption DEF Router!Streams, Streams
<1> QED BY <1>1 DEF Router!TypeOf, TypeOf

\* The stream in hand is the next of its connection to be decided.
LEMMA CurrentIsDue ==
    ASSUME TypeOK, NEW c \in Conns, Taken(c), Decided(c), handler[c] \in InHand
    PROVE  Current(c) \in Streams /\ Router!Due(Current(c))
<1>1. Current(c) \in Streams /\ taken[c] \in Positions(c)
  BY CurrentIsStream
<1>2. fate[Current(c)] = "pending"
  BY <1>1 DEF Decided, Current, InHand
<1>3. ASSUME NEW e \in Router!Earlier(Current(c)) PROVE fate[e] # "pending"
  <2>1. /\ e \in Streams /\ e[1] = c /\ e[2] < taken[c]
        /\ e[2] \in Positions(c) /\ e = <<c, e[2]>>
    BY SameStreams, StreamsAre DEF Router!Earlier, Current
  <2>2. /\ e[2] \in Nat /\ taken[c] \in Nat /\ ~(e[2] > taken[c]) /\ e[2] # taken[c]
    BY <2>1, StreamsAre DEF TypeOK
  <2> QED BY <2>1, <2>2 DEF Decided, InHand
<1> QED BY <1>1, <1>2, <1>3 DEF Router!Due

LEMMA RouterRefines ==
    ASSUME TypeOK, \A c \in Conns : Taken(c) /\ Decided(c), [Next]_vars
    PROVE  [Router!Next]_<<chan, fate>>
<1> USE DEF ListenerUnchanged
<1>1. CASE Peer \/ AcceptLoop \/ Close \/ CloseBegins
  BY <1>1 DEF Peer, Connect, OpenStream, ConnLost, TypeArrives, Reset,
              AcceptLoop, Accept, AcceptFails, Register, Refuse, Close,
              CloseBegins, CloseChannel, CloseConns, CloseSocket
<1>2. ASSUME NEW c \in Conns, HandleConnection(c) \/ SendPanics(c)
      PROVE  [Router!Next]_<<chan, fate>>
  <2>1. CASE TakeStream(c) \/ TakeFails(c) \/ ReadType(c) \/ Lookup(c)
             \/ HandlerReturns(c) \/ SendPanics(c)
    BY <2>1 DEF TakeStream, TakeFails, ReadType, Lookup, HandlerReturns, SendPanics
  <2>2. CASE ReadFails(c) \/ Unknown(c) \/ SendCancelled(c)
    <3>1. Current(c) \in Streams /\ Router!Due(Current(c))
      BY <2>2, CurrentIsDue DEF ReadFails, Unknown, SendCancelled, InHand
    <3>2. Router!Drop(Current(c))
      BY <2>2, <3>1 DEF ReadFails, Unknown, SendCancelled, Router!Drop
    <3> QED BY <3>1, <3>2, SameStreams DEF Router!Next
  <2>3. CASE Send(c)
    <3>1. Current(c) \in Streams /\ Router!Due(Current(c))
      BY <2>3, CurrentIsDue DEF Send, InHand
    <3>2. Router!Route(Current(c))
      BY <2>3, <3>1, SameStreams DEF Send, Room, ChannelFor, Taken, Router!Route
    <3> QED BY <3>1, <3>2, SameStreams DEF Router!Next
  <2> QED BY <1>2, <2>1, <2>2, <2>3 DEF HandleConnection
<1>3. ASSUME NEW t \in Types, Serve(t) PROVE [Router!Next]_<<chan, fate>>
  <2>1. CASE ServerLookup(t) \/ ServerStops(t)
    BY <2>1 DEF ServerLookup, ServerStops
  <2>2. CASE ServerReceives(t)
    BY <2>2 DEF ServerReceives, Router!Deliver, Router!Next
  <2> QED BY <1>3, <2>1, <2>2 DEF Serve
<1>4. CASE UNCHANGED vars
  BY <1>4 DEF vars
<1> QED BY <1>1, <1>2, <1>3, <1>4 DEF Next, System

\* A router keeps its queues in order.
LEMMA RouterStep ==
    ASSUME TypeOK, RouterInv, [Router!Next]_<<chan, fate>>
    PROVE  RouterInv'
<1> USE DEF RouterInv
<1>t. /\ chan \in [Types -> Seq(Streams)] /\ fate \in [Streams -> Fates]
      /\ Router!Streams = Streams
      /\ \A s : Router!TypeOf(s) = TypeOf(s)
      /\ \A s \in Streams : s[2] \in Nat
      /\ \A t \in Types : Len(chan[t]) \in Nat /\ DOMAIN chan[t] = 1 .. Len(chan[t])
      /\ \A t \in Types : \A i \in DOMAIN chan[t] : chan[t][i] \in Streams
  <2>1. chan \in [Types -> Seq(Streams)] /\ fate \in [Streams -> Fates]
    BY DEF TypeOK
  <2>2. /\ \A t \in Types : Len(chan[t]) \in Nat /\ DOMAIN chan[t] = 1 .. Len(chan[t])
        /\ \A t \in Types : \A i \in DOMAIN chan[t] : chan[t][i] \in Streams
    BY <2>1, LenProperties, ElementOfSeq
  <2>3. \A s \in Streams : s[2] \in Nat
    BY StreamsAre
  <2> QED BY <2>1, <2>2, <2>3, SameStreams
<1>d. ASSUME NEW s \in Streams, Router!Due(s), NEW f \in {"queued", "dropped"},
             fate' = [fate EXCEPT ![s] = f]
      PROVE  RoutedInOrder'
  <2>1. \A e \in Streams : fate'[e] = IF e = s THEN f ELSE fate[e]
    BY <1>t, <1>d
  <2> SUFFICES ASSUME NEW u \in Streams, fate'[u] # "pending",
                      NEW e \in Router!Earlier(u)
               PROVE  fate'[e] # "pending"
    BY DEF RoutedInOrder, Router!Earlier
  <2>2. e \in Streams
    BY <1>t DEF Router!Earlier
  <2>3. CASE u = s
    BY <1>d, <2>1, <2>2, <2>3 DEF Router!Due
  <2>4. CASE u # s
    BY <2>1, <2>2, <2>4 DEF RoutedInOrder
  <2> QED BY <2>3, <2>4
<1>1. ASSUME NEW s \in Streams, Router!Route(s) PROVE RouterInv'
  <2>1. /\ Router!Due(s) /\ TypeOf(s) \in Types /\ fate[s] = "pending"
        /\ chan' = [chan EXCEPT ![TypeOf(s)] = Append(@, s)]
        /\ fate' = [fate EXCEPT ![s] = "queued"]
    BY <1>t, <1>1 DEF Router!Route, Router!Due
  <2>2. RoutedInOrder'
    BY <1>d, <2>1
  <2>3. PICK n \in Nat : n = Len(chan[TypeOf(s)])
    BY <1>t, <2>1
  <2>4. /\ DOMAIN chan'[TypeOf(s)] = DOMAIN chan[TypeOf(s)] \cup {n + 1}
        /\ DOMAIN chan[TypeOf(s)] = 1 .. n
        /\ \A i \in DOMAIN chan[TypeOf(s)] : chan'[TypeOf(s)][i] = chan[TypeOf(s)][i]
        /\ chan'[TypeOf(s)][n + 1] = s
    <3>1. chan[TypeOf(s)] \in Seq(Streams) /\ chan'[TypeOf(s)] = Append(chan[TypeOf(s)], s)
      BY <1>t, <2>1
    <3>2. /\ Len(Append(chan[TypeOf(s)], s)) = n + 1
          /\ Append(chan[TypeOf(s)], s) \in Seq(Streams)
          /\ \A i \in 1 .. n : Append(chan[TypeOf(s)], s)[i] = chan[TypeOf(s)][i]
          /\ Append(chan[TypeOf(s)], s)[n + 1] = s
      BY <2>3, <3>1, AppendProperties
    <3>3. DOMAIN chan'[TypeOf(s)] = 1 .. n + 1 /\ DOMAIN chan[TypeOf(s)] = 1 .. n
      BY <1>t, <2>1, <2>3, <3>1, <3>2, LenProperties
    <3> QED BY <2>3, <3>1, <3>2, <3>3
  <2>5. ASSUME NEW u \in Streams, fate[u] = "queued", u[1] = s[1]
        PROVE  u[2] < s[2]
    <3>1. u # s /\ s \notin Router!Earlier(u)
      BY <2>1, <2>5 DEF RoutedInOrder
    <3>2. u[2] # s[2]
      BY <2>5, <3>1, StreamsAre
    <3> QED BY <1>t, <2>5, <3>1, <3>2 DEF Router!Earlier
  <2>6. ASSUME NEW t \in Types
        PROVE  /\ \A i \in DOMAIN chan'[t] :
                      TypeOf(chan'[t][i]) = t /\ fate'[chan'[t][i]] = "queued"
               /\ \A i, j \in DOMAIN chan'[t] :
                      i < j /\ chan'[t][i][1] = chan'[t][j][1]
                          => chan'[t][i][2] < chan'[t][j][2]
    <3>1. /\ \A i \in DOMAIN chan[t] :
                 TypeOf(chan[t][i]) = t /\ fate[chan[t][i]] = "queued"
          /\ \A i, j \in DOMAIN chan[t] :
                 i < j /\ chan[t][i][1] = chan[t][j][1]
                     => chan[t][i][2] < chan[t][j][2]
      BY <1>t DEF Router!QueuesInOrder
    <3>2. \A u \in Streams : fate[u] = "queued" => fate'[u] = "queued"
      BY <1>t, <2>1
    <3>3. CASE t # TypeOf(s)
      <4>1. chan'[t] = chan[t]
        BY <1>t, <2>1, <3>3
      <4> QED BY <1>t, <3>1, <3>2, <4>1
    <3>4. CASE t = TypeOf(s)
      <4>1. fate'[s] = "queued"
        BY <1>t, <2>1
      <4>2. \A i \in DOMAIN chan'[t] :
                TypeOf(chan'[t][i]) = t /\ fate'[chan'[t][i]] = "queued"
        BY <1>t, <2>4, <3>1, <3>2, <3>4, <4>1
      <4>3. ASSUME NEW i \in DOMAIN chan'[t], NEW j \in DOMAIN chan'[t],
                   i < j, chan'[t][i][1] = chan'[t][j][1]
            PROVE  chan'[t][i][2] < chan'[t][j][2]
        <5>1. i \in DOMAIN chan[t] /\ chan'[t][i] = chan[t][i] /\ chan[t][i] \in Streams
          BY <1>t, <2>3, <2>4, <3>4, <4>3
        <5>2. CASE j \in DOMAIN chan[t]
          BY <2>4, <3>1, <3>4, <4>3, <5>1, <5>2
        <5>3. CASE j = n + 1
          BY <2>4, <2>5, <3>1, <3>4, <4>3, <5>1, <5>3
        <5> QED BY <2>4, <3>4, <5>2, <5>3
      <4> QED BY <4>2, <4>3
    <3> QED BY <3>3, <3>4
  <2>7. Router!QueuesInOrder'
    BY <1>t, <2>6 DEF Router!QueuesInOrder
  <2> QED BY <2>2, <2>7
<1>2. ASSUME NEW s \in Streams, Router!Drop(s) PROVE RouterInv'
  <2>1. /\ Router!Due(s) /\ fate[s] = "pending" /\ UNCHANGED chan
        /\ fate' = [fate EXCEPT ![s] = "dropped"]
    BY <1>2 DEF Router!Drop, Router!Due
  <2>2. RoutedInOrder'
    BY <1>d, <2>1
  <2>3. \A u \in Streams : fate[u] = "queued" => fate'[u] = "queued"
    BY <1>t, <2>1
  <2>4. Router!QueuesInOrder'
    BY <1>t, <2>1, <2>3 DEF Router!QueuesInOrder
  <2> QED BY <2>2, <2>4
<1>3. ASSUME NEW t \in Types, Router!Deliver(t) PROVE RouterInv'
  <2>1. /\ chan[t] # <<>> /\ chan[t] \in Seq(Streams)
        /\ chan' = [chan EXCEPT ![t] = Tail(@)]
        /\ fate' = [fate EXCEPT ![Head(chan[t])] = "delivered"]
    BY <1>t, <1>3 DEF Router!Deliver
  <2>2. PICK n \in Nat : n = Len(chan[t])
    BY <1>t
  <2>3. /\ DOMAIN chan[t] = 1 .. n /\ 1 \in DOMAIN chan[t] /\ Head(chan[t]) = chan[t][1]
        /\ DOMAIN chan'[t] = 1 .. n - 1
        /\ \A i \in 1 .. n - 1 : chan'[t][i] = chan[t][i + 1]
    <3>1. chan'[t] = Tail(chan[t])
      BY <1>t, <2>1
    <3>2. /\ Tail(chan[t]) \in Seq(Streams) /\ Len(Tail(chan[t])) = n - 1
          /\ Head(chan[t]) = chan[t][1]
          /\ \A i \in 1 .. Len(Tail(chan[t])) : Tail(chan[t])[i] = chan[t][i + 1]
      BY <2>1, <2>2, HeadTailProperties
    <3>3. DOMAIN Tail(chan[t]) = 1 .. n - 1
      BY <3>2, LenProperties
    <3>4. n > 0
      BY <2>1, <2>2, EmptySeq
    <3> QED BY <1>t, <2>2, <3>1, <3>2, <3>3, <3>4
  <2>4. chan[t][1] \in Streams /\ fate[chan[t][1]] = "queued" /\ TypeOf(chan[t][1]) = t
    BY <1>t, <2>3 DEF Router!QueuesInOrder
  <2>5. \A u \in Streams : fate'[u] = IF u = chan[t][1] THEN "delivered" ELSE fate[u]
    BY <1>t, <2>1, <2>3
  <2>6. RoutedInOrder'
    BY <1>t, <2>4, <2>5 DEF RoutedInOrder, Router!Earlier
  <2>7. ASSUME NEW k \in Types
        PROVE  /\ \A i \in DOMAIN chan'[k] :
                      TypeOf(chan'[k][i]) = k /\ fate'[chan'[k][i]] = "queued"
               /\ \A i, j \in DOMAIN chan'[k] :
                      i < j /\ chan'[k][i][1] = chan'[k][j][1]
                          => chan'[k][i][2] < chan'[k][j][2]
    <3>1. /\ \A i \in DOMAIN chan[k] :
                 TypeOf(chan[k][i]) = k /\ fate[chan[k][i]] = "queued"
          /\ \A i, j \in DOMAIN chan[k] :
                 i < j /\ chan[k][i][1] = chan[k][j][1]
                     => chan[k][i][2] < chan[k][j][2]
      BY <1>t DEF Router!QueuesInOrder
    <3>2. CASE k # t
      <4>1. chan'[k] = chan[k]
        BY <1>t, <2>1, <3>2
      <4>2. \A i \in DOMAIN chan[k] : chan[k][i] # chan[t][1]
        BY <2>4, <3>1, <3>2
      <4> QED BY <1>t, <2>5, <3>1, <4>1, <4>2
    <3>3. CASE k = t
      <4>1. \A i \in DOMAIN chan'[k] :
                i + 1 \in DOMAIN chan[k] /\ chan'[k][i] = chan[k][i + 1] /\ i \in Nat /\ i > 0
        <5>1. \A i \in 1 .. n - 1 : i + 1 \in 1 .. n /\ i \in Nat /\ i > 0
          BY <2>2
        <5> QED BY <2>3, <3>3, <5>1
      <4>2. \A i \in DOMAIN chan[k] : i > 1 => chan[k][i] # chan[k][1]
        <5>1. \A i \in DOMAIN chan[k] : chan[k][i] \in Streams
          BY <1>t
        <5>2. \A i \in DOMAIN chan[k] : chan[k][i][2] \in Nat
          BY <1>t, <5>1
        <5> QED BY <2>3, <3>1, <3>3, <5>2
      <4>3. \A i \in DOMAIN chan'[k] :
                TypeOf(chan'[k][i]) = k /\ fate'[chan'[k][i]] = "queued"
        BY <1>t, <2>5, <3>1, <3>3, <4>1, <4>2
      <4>4. ASSUME NEW i \in DOMAIN chan'[k], NEW j \in DOMAIN chan'[k],
                   i < j, chan'[k][i][1] = chan'[k][j][1]
            PROVE  chan'[k][i][2] < chan'[k][j][2]
        <5>1. /\ i + 1 \in DOMAIN chan[k] /\ j + 1 \in DOMAIN chan[k] /\ i + 1 < j + 1
              /\ chan'[k][i] = chan[k][i + 1] /\ chan'[k][j] = chan[k][j + 1]
          BY <4>1, <4>4
        <5> QED BY <3>1, <4>4, <5>1
      <4> QED BY <4>3, <4>4
    <3> QED BY <3>2, <3>3
  <2>8. Router!QueuesInOrder'
    BY <1>t, <2>7 DEF Router!QueuesInOrder
  <2> QED BY <2>6, <2>8
<1>4. CASE UNCHANGED <<chan, fate>>
  BY <1>4 DEF RoutedInOrder, Router!QueuesInOrder, Router!Earlier
<1> QED BY <1>t, <1>1, <1>2, <1>3, <1>4 DEF Router!Next

LEMMA ListenerInit == Init => ListenerInv
<1> SUFFICES ASSUME Init PROVE ListenerInv
  OBVIOUS
<1>1. TypeOK
  BY TypeInit
<1>2. ASSUME NEW c \in Conns PROVE Taken(c) /\ Decided(c)
  BY StreamsAre DEF Init, Taken, Decided, InHand, Positions
<1>3. RouterInv
  <2>1. \A t \in Types : DOMAIN chan[t] = {}
    BY DEF Init
  <2> QED BY <2>1 DEF Init, RouterInv, RoutedInOrder, Router!QueuesInOrder
<1> QED BY <1>1, <1>2, <1>3 DEF ListenerInv

LEMMA ListenerStep == ListenerInv /\ [Next]_vars => ListenerInv'
<1> SUFFICES ASSUME ListenerInv, [Next]_vars PROVE ListenerInv'
  OBVIOUS
<1>t. TypeOK /\ RouterInv /\ \A c \in Conns : Taken(c) /\ Decided(c)
  BY DEF ListenerInv
<1>1. TypeOK'
  BY <1>t, TypeStep
<1>2. RouterInv'
  BY <1>t, RouterRefines, RouterStep
<1>3. ASSUME NEW q \in Conns PROVE Taken(q)' /\ Decided(q)'
  <2>t. Taken(q) /\ Decided(q)
    BY <1>t
  <2>1. CASE Peer \/ AcceptLoop
    BY <1>t, <2>t, <2>1, ArrivalStep
  <2>2. CASE Close \/ CloseBegins \/ (\E t \in Types : Serve(t))
    BY <1>t, <2>t, <2>2, ServiceStep
  <2>3. ASSUME NEW c \in Conns, HandleConnection(c) PROVE Taken(q)' /\ Decided(q)'
    <3>1. CASE q = c
      BY <1>t, <2>t, <2>3, <3>1, HandlerStep
    <3>2. CASE q # c
      <4>1. Same(q)
        BY <1>t, <2>3, <3>2, HandlerElsewhere
      <4> QED BY <2>t, <4>1, SameKeeps
    <3> QED BY <3>1, <3>2
  <2>4. ASSUME NEW c \in Conns, SendPanics(c) PROVE Taken(q)' /\ Decided(q)'
    BY <1>t, <2>t, <2>4, PanicStep
  <2>5. CASE UNCHANGED vars
    <3>1. Same(q)
      BY <2>5 DEF vars, listenerVars, streamVars, Same
    <3> QED BY <2>t, <3>1, SameKeeps
  <2> QED BY <2>1, <2>2, <2>3, <2>4, <2>5 DEF Next, System
<1> QED BY <1>1, <1>2, <1>3 DEF ListenerInv

-----------------------------------------------------------------------------
(* Close *)

\* A connection that ended stays so, and so does a stream that was reset.
LEMMA EndsStay ==
    ASSUME ListenerInv, [Next]_vars, NEW q \in Conns
    PROVE  /\ quic[q] = "closed" => quic'[q] = "closed"
           /\ Spoilt(q) => Spoilt(q)'
           /\ Cancelled => Cancelled'
<1> DEFINE Goal == /\ quic[q] = "closed" => quic'[q] = "closed"
                   /\ \A s \in Streams : wire[s] = "reset" => wire'[s] = "reset"
                   /\ Cancelled => Cancelled'
<1> SUFFICES Goal
  BY DEF Spoilt
<1> USE DEF TypeOK, listenerVars, streamVars, Cancelled
<1>t. TypeOK
  BY DEF ListenerInv
<1>1. ASSUME NEW c \in Conns, Connect(c) \/ ConnLost(c) PROVE Goal
  BY <1>t, <1>1 DEF Connect, ConnLost
<1>2. ASSUME NEW s \in Streams, TypeArrives(s) \/ Reset(s) PROVE Goal
  BY <1>t, <1>2 DEF TypeArrives, Reset
<1>3. ASSUME NEW c \in Conns, OpenStream(c) PROVE Goal
  <2>1. opened[c] \in Nat /\ opened[c] < Len(StreamTypes[c]) /\ Len(StreamTypes[c]) \in Nat
    BY <1>t, <1>3, StreamsAre DEF OpenStream
  <2>2. opened[c] + 1 \in Positions(c) /\ opened[c] + 1 > opened[c]
    BY <2>1 DEF Positions
  <2>3. wire[<<c, opened[c] + 1>>] = "none"
    BY <2>2 DEF ListenerInv, Taken
  <2> QED BY <1>t, <1>3, <2>3 DEF OpenStream
<1>4. CASE AcceptLoop
  BY <1>t, <1>4 DEF AcceptLoop, Accept, AcceptFails, Register, Refuse
<1>5. ASSUME NEW c \in Conns, HandleConnection(c) \/ SendPanics(c) PROVE Goal
  <2>1. CASE HandleConnection(c)
    BY <2>1 DEF HandleConnection, TakeStream, TakeFails, ReadType, ReadFails,
                Lookup, Unknown, Send, SendCancelled, HandlerReturns,
                ListenerUnchanged
  <2>2. CASE SendPanics(c)
    BY <2>2 DEF SendPanics
  <2> QED BY <1>5, <2>1, <2>2
<1>6. ASSUME NEW t \in Types, Serve(t) PROVE Goal
  BY <1>6 DEF Serve, ServerLookup, ServerReceives, ServerStops
<1>7. CASE Close \/ CloseBegins
  BY <1>t, <1>7 DEF Close, CloseBegins, CloseChannel, CloseConns, CloseRegistered,
                    CloseSocket
<1>8. CASE UNCHANGED vars
  BY <1>8 DEF vars
<1> QED BY <1>1, <1>2, <1>3, <1>4, <1>5, <1>6, <1>7, <1>8 DEF Next, Peer, System

\* How the handler of a connection moves.
Stays(c) == handler'[c] = handler[c] /\ (c \in conns => c \in conns')
Starts(c) ==
    \/ handler[c] = "none" /\ handler'[c] = "held"
    \/ /\ handler[c] = "held" /\ handler'[c] = "accept" /\ c \in conns'
       /\ closer' = "open"
    \/ handler[c] = "held" /\ handler'[c] = "gone" /\ quic'[c] = "closed"
Works(c) ==
    /\ handler[c] \in InHand \cup {"accept"}
    /\ handler'[c] \in InHand \cup {"accept"}
    /\ UNCHANGED conns
Exits(c) ==
    /\ handler[c] \in InHand \cup {"accept"} /\ handler'[c] = "exit"
    /\ UNCHANGED conns
    /\ quic[c] = "closed" \/ Spoilt(c) \/ Cancelled
Returns(c) == handler[c] = "exit" /\ handler'[c] = "gone" /\ ~Locked

LEMMA HandlerMoves ==
    ASSUME ListenerInv, [Next]_vars, NEW q \in Conns
    PROVE  \/ Stays(q) \/ Starts(q) \/ Works(q) \/ Exits(q) \/ Returns(q)
           \/ handler'[q] = "dead"
<1> DEFINE Goal == \/ Stays(q) \/ Starts(q) \/ Works(q) \/ Exits(q) \/ Returns(q)
                   \/ handler'[q] = "dead"
<1> USE DEF listenerVars, streamVars, Goto
<1>t. TypeOK /\ handler \in [Conns -> Labels]
  BY DEF ListenerInv, TypeOK, Labels
<1>1. CASE Peer
  BY <1>1 DEF Peer, Connect, OpenStream, ConnLost, TypeArrives, Reset, Stays
<1>2. CASE AcceptLoop
  <2>1. CASE AcceptFails
    BY <2>1 DEF AcceptFails, Stays
  <2>2. ASSUME NEW c \in Conns, Accept(c) \/ Register(c) \/ Refuse(c) PROVE Goal
    BY <1>t, <2>2 DEF Accept, Register, Refuse, Stays, Starts, Cancelled, TypeOK
  <2> QED BY <1>2, <2>1, <2>2 DEF AcceptLoop
<1>3. ASSUME NEW c \in Conns, HandleConnection(c) PROVE Goal
  <2>1. CASE c # q
    <3>1. handler'[q] = handler[q] /\ (q \in conns => q \in conns')
      BY <1>t, <1>3, <2>1 DEF HandleConnection, TakeStream, TakeFails, ReadType,
          ReadFails, Lookup, Unknown, Send, SendCancelled, HandlerReturns,
          ListenerUnchanged
    <3> QED BY <3>1 DEF Stays
  <2>2. CASE c = q /\ (TakeStream(c) \/ ReadType(c) \/ Lookup(c) \/ Unknown(c) \/ Send(c))
    BY <1>t, <2>2 DEF TakeStream, ReadType, Lookup, Unknown, AfterUnknown, Send,
                      ListenerUnchanged, Works, InHand
  <2>3. CASE c = q /\ (TakeFails(c) \/ SendCancelled(c))
    BY <1>t, <2>3 DEF TakeFails, SendCancelled, GiveUp, ListenerUnchanged, Exits, InHand
  <2>4. CASE c = q /\ ReadFails(c)
    <3>1. /\ handler[q] = "read" /\ handler'[q] = "exit" /\ UNCHANGED conns
          /\ wire[Current(q)] = "reset" \/ quic[q] = "closed"
      BY <1>t, <2>4 DEF ReadFails, ListenerUnchanged
    <3>2. Current(q) \in Streams
      BY <1>t, <3>1, CurrentIsStream DEF ListenerInv, InHand
    <3>3. Current(q)[1] = q
      BY DEF Current
    <3>4. wire[Current(q)] = "reset" => Spoilt(q)
      BY <3>2, <3>3 DEF Spoilt
    <3> QED BY <3>1, <3>4 DEF Exits, InHand
  <2>5. CASE c = q /\ HandlerReturns(c)
    BY <1>t, <2>5 DEF HandlerReturns, Returns
  <2> QED BY <1>3, <2>1, <2>2, <2>3, <2>4, <2>5 DEF HandleConnection
<1>4. ASSUME NEW c \in Conns, SendPanics(c) PROVE Goal
  BY <1>4 DEF SendPanics
<1>5. CASE Close \/ CloseBegins \/ (\E t \in Types : Serve(t))
  BY <1>5 DEF Close, CloseBegins, CloseChannel, CloseConns, CloseSocket, Serve,
              ServerLookup, ServerReceives, ServerStops, Stays
<1>6. CASE UNCHANGED vars
  BY <1>6 DEF vars, Stays
<1> QED BY <1>1, <1>2, <1>3, <1>4, <1>5, <1>6 DEF Next, System

\* Only CloseConns lets go of l.mu, with the registered connections closed.
LEMMA CloserMoves ==
    ASSUME ListenerInv, [Next]_vars, closer' \in {"unlocked", "done"}
    PROVE  \/ closer \in {"unlocked", "done"}
           \/ /\ closer = "closing"
              /\ \A c \in conns : quic'[c] = "closed"
              /\ UNCHANGED <<handler, conns, wire>>
<1> USE DEF listenerVars, streamVars
<1>1. CASE Peer \/ AcceptLoop \/ CloseBegins
  BY <1>1 DEF Peer, Connect, OpenStream, ConnLost, TypeArrives, Reset,
              AcceptLoop, Accept, AcceptFails, Register, Refuse, CloseBegins
<1>2. ASSUME NEW c \in Conns, HandleConnection(c) \/ SendPanics(c)
      PROVE  closer \in {"unlocked", "done"}
  BY <1>2 DEF HandleConnection, TakeStream, TakeFails, ReadType, ReadFails, Lookup,
         Unknown, Send, SendCancelled, HandlerReturns, ListenerUnchanged, SendPanics
<1>3. ASSUME NEW t \in Types, Serve(t) PROVE closer \in {"unlocked", "done"}
  BY <1>3 DEF Serve, ServerLookup, ServerReceives, ServerStops
<1>4. CASE Close
  BY <1>4 DEF Close, CloseChannel, CloseConns, CloseRegistered, CloseSocket,
              ListenerInv, TypeOK
<1>5. CASE UNCHANGED vars
  BY <1>5 DEF vars
<1> QED BY <1>1, <1>2, <1>3, <1>4, <1>5 DEF Next, System

LEMMA ClosedStep == ClosedInv /\ [Next]_vars => ClosedInv'
<1> SUFFICES ASSUME ClosedInv, [Next]_vars PROVE ClosedInv'
  OBVIOUS
<1>t. ListenerInv /\ ListenerInv'
  BY ListenerStep DEF ClosedInv
<1>1. ASSUME NEW c \in Conns
      PROVE  /\ Closable(c)'
             /\ closer' \in {"unlocked", "done"} /\ handler'[c] \notin {"none", "held"}
                    => quic'[c] = "closed" \/ Spoilt(c)'
  <2>1. /\ quic[c] = "closed" => quic'[c] = "closed"
        /\ Spoilt(c) => Spoilt(c)'
        /\ Cancelled => Cancelled'
    BY <1>t, EndsStay
  <2>2. /\ handler'[c] = "dead" <=> closer' = "crashed"
        /\ handler[c] = "dead" <=> closer = "crashed"
        /\ handler[c] \in Labels
        /\ closer \in {"open", "closing", "unlocked", "done", "crashed"}
    BY <1>t DEF ListenerInv, Taken, TypeOK, Labels
  <2>3. /\ Closable(c)
        /\ closer \in {"unlocked", "done"} /\ handler[c] \notin {"none", "held"}
               => quic[c] = "closed" \/ Spoilt(c)
    BY DEF ClosedInv, AllConnsClosed
  <2>4. Closable(c)'
    <3>1. CASE Stays(c)
      BY <2>1, <2>3, <3>1 DEF Stays, Closable
    <3>2. CASE Starts(c)
      BY <3>2 DEF Starts, Closable, InHand
    <3>3. CASE Works(c)
      BY <2>3, <3>3 DEF Works, Closable, InHand
    <3>4. CASE Exits(c)
      BY <2>1, <2>3, <3>4 DEF Exits, Closable, InHand
    <3>5. CASE Returns(c)
      BY <2>1, <2>2, <2>3, <3>5 DEF Returns, Closable, Locked, Cancelled, InHand
    <3>6. CASE handler'[c] = "dead"
      BY <3>6 DEF Closable, InHand
    <3> QED BY <1>t, <3>1, <3>2, <3>3, <3>4, <3>5, <3>6, HandlerMoves
  <2>5. ASSUME closer' \in {"unlocked", "done"}, handler'[c] \notin {"none", "held"}
        PROVE  quic'[c] = "closed" \/ Spoilt(c)'
    <3>1. handler'[c] # "dead"
      BY <2>2, <2>5
    <3>2. CASE closer \in {"unlocked", "done"}
      <4>1. CASE handler[c] \notin {"none", "held"}
        BY <2>1, <2>3, <3>2, <4>1
      <4>2. CASE handler[c] \in {"none", "held"}
        BY <1>t, <2>5, <3>1, <4>2, HandlerMoves
           DEF Stays, Starts, Works, Exits, Returns, InHand
      <4> QED BY <4>1, <4>2
    <3>3. CASE /\ closer = "closing"
               /\ \A k \in conns : quic'[k] = "closed"
               /\ UNCHANGED <<handler, conns, wire>>
      <4>1. handler[c] \notin {"none", "held", "dead"}
        BY <2>5, <3>1, <3>3
      <4>2. c \in conns \/ handler[c] = "gone"
        BY <2>2, <2>3, <4>1 DEF Closable, InHand, Labels
      <4> QED BY <2>1, <2>3, <3>3, <4>2 DEF Closable
    <3> QED BY <1>t, <2>5, <3>2, <3>3, CloserMoves
  <2> QED BY <2>4, <2>5
<1> QED BY <1>t, <1>1 DEF ClosedInv, AllConnsClosed

-----------------------------------------------------------------------------
(* Theorems *)

\* Every variable keeps its type, and a full channel makes the handlers wait:
\* mux_listener.go:46.
THEOREM TypeCorrect == Spec => []TypeOK
<1>1. Init => ListenerInv
  BY ListenerInit
<1>2. ListenerInv /\ [Next]_vars => ListenerInv'
  BY ListenerStep
<1>3. ListenerInv => TypeOK
  BY DEF ListenerInv
<1> QED BY <1>1, <1>2, <1>3, PTL DEF Spec

\* The streams that wait for a server are of its type, in the order in which
\* their connection opened them, and each waits once.
THEOREM QueuesCorrect == Spec => []Router!QueuesInOrder
<1>1. Init => ListenerInv
  BY ListenerInit
<1>2. ListenerInv /\ [Next]_vars => ListenerInv'
  BY ListenerStep
<1>3. ListenerInv => Router!QueuesInOrder
  BY DEF ListenerInv, RouterInv
<1> QED BY <1>1, <1>2, <1>3, PTL DEF Spec

\* The listener does what a router of streams may do, and nothing else.
THEOREM RouterImplemented == Spec => ImplementsRouter
<1>1. Init => ListenerInv
  BY ListenerInit
<1>2. ListenerInv /\ [Next]_vars => ListenerInv'
  BY ListenerStep
<1>3. Init => Router!Init
  BY SameStreams DEF Init, Router!Init
<1>4. ListenerInv /\ [Next]_vars => [Router!Next]_(Router!vars)
  BY RouterRefines DEF ListenerInv, Router!vars
<1> QED BY <1>1, <1>2, <1>3, <1>4, PTL DEF Spec, ImplementsRouter, Router!Spec

\* A stream that has a server is dropped only with its connection, by its own
\* reset or when the listener is closed.
THEOREM NeverShedCorrect == Spec => NeverShed
<1> DEFINE Shed ==
        \A s \in Streams :
            /\ fate[s] # "dropped" /\ fate'[s] = "dropped"
            /\ TypeOf(s) \in Types
            => Cancelled \/ quic[s[1]] = "closed" \/ wire[s] = "reset"
<1>1. Init => ListenerInv
  BY ListenerInit
<1>2. ListenerInv /\ [Next]_vars => ListenerInv'
  BY ListenerStep
<1>3. ListenerInv /\ [Next]_vars => [Shed]_vars
  <2> SUFFICES ASSUME ListenerInv, Next, NEW s \in Streams,
                      fate[s] # "dropped", fate'[s] = "dropped", TypeOf(s) \in Types
               PROVE  Cancelled \/ quic[s[1]] = "closed" \/ wire[s] = "reset"
    OBVIOUS
  <2> USE DEF ListenerUnchanged
  <2>t. fate \in [Streams -> Fates]
    BY DEF ListenerInv, TypeOK
  <2>1. CASE Peer \/ AcceptLoop \/ Close \/ CloseBegins
    BY <2>1 DEF Peer, Connect, OpenStream, ConnLost, TypeArrives, Reset,
                AcceptLoop, Accept, AcceptFails, Register, Refuse, Close,
                CloseBegins, CloseChannel, CloseConns, CloseSocket
  <2>2. ASSUME NEW c \in Conns, HandleConnection(c) \/ SendPanics(c)
        PROVE  Cancelled \/ quic[s[1]] = "closed" \/ wire[s] = "reset"
    <3>1. CASE TakeStream(c) \/ TakeFails(c) \/ ReadType(c) \/ Lookup(c)
               \/ HandlerReturns(c) \/ SendPanics(c)
      BY <3>1 DEF TakeStream, TakeFails, ReadType, Lookup, HandlerReturns, SendPanics
    <3>2. CASE ReadFails(c) \/ Unknown(c) \/ Send(c)
      <4>1. s = Current(c)
        BY <2>t, <3>2 DEF ReadFails, Unknown, Send
      <4> QED BY <3>2, <4>1, <2>t DEF ReadFails, Unknown, Send, Current
    <3>3. CASE SendCancelled(c)
      BY <3>3 DEF SendCancelled, GiveUp
    <3> QED BY <2>2, <3>1, <3>2, <3>3 DEF HandleConnection
  <2>3. ASSUME NEW t \in Types, Serve(t) PROVE FALSE
    BY <2>t, <2>3 DEF Serve, ServerLookup, ServerReceives, ServerStops
  <2> QED BY <2>1, <2>2, <2>3 DEF Next, System
<1> QED BY <1>1, <1>2, <1>3, PTL DEF Spec, NeverShed

\* Once Close has let go of l.mu no connection of a handler is open, but for
\* those that a bad stream left without one before.
THEOREM AllConnsClosedCorrect == Spec => []AllConnsClosed
<1>1. Init => ClosedInv
  BY ListenerInit DEF Init, ClosedInv, AllConnsClosed, Closable, InHand
<1>2. ClosedInv /\ [Next]_vars => ClosedInv'
  BY ClosedStep
<1>3. ClosedInv => AllConnsClosed
  BY DEF ClosedInv
<1> QED BY <1>1, <1>2, <1>3, PTL DEF Spec

=============================================================================
