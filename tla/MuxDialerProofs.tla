-------------------------- MODULE MuxDialerProofs --------------------------
(***************************************************************************)
(* Proofs about MuxDialer for every set of calls, addresses and faults.    *)
(* The invariant is IInv below: what the pool and the calls know of a      *)
(* connection at each point of Dial.  The last conjunct is the reason why  *)
(* racing calls end up sharing one connection: until something ends or is  *)
(* cancelled, every connection ever pooled still has its place in the pool.*)
(***************************************************************************)
EXTENDS MuxDialer, TLAPS

\* A call has an address from the moment it is made.
AddrKnown == \A d \in Calls : pc[d] # "idle" <=> addr[d] # None

\* From the moment a call has chosen a connection, that connection is one the
\* pool handed out for the call's address.
UsesInstalled ==
    \A d \in Calls :
        pc[d] \in {"closeDup", "open", "remove", "stream"} =>
            /\ muxConn[d] \in Conns
            /\ Established(muxConn[d])
            /\ Peer(muxConn[d]) = addr[d]

\* Before a call of getOrCreateConn has installed a connection
Early(label) == label \in {"idle", "lookup", "dial", "install", "remove"}

\* The connection a call is about to create was never pooled.
FreshUnused ==
    \A d \in Calls :
        /\ Early(pc[d]) => monitor[Fresh(d)] = "none"
        /\ failed[d] = None => monitor[<<d, 2>>] = "none"

\* A connection on which OpenStream failed leaves the pool with removeConn,
\* for good, and the call is done with it.
FailedGone ==
    \A d \in Calls :
        failed[d] # None =>
            /\ Established(failed[d])
            /\ pc[d] = "remove" => muxConn[d] = failed[d]
            /\ pc[d] # "remove" => \A a \in Addrs : conns[a] # failed[d]
            /\ pc[d] \in {"closeDup", "open", "stream"} =>
                  muxConn[d] # failed[d]

\* A pooled connection was dialled, for some address.
Dialled ==
    /\ \A d \in Calls : pc[d] = "install" => quic[Fresh(d)] # "unused"
    /\ \A c \in Conns :
          Established(c) => quic[c] # "unused" /\ Peer(c) # None

\* An open connection that was not pooled is the one its call has in hand.
OnlyFreshOpen ==
    \A c \in Conns :
        quic[c] = "open" /\ ~Established(c) =>
            c = Fresh(c[1]) /\ pc[c[1]] \in {"install", "closeDup"}

\* A call evicts a connection only when it has ended or the call was cancelled.
RemoveReason ==
    \A d \in Calls :
        pc[d] = "remove" => cancelled[d] \/ quic[muxConn[d]] = "closed"

\* Every connection ever pooled still is, unless something went wrong.
StillPooled ==
    Undisturbed => \A c \in Conns : Established(c) => conns[Peer(c)] = c

IInv ==
    /\ TypeOK
    /\ AddrKnown
    /\ PooledWatched
    /\ UsesInstalled
    /\ FreshUnused
    /\ FailedGone
    /\ Dialled
    /\ OnlyFreshOpen
    /\ RemoveReason
    /\ StillPooled

-----------------------------------------------------------------------------

\* Facts about the names of connections.
LEMMA Owner == \A c \in Conns : c[1] \in Calls
BY DEF Conns

LEMMA FreshName == \A d \in Calls : Fresh(d) \in Conns /\ Fresh(d)[1] = d
BY DEF Conns, Fresh

LEMMA SecondName ==
    \A d \in Calls :
        /\ <<d, 2>> \in Conns /\ <<d, 2>>[1] = d
        /\ failed[d] = None => Fresh(d) # <<d, 2>>
        /\ failed'[d] # None => Fresh(d)' = <<d, 2>>
BY DEF Conns, Fresh

\* What a connection is called depends on its call's first failure alone, and
\* its peer on its call's address alone.
LEMMA NamesKept ==
    /\ \A d \in Calls : failed'[d] = failed[d] => Fresh(d)' = Fresh(d)
    /\ addr' = addr => \A c \in Conns : Peer(c)' = Peer(c)
    /\ \A d \in Calls : Peer(Fresh(d)) = addr[d]
BY Owner, FreshName DEF Fresh, Peer

\* A new call changes the peer of its own, still unused, connections only.
LEMMA PeerDial ==
    ASSUME IInv, NEW d \in Calls, NEW a \in Addrs, Dial(d, a),
           NEW c \in Conns, Peer(c) # None
    PROVE  Peer(c)' = Peer(c)
BY Owner DEF IInv, TypeOK, AddrKnown, Dial, Peer

\* Every step keeps the types.
LEMMA TypeStep == IInv /\ [Next]_vars => TypeOK'
<1> SUFFICES ASSUME IInv, [Next]_vars PROVE TypeOK'
  OBVIOUS
<1> USE FreshName
        DEF IInv, TypeOK, Returned, AddrKnown
<1>1. ASSUME NEW d \in Calls, NEW a \in Addrs, Dial(d, a)
      PROVE  TypeOK'
  BY <1>1 DEF Dial, Goto
<1>2. ASSUME NEW d \in Calls, Reuse(d) PROVE TypeOK'
  BY <1>2 DEF Reuse, Goto
<1>3. ASSUME NEW d \in Calls, Miss(d) PROVE TypeOK'
  BY <1>3 DEF Miss, Goto
<1>4. ASSUME NEW d \in Calls, DialOK(d) PROVE TypeOK'
  BY <1>4 DEF DialOK, Goto
<1>5. ASSUME NEW d \in Calls, DialFail(d) PROVE TypeOK'
  BY <1>5 DEF DialFail, Goto
<1>6. ASSUME NEW d \in Calls, Install(d) PROVE TypeOK'
  BY <1>6, DialerAssumption DEF Install, Created, Watch, Goto
<1>7. ASSUME NEW d \in Calls, LoseRace(d) PROVE TypeOK'
  BY <1>7 DEF LoseRace, Created, UseExisting, Goto
<1>8. ASSUME NEW d \in Calls, CloseDup(d) PROVE TypeOK'
  BY <1>8 DEF CloseDup, CloseFresh, ReturnExisting, Goto
<1>9. ASSUME NEW d \in Calls, OpenOK(d) PROVE TypeOK'
  BY <1>9 DEF OpenOK, CanOpen, Goto
<1>10. ASSUME NEW d \in Calls, OpenFail(d) PROVE TypeOK'
  BY <1>10 DEF OpenFail, CanOpen, AfterFailure, Goto
<1>11. ASSUME NEW d \in Calls, Remove(d) PROVE TypeOK'
  BY <1>11 DEF Remove, RemoveConn, Goto
<1>12. ASSUME NEW d \in Calls, Cancel(d) PROVE TypeOK'
  BY <1>12 DEF Cancel
<1>13. ASSUME NEW c \in Conns, Monitor(c) PROVE TypeOK'
  BY <1>13 DEF Monitor, RemoveConn
<1>14. ASSUME NEW c \in Conns, ConnDies(c) PROVE TypeOK'
  BY <1>14 DEF ConnDies
<1>15. CASE CloseAll
  BY <1>15 DEF CloseAll, ClosePooled, Pooled
<1>16. CASE UNCHANGED vars
  BY <1>16 DEF vars
<1> QED BY <1>1, <1>2, <1>3, <1>4, <1>5, <1>6, <1>7, <1>8, <1>9, <1>10,
           <1>11, <1>12, <1>13, <1>14, <1>15, <1>16
           DEF Next, CallStep

\* A call keeps its address.
LEMMA AddrStep == IInv /\ [Next]_vars => AddrKnown'
<1> SUFFICES ASSUME IInv, [Next]_vars PROVE AddrKnown'
  OBVIOUS
<1> USE DialerAssumption
        DEF IInv, TypeOK, Returned, AddrKnown
<1>1. ASSUME NEW d \in Calls, NEW a \in Addrs, Dial(d, a)
      PROVE  AddrKnown'
  BY <1>1 DEF Dial, Goto
<1>2. ASSUME NEW d \in Calls, Reuse(d) PROVE AddrKnown'
  BY <1>2 DEF Reuse, Goto
<1>3. ASSUME NEW d \in Calls, Miss(d) PROVE AddrKnown'
  BY <1>3 DEF Miss, Goto
<1>4. ASSUME NEW d \in Calls, DialOK(d) PROVE AddrKnown'
  BY <1>4 DEF DialOK, Goto
<1>5. ASSUME NEW d \in Calls, DialFail(d) PROVE AddrKnown'
  BY <1>5 DEF DialFail, Goto
<1>6. ASSUME NEW d \in Calls, Install(d) PROVE AddrKnown'
  BY <1>6 DEF Install, Created, Watch, Goto
<1>7. ASSUME NEW d \in Calls, LoseRace(d) PROVE AddrKnown'
  BY <1>7 DEF LoseRace, Created, UseExisting, Goto
<1>8. ASSUME NEW d \in Calls, CloseDup(d) PROVE AddrKnown'
  BY <1>8 DEF CloseDup, CloseFresh, ReturnExisting, Goto
<1>9. ASSUME NEW d \in Calls, OpenOK(d) PROVE AddrKnown'
  BY <1>9 DEF OpenOK, CanOpen, Goto
<1>10. ASSUME NEW d \in Calls, OpenFail(d) PROVE AddrKnown'
  BY <1>10 DEF OpenFail, CanOpen, AfterFailure, Goto
<1>11. ASSUME NEW d \in Calls, Remove(d) PROVE AddrKnown'
  BY <1>11 DEF Remove, RemoveConn, Goto
<1>12. ASSUME NEW d \in Calls, Cancel(d) PROVE AddrKnown'
  BY <1>12 DEF Cancel
<1>13. ASSUME NEW c \in Conns, Monitor(c) PROVE AddrKnown'
  BY <1>13 DEF Monitor, RemoveConn
<1>14. ASSUME NEW c \in Conns, ConnDies(c) PROVE AddrKnown'
  BY <1>14 DEF ConnDies
<1>15. CASE CloseAll
  BY <1>15 DEF CloseAll, ClosePooled, Pooled
<1>16. CASE UNCHANGED vars
  BY <1>16 DEF vars
<1> QED BY <1>1, <1>2, <1>3, <1>4, <1>5, <1>6, <1>7, <1>8, <1>9, <1>10,
           <1>11, <1>12, <1>13, <1>14, <1>15, <1>16
           DEF Next, CallStep

\* removeConn and Close empty the entry they touch; only Install fills one.
LEMMA PooledStep == IInv /\ [Next]_vars => PooledWatched'
<1> SUFFICES ASSUME IInv, [Next]_vars PROVE PooledWatched'
  OBVIOUS
<1> USE FreshName, NamesKept, DialerAssumption
        DEF IInv, TypeOK, Returned, AddrKnown, PooledWatched
<1>1. ASSUME NEW d \in Calls, NEW a \in Addrs, Dial(d, a)
      PROVE  PooledWatched'
  <2>1. \A c \in Conns : Peer(c) # None => Peer(c)' = Peer(c)
    BY <1>1, PeerDial
  <2> QED BY <1>1, <2>1 DEF Dial, Goto
<1>2. ASSUME NEW d \in Calls, Reuse(d) PROVE PooledWatched'
  BY <1>2 DEF Reuse, Goto
<1>3. ASSUME NEW d \in Calls, Miss(d) PROVE PooledWatched'
  BY <1>3 DEF Miss, Goto
<1>4. ASSUME NEW d \in Calls, DialOK(d) PROVE PooledWatched'
  BY <1>4 DEF DialOK, Goto
<1>5. ASSUME NEW d \in Calls, DialFail(d) PROVE PooledWatched'
  BY <1>5 DEF DialFail, Goto
<1>6. ASSUME NEW d \in Calls, Install(d) PROVE PooledWatched'
  BY <1>6 DEF Install, Created, Watch, Goto
<1>7. ASSUME NEW d \in Calls, LoseRace(d) PROVE PooledWatched'
  BY <1>7 DEF LoseRace, Created, UseExisting, Goto
<1>8. ASSUME NEW d \in Calls, CloseDup(d) PROVE PooledWatched'
  BY <1>8 DEF CloseDup, CloseFresh, ReturnExisting, Goto
<1>9. ASSUME NEW d \in Calls, OpenOK(d) PROVE PooledWatched'
  BY <1>9 DEF OpenOK, CanOpen, Goto
<1>10. ASSUME NEW d \in Calls, OpenFail(d) PROVE PooledWatched'
  BY <1>10 DEF OpenFail, CanOpen, AfterFailure, Goto
<1>11. ASSUME NEW d \in Calls, Remove(d) PROVE PooledWatched'
  BY <1>11 DEF Remove, RemoveConn, Goto
<1>12. ASSUME NEW d \in Calls, Cancel(d) PROVE PooledWatched'
  BY <1>12 DEF Cancel
<1>13. ASSUME NEW c \in Conns, Monitor(c) PROVE PooledWatched'
  BY <1>13 DEF Monitor, RemoveConn
<1>14. ASSUME NEW c \in Conns, ConnDies(c) PROVE PooledWatched'
  BY <1>14 DEF ConnDies
<1>15. CASE CloseAll
  BY <1>15 DEF CloseAll, ClosePooled, Pooled
<1>16. CASE UNCHANGED vars
  BY <1>16 DEF vars
<1> QED BY <1>1, <1>2, <1>3, <1>4, <1>5, <1>6, <1>7, <1>8, <1>9, <1>10,
           <1>11, <1>12, <1>13, <1>14, <1>15, <1>16
           DEF Next, CallStep

\* A call takes its connection from the pool, or puts it there.
LEMMA UsesStep == IInv /\ [Next]_vars => UsesInstalled'
<1> SUFFICES ASSUME IInv, [Next]_vars PROVE UsesInstalled'
  OBVIOUS
<1> USE FreshName, NamesKept, DialerAssumption
        DEF IInv, TypeOK, Returned, AddrKnown, PooledWatched, UsesInstalled,
            Established
<1>1. ASSUME NEW d \in Calls, NEW a \in Addrs, Dial(d, a)
      PROVE  UsesInstalled'
  <2>1. \A c \in Conns : Peer(c) # None => Peer(c)' = Peer(c)
    BY <1>1, PeerDial
  <2> QED BY <1>1, <2>1 DEF Dial, Goto
<1>2. ASSUME NEW d \in Calls, Reuse(d) PROVE UsesInstalled'
  BY <1>2 DEF Reuse, Goto
<1>3. ASSUME NEW d \in Calls, Miss(d) PROVE UsesInstalled'
  BY <1>3 DEF Miss, Goto
<1>4. ASSUME NEW d \in Calls, DialOK(d) PROVE UsesInstalled'
  BY <1>4 DEF DialOK, Goto
<1>5. ASSUME NEW d \in Calls, DialFail(d) PROVE UsesInstalled'
  BY <1>5 DEF DialFail, Goto
<1>6. ASSUME NEW d \in Calls, Install(d) PROVE UsesInstalled'
  BY <1>6 DEF Install, Created, Watch, Goto
<1>7. ASSUME NEW d \in Calls, LoseRace(d) PROVE UsesInstalled'
  BY <1>7 DEF LoseRace, Created, UseExisting, Goto
<1>8. ASSUME NEW d \in Calls, CloseDup(d) PROVE UsesInstalled'
  BY <1>8 DEF CloseDup, CloseFresh, ReturnExisting, Goto
<1>9. ASSUME NEW d \in Calls, OpenOK(d) PROVE UsesInstalled'
  BY <1>9 DEF OpenOK, CanOpen, Goto
<1>10. ASSUME NEW d \in Calls, OpenFail(d) PROVE UsesInstalled'
  BY <1>10 DEF OpenFail, CanOpen, AfterFailure, Goto
<1>11. ASSUME NEW d \in Calls, Remove(d) PROVE UsesInstalled'
  BY <1>11 DEF Remove, RemoveConn, Goto
<1>12. ASSUME NEW d \in Calls, Cancel(d) PROVE UsesInstalled'
  BY <1>12 DEF Cancel
<1>13. ASSUME NEW c \in Conns, Monitor(c) PROVE UsesInstalled'
  BY <1>13 DEF Monitor, RemoveConn
<1>14. ASSUME NEW c \in Conns, ConnDies(c) PROVE UsesInstalled'
  BY <1>14 DEF ConnDies
<1>15. CASE CloseAll
  BY <1>15 DEF CloseAll, ClosePooled, Pooled
<1>16. CASE UNCHANGED vars
  BY <1>16 DEF vars
<1> QED BY <1>1, <1>2, <1>3, <1>4, <1>5, <1>6, <1>7, <1>8, <1>9, <1>10,
           <1>11, <1>12, <1>13, <1>14, <1>15, <1>16
           DEF Next, CallStep

\* A connection is watched once it is installed, by the call that created it.
LEMMA FreshStep == IInv /\ [Next]_vars => FreshUnused'
<1> SUFFICES ASSUME IInv, [Next]_vars PROVE FreshUnused'
  OBVIOUS
<1>a. TypeOK /\ FreshUnused /\ UsesInstalled
  BY DEF IInv
<1> USE DEF FreshUnused
<1>1. ASSUME NEW d \in Calls, NEW a \in Addrs, Dial(d, a)
      PROVE  FreshUnused'
  <2>1. \A e \in Calls : Fresh(e)' = Fresh(e)
    BY <1>1, NamesKept DEF Dial
  <2>2. UNCHANGED <<monitor, failed>>
    BY <1>1 DEF Dial
  <2>3. \A e \in Calls : Early(pc'[e]) => Early(pc[e])
    BY <1>1, <1>a DEF Dial, Goto, TypeOK, Early, Returned
  <2> QED BY <1>a, <2>1, <2>2, <2>3
<1>2. ASSUME NEW d \in Calls, Reuse(d) PROVE FreshUnused'
  <2>1. \A e \in Calls : Fresh(e)' = Fresh(e)
    BY <1>2, NamesKept DEF Reuse
  <2>2. UNCHANGED <<monitor, failed>>
    BY <1>2 DEF Reuse
  <2>3. \A e \in Calls : Early(pc'[e]) => Early(pc[e])
    BY <1>2, <1>a DEF Reuse, Goto, TypeOK, Early, Returned
  <2> QED BY <1>a, <2>1, <2>2, <2>3
<1>3. ASSUME NEW d \in Calls, Miss(d) PROVE FreshUnused'
  <2>1. \A e \in Calls : Fresh(e)' = Fresh(e)
    BY <1>3, NamesKept DEF Miss
  <2>2. UNCHANGED <<monitor, failed>>
    BY <1>3 DEF Miss
  <2>3. \A e \in Calls : Early(pc'[e]) => Early(pc[e])
    BY <1>3, <1>a DEF Miss, Goto, TypeOK, Early, Returned
  <2> QED BY <1>a, <2>1, <2>2, <2>3
<1>4. ASSUME NEW d \in Calls, DialOK(d) PROVE FreshUnused'
  <2>1. \A e \in Calls : Fresh(e)' = Fresh(e)
    BY <1>4, NamesKept DEF DialOK
  <2>2. UNCHANGED <<monitor, failed>>
    BY <1>4 DEF DialOK
  <2>3. \A e \in Calls : Early(pc'[e]) => Early(pc[e])
    BY <1>4, <1>a DEF DialOK, Goto, TypeOK, Early, Returned
  <2> QED BY <1>a, <2>1, <2>2, <2>3
<1>5. ASSUME NEW d \in Calls, DialFail(d) PROVE FreshUnused'
  <2>1. \A e \in Calls : Fresh(e)' = Fresh(e)
    BY <1>5, NamesKept DEF DialFail
  <2>2. UNCHANGED <<monitor, failed>>
    BY <1>5 DEF DialFail
  <2>3. \A e \in Calls : Early(pc'[e]) => Early(pc[e])
    BY <1>5, <1>a DEF DialFail, Goto, TypeOK, Early, Returned
  <2> QED BY <1>a, <2>1, <2>2, <2>3
<1>6. ASSUME NEW d \in Calls, Install(d) PROVE FreshUnused'
  <2>1. \A e \in Calls : Fresh(e)' = Fresh(e)
    BY <1>6, NamesKept DEF Install
  <2>2. \A e \in Calls : e # d => Fresh(e) # Fresh(d) /\ <<e, 2>> # Fresh(d)
    BY FreshName, SecondName
  <2>3. failed[d] = None => Fresh(d) # <<d, 2>>
    BY SecondName
  <2>4. \A c \in Conns : c # Fresh(d) => monitor'[c] = monitor[c]
    BY <1>6, <1>a, FreshName DEF Install, Watch, TypeOK
  <2>5. \A e \in Calls : Fresh(e) \in Conns /\ <<e, 2>> \in Conns
    BY FreshName, SecondName
  <2>6. /\ ~Early(pc'[d]) /\ failed' = failed
        /\ \A e \in Calls : e # d => pc'[e] = pc[e]
    BY <1>6, <1>a DEF Install, Goto, TypeOK, Early
  <2>7. ASSUME NEW e \in Calls, Early(pc'[e]) PROVE monitor'[Fresh(e)] = "none"
    BY <1>a, <2>2, <2>4, <2>5, <2>6, <2>7
  <2>8. ASSUME NEW e \in Calls, failed'[e] = None
        PROVE  monitor'[<<e, 2>>] = "none"
    BY <1>a, <2>2, <2>3, <2>4, <2>5, <2>6, <2>8
  <2> QED BY <2>1, <2>7, <2>8
<1>7. ASSUME NEW d \in Calls, LoseRace(d) PROVE FreshUnused'
  <2>1. \A e \in Calls : Fresh(e)' = Fresh(e)
    BY <1>7, NamesKept DEF LoseRace, Created, UseExisting
  <2>2. UNCHANGED <<monitor, failed>>
    BY <1>7 DEF LoseRace, Created, UseExisting
  <2>3. \A e \in Calls : Early(pc'[e]) => Early(pc[e])
    BY <1>7, <1>a DEF LoseRace, Created, UseExisting, Goto, TypeOK, Early, Returned
  <2> QED BY <1>a, <2>1, <2>2, <2>3
<1>8. ASSUME NEW d \in Calls, CloseDup(d) PROVE FreshUnused'
  <2>1. \A e \in Calls : Fresh(e)' = Fresh(e)
    BY <1>8, NamesKept DEF CloseDup, CloseFresh, ReturnExisting
  <2>2. UNCHANGED <<monitor, failed>>
    BY <1>8 DEF CloseDup, CloseFresh, ReturnExisting
  <2>3. \A e \in Calls : Early(pc'[e]) => Early(pc[e])
    BY <1>8, <1>a DEF CloseDup, CloseFresh, ReturnExisting, Goto, TypeOK, Early, Returned
  <2> QED BY <1>a, <2>1, <2>2, <2>3
<1>9. ASSUME NEW d \in Calls, OpenOK(d) PROVE FreshUnused'
  <2>1. \A e \in Calls : Fresh(e)' = Fresh(e)
    BY <1>9, NamesKept DEF OpenOK, CanOpen
  <2>2. UNCHANGED <<monitor, failed>>
    BY <1>9 DEF OpenOK, CanOpen
  <2>3. \A e \in Calls : Early(pc'[e]) => Early(pc[e])
    BY <1>9, <1>a DEF OpenOK, CanOpen, Goto, TypeOK, Early, Returned
  <2> QED BY <1>a, <2>1, <2>2, <2>3
<1>10. ASSUME NEW d \in Calls, OpenFail(d) PROVE FreshUnused'
  <2>1. \A e \in Calls : e # d => Fresh(e)' = Fresh(e)
    BY <1>10, NamesKept DEF OpenFail
  <2>2. /\ monitor' = monitor
        /\ \A e \in Calls :
              e # d => pc'[e] = pc[e] /\ failed'[e] = failed[e]
    BY <1>10, <1>a DEF OpenFail, Goto, TypeOK
  <2>3. failed'[d] # None
    BY <1>10, <1>a, DialerAssumption DEF OpenFail, UsesInstalled, TypeOK
  <2>4. Fresh(d)' = <<d, 2>>
    BY <2>3, SecondName
  <2>5. Early(pc'[d]) => failed[d] = None
    BY <1>10, <1>a DEF OpenFail, AfterFailure, Goto, TypeOK, Early
  <2>6. ASSUME NEW e \in Calls, Early(pc'[e])
        PROVE  monitor'[Fresh(e)'] = "none"
    <3>1. CASE e = d
      <4>1. failed[d] = None
        BY <2>5, <2>6, <3>1
      <4>2. monitor[<<d, 2>>] = "none"
        BY <1>a, <4>1
      <4> QED BY <2>2, <2>4, <3>1, <4>2
    <3>2. CASE e # d
      <4>1. monitor[Fresh(e)] = "none"
        BY <1>a, <2>2, <2>6, <3>2
      <4> QED BY <2>1, <2>2, <3>2, <4>1
    <3> QED BY <3>1, <3>2
  <2> QED BY <1>a, <2>2, <2>3, <2>6
<1>11. ASSUME NEW d \in Calls, Remove(d) PROVE FreshUnused'
  <2>1. \A e \in Calls : Fresh(e)' = Fresh(e)
    BY <1>11, NamesKept DEF Remove, RemoveConn
  <2>2. UNCHANGED <<monitor, failed>>
    BY <1>11 DEF Remove, RemoveConn
  <2>3. \A e \in Calls : Early(pc'[e]) => Early(pc[e])
    BY <1>11, <1>a DEF Remove, RemoveConn, Goto, TypeOK, Early, Returned
  <2> QED BY <1>a, <2>1, <2>2, <2>3
<1>12. ASSUME NEW d \in Calls, Cancel(d) PROVE FreshUnused'
  <2>1. \A e \in Calls : Fresh(e)' = Fresh(e)
    BY <1>12, NamesKept DEF Cancel
  <2>2. UNCHANGED <<monitor, failed>>
    BY <1>12 DEF Cancel
  <2>3. \A e \in Calls : Early(pc'[e]) => Early(pc[e])
    BY <1>12, <1>a DEF Cancel, TypeOK, Early, Returned
  <2> QED BY <1>a, <2>1, <2>2, <2>3
<1>13. ASSUME NEW c \in Conns, Monitor(c) PROVE FreshUnused'
  <2>1. \A e \in Calls : Fresh(e)' = Fresh(e)
    BY <1>13, NamesKept DEF Monitor
  <2>2. \A k \in Conns : monitor[k] = "none" => monitor'[k] = "none"
    BY <1>13, <1>a DEF Monitor, TypeOK
  <2>3. \A e \in Calls : Fresh(e) \in Conns /\ <<e, 2>> \in Conns
    BY FreshName, SecondName
  <2>4. UNCHANGED <<pc, failed>>
    BY <1>13 DEF Monitor
  <2> QED BY <1>a, <2>1, <2>2, <2>3, <2>4
<1>14. ASSUME NEW c \in Conns, ConnDies(c) PROVE FreshUnused'
  <2>1. \A e \in Calls : Fresh(e)' = Fresh(e)
    BY <1>14, NamesKept DEF ConnDies
  <2>2. UNCHANGED <<monitor, failed>>
    BY <1>14 DEF ConnDies
  <2>3. \A e \in Calls : Early(pc'[e]) => Early(pc[e])
    BY <1>14, <1>a DEF ConnDies, TypeOK, Early, Returned
  <2> QED BY <1>a, <2>1, <2>2, <2>3
<1>15. CASE CloseAll
  <2>1. \A e \in Calls : Fresh(e)' = Fresh(e)
    BY <1>15, NamesKept DEF CloseAll, ClosePooled, Pooled
  <2>2. UNCHANGED <<monitor, failed>>
    BY <1>15 DEF CloseAll, ClosePooled, Pooled
  <2>3. \A e \in Calls : Early(pc'[e]) => Early(pc[e])
    BY <1>15, <1>a DEF CloseAll, ClosePooled, Pooled, TypeOK, Early, Returned
  <2> QED BY <1>a, <2>1, <2>2, <2>3
<1>16. CASE UNCHANGED vars
  BY <1>a, <1>16, NamesKept DEF vars
<1> QED BY <1>1, <1>2, <1>3, <1>4, <1>5, <1>6, <1>7, <1>8, <1>9, <1>10,
           <1>11, <1>12, <1>13, <1>14, <1>15, <1>16
           DEF Next, CallStep

\* Nothing puts a connection back once it failed.
LEMMA FailedStep == IInv /\ [Next]_vars => FailedGone'
<1> SUFFICES ASSUME IInv, [Next]_vars PROVE FailedGone'
  OBVIOUS
<1> USE FreshName, DialerAssumption
        DEF IInv, TypeOK, Returned, FailedGone, PooledWatched, FreshUnused,
            Early, UsesInstalled, AddrKnown, Established
<1>1. ASSUME NEW d \in Calls, NEW a \in Addrs, Dial(d, a)
      PROVE  FailedGone'
  BY <1>1 DEF Dial, Goto
<1>2. ASSUME NEW d \in Calls, Reuse(d) PROVE FailedGone'
  BY <1>2 DEF Reuse, Goto
<1>3. ASSUME NEW d \in Calls, Miss(d) PROVE FailedGone'
  BY <1>3 DEF Miss, Goto
<1>4. ASSUME NEW d \in Calls, DialOK(d) PROVE FailedGone'
  BY <1>4 DEF DialOK, Goto
<1>5. ASSUME NEW d \in Calls, DialFail(d) PROVE FailedGone'
  BY <1>5 DEF DialFail, Goto
<1>6. ASSUME NEW d \in Calls, Install(d) PROVE FailedGone'
  <2>0. monitor[Fresh(d)] = "none"
    BY <1>6 DEF Install
  <2>1. \A e \in Calls : failed[e] # None => failed[e] # Fresh(d)
    BY <2>0
  <2>2. \A a \in Addrs : conns'[a] = conns[a] \/ conns'[a] = Fresh(d)
    BY <1>6 DEF Install
  <2>3. /\ muxConn'[d] = Fresh(d) /\ pc'[d] = "open"
        /\ \A e \in Calls : e # d => muxConn'[e] = muxConn[e] /\ pc'[e] = pc[e]
    BY <1>6 DEF Install, Goto
  <2>4. \A k \in Conns : Established(k) => Established(k)'
    BY <1>6 DEF Install, Watch
  <2> QED BY <1>6, <2>1, <2>2, <2>3, <2>4 DEF Install
<1>7. ASSUME NEW d \in Calls, LoseRace(d) PROVE FailedGone'
  BY <1>7 DEF LoseRace, Created, UseExisting, Goto
<1>8. ASSUME NEW d \in Calls, CloseDup(d) PROVE FailedGone'
  BY <1>8 DEF CloseDup, CloseFresh, ReturnExisting, Goto
<1>9. ASSUME NEW d \in Calls, OpenOK(d) PROVE FailedGone'
  BY <1>9 DEF OpenOK, CanOpen, Goto
<1>10. ASSUME NEW d \in Calls, OpenFail(d) PROVE FailedGone'
  BY <1>10 DEF OpenFail, CanOpen, AfterFailure, Goto
<1>11. ASSUME NEW d \in Calls, Remove(d) PROVE FailedGone'
  BY <1>11 DEF Remove, RemoveConn, Goto
<1>12. ASSUME NEW d \in Calls, Cancel(d) PROVE FailedGone'
  BY <1>12 DEF Cancel
<1>13. ASSUME NEW c \in Conns, Monitor(c) PROVE FailedGone'
  BY <1>13 DEF Monitor, RemoveConn
<1>14. ASSUME NEW c \in Conns, ConnDies(c) PROVE FailedGone'
  BY <1>14 DEF ConnDies
<1>15. CASE CloseAll
  BY <1>15 DEF CloseAll, ClosePooled, Pooled
<1>16. CASE UNCHANGED vars
  BY <1>16 DEF vars
<1> QED BY <1>1, <1>2, <1>3, <1>4, <1>5, <1>6, <1>7, <1>8, <1>9, <1>10,
           <1>11, <1>12, <1>13, <1>14, <1>15, <1>16
           DEF Next, CallStep

\* A connection is dialled before it is pooled.
LEMMA DialledStep == IInv /\ [Next]_vars => Dialled'
<1> SUFFICES ASSUME IInv, [Next]_vars PROVE Dialled'
  OBVIOUS
<1> USE FreshName, NamesKept, DialerAssumption
        DEF IInv, TypeOK, Returned, Dialled, AddrKnown, Established
<1>1. ASSUME NEW d \in Calls, NEW a \in Addrs, Dial(d, a)
      PROVE  Dialled'
  <2>1. \A c \in Conns : Peer(c) # None => Peer(c)' = Peer(c)
    BY <1>1, PeerDial
  <2> QED BY <1>1, <2>1 DEF Dial, Goto
<1>2. ASSUME NEW d \in Calls, Reuse(d) PROVE Dialled'
  BY <1>2 DEF Reuse, Goto
<1>3. ASSUME NEW d \in Calls, Miss(d) PROVE Dialled'
  BY <1>3 DEF Miss, Goto
<1>4. ASSUME NEW d \in Calls, DialOK(d) PROVE Dialled'
  BY <1>4 DEF DialOK, Goto
<1>5. ASSUME NEW d \in Calls, DialFail(d) PROVE Dialled'
  BY <1>5 DEF DialFail, Goto
<1>6. ASSUME NEW d \in Calls, Install(d) PROVE Dialled'
  BY <1>6 DEF Install, Created, Watch, Goto
<1>7. ASSUME NEW d \in Calls, LoseRace(d) PROVE Dialled'
  BY <1>7 DEF LoseRace, Created, UseExisting, Goto
<1>8. ASSUME NEW d \in Calls, CloseDup(d) PROVE Dialled'
  BY <1>8 DEF CloseDup, CloseFresh, ReturnExisting, Goto
<1>9. ASSUME NEW d \in Calls, OpenOK(d) PROVE Dialled'
  BY <1>9 DEF OpenOK, CanOpen, Goto
<1>10. ASSUME NEW d \in Calls, OpenFail(d) PROVE Dialled'
  BY <1>10 DEF OpenFail, CanOpen, AfterFailure, Goto
<1>11. ASSUME NEW d \in Calls, Remove(d) PROVE Dialled'
  BY <1>11 DEF Remove, RemoveConn, Goto
<1>12. ASSUME NEW d \in Calls, Cancel(d) PROVE Dialled'
  BY <1>12 DEF Cancel
<1>13. ASSUME NEW c \in Conns, Monitor(c) PROVE Dialled'
  BY <1>13 DEF Monitor, RemoveConn
<1>14. ASSUME NEW c \in Conns, ConnDies(c) PROVE Dialled'
  BY <1>14 DEF ConnDies
<1>15. CASE CloseAll
  BY <1>15 DEF CloseAll, ClosePooled, Pooled
<1>16. CASE UNCHANGED vars
  BY <1>16 DEF vars
<1> QED BY <1>1, <1>2, <1>3, <1>4, <1>5, <1>6, <1>7, <1>8, <1>9, <1>10,
           <1>11, <1>12, <1>13, <1>14, <1>15, <1>16
           DEF Next, CallStep

\* A connection leaves a call's hands pooled or closed.
LEMMA OpenStep == IInv /\ [Next]_vars => OnlyFreshOpen'
<1> SUFFICES ASSUME IInv, [Next]_vars PROVE OnlyFreshOpen'
  OBVIOUS
<1> USE Owner, FreshName, NamesKept
        DEF IInv, TypeOK, Returned, OnlyFreshOpen, Established
<1>1. ASSUME NEW d \in Calls, NEW a \in Addrs, Dial(d, a)
      PROVE  OnlyFreshOpen'
  BY <1>1 DEF Dial, Goto
<1>2. ASSUME NEW d \in Calls, Reuse(d) PROVE OnlyFreshOpen'
  BY <1>2 DEF Reuse, Goto
<1>3. ASSUME NEW d \in Calls, Miss(d) PROVE OnlyFreshOpen'
  BY <1>3 DEF Miss, Goto
<1>4. ASSUME NEW d \in Calls, DialOK(d) PROVE OnlyFreshOpen'
  BY <1>4 DEF DialOK, Goto
<1>5. ASSUME NEW d \in Calls, DialFail(d) PROVE OnlyFreshOpen'
  BY <1>5 DEF DialFail, Goto
<1>6. ASSUME NEW d \in Calls, Install(d) PROVE OnlyFreshOpen'
  BY <1>6 DEF Install, Created, Watch, Goto
<1>7. ASSUME NEW d \in Calls, LoseRace(d) PROVE OnlyFreshOpen'
  BY <1>7 DEF LoseRace, Created, UseExisting, Goto
<1>8. ASSUME NEW d \in Calls, CloseDup(d) PROVE OnlyFreshOpen'
  BY <1>8 DEF CloseDup, CloseFresh, ReturnExisting, Goto
<1>9. ASSUME NEW d \in Calls, OpenOK(d) PROVE OnlyFreshOpen'
  BY <1>9 DEF OpenOK, CanOpen, Goto
<1>10. ASSUME NEW d \in Calls, OpenFail(d) PROVE OnlyFreshOpen'
  BY <1>10 DEF OpenFail, CanOpen, AfterFailure, Goto
<1>11. ASSUME NEW d \in Calls, Remove(d) PROVE OnlyFreshOpen'
  BY <1>11 DEF Remove, RemoveConn, Goto
<1>12. ASSUME NEW d \in Calls, Cancel(d) PROVE OnlyFreshOpen'
  BY <1>12 DEF Cancel
<1>13. ASSUME NEW c \in Conns, Monitor(c) PROVE OnlyFreshOpen'
  BY <1>13 DEF Monitor, RemoveConn
<1>14. ASSUME NEW c \in Conns, ConnDies(c) PROVE OnlyFreshOpen'
  BY <1>14 DEF ConnDies
<1>15. CASE CloseAll
  BY <1>15 DEF CloseAll, ClosePooled, Pooled
<1>16. CASE UNCHANGED vars
  BY <1>16 DEF vars
<1> QED BY <1>1, <1>2, <1>3, <1>4, <1>5, <1>6, <1>7, <1>8, <1>9, <1>10,
           <1>11, <1>12, <1>13, <1>14, <1>15, <1>16
           DEF Next, CallStep

\* An ended connection stays ended.
LEMMA ReasonStep == IInv /\ [Next]_vars => RemoveReason'
<1> SUFFICES ASSUME IInv, [Next]_vars PROVE RemoveReason'
  OBVIOUS
<1> USE FreshName
        DEF IInv, TypeOK, Returned, RemoveReason, Dialled, UsesInstalled,
            Established
<1>1. ASSUME NEW d \in Calls, NEW a \in Addrs, Dial(d, a)
      PROVE  RemoveReason'
  BY <1>1 DEF Dial, Goto
<1>2. ASSUME NEW d \in Calls, Reuse(d) PROVE RemoveReason'
  BY <1>2 DEF Reuse, Goto
<1>3. ASSUME NEW d \in Calls, Miss(d) PROVE RemoveReason'
  BY <1>3 DEF Miss, Goto
<1>4. ASSUME NEW d \in Calls, DialOK(d) PROVE RemoveReason'
  BY <1>4 DEF DialOK, Goto
<1>5. ASSUME NEW d \in Calls, DialFail(d) PROVE RemoveReason'
  BY <1>5 DEF DialFail, Goto
<1>6. ASSUME NEW d \in Calls, Install(d) PROVE RemoveReason'
  BY <1>6 DEF Install, Created, Watch, Goto
<1>7. ASSUME NEW d \in Calls, LoseRace(d) PROVE RemoveReason'
  BY <1>7 DEF LoseRace, Created, UseExisting, Goto
<1>8. ASSUME NEW d \in Calls, CloseDup(d) PROVE RemoveReason'
  BY <1>8 DEF CloseDup, CloseFresh, ReturnExisting, Goto
<1>9. ASSUME NEW d \in Calls, OpenOK(d) PROVE RemoveReason'
  BY <1>9 DEF OpenOK, CanOpen, Goto
<1>10. ASSUME NEW d \in Calls, OpenFail(d) PROVE RemoveReason'
  BY <1>10 DEF OpenFail, CanOpen, AfterFailure, Goto
<1>11. ASSUME NEW d \in Calls, Remove(d) PROVE RemoveReason'
  BY <1>11 DEF Remove, RemoveConn, Goto
<1>12. ASSUME NEW d \in Calls, Cancel(d) PROVE RemoveReason'
  BY <1>12 DEF Cancel
<1>13. ASSUME NEW c \in Conns, Monitor(c) PROVE RemoveReason'
  BY <1>13 DEF Monitor, RemoveConn
<1>14. ASSUME NEW c \in Conns, ConnDies(c) PROVE RemoveReason'
  BY <1>14 DEF ConnDies
<1>15. CASE CloseAll
  BY <1>15 DEF CloseAll, ClosePooled, Pooled
<1>16. CASE UNCHANGED vars
  BY <1>16 DEF vars
<1> QED BY <1>1, <1>2, <1>3, <1>4, <1>5, <1>6, <1>7, <1>8, <1>9, <1>10,
           <1>11, <1>12, <1>13, <1>14, <1>15, <1>16
           DEF Next, CallStep

\* While nothing went wrong no step deletes an entry that is in use.
LEMMA StillStep == IInv /\ [Next]_vars => StillPooled'
<1> SUFFICES ASSUME IInv, [Next]_vars PROVE StillPooled'
  OBVIOUS
<1> USE FreshName, NamesKept, DialerAssumption
        DEF IInv, TypeOK, Returned, StillPooled, Undisturbed, Established
<1>1. ASSUME NEW d \in Calls, NEW a \in Addrs, Dial(d, a)
      PROVE  StillPooled'
  <2>1. \A c \in Conns : Peer(c) # None => Peer(c)' = Peer(c)
    BY <1>1, PeerDial
  <2> QED BY <1>1, <2>1 DEF Dial, Goto, Dialled
<1>2. ASSUME NEW d \in Calls, Reuse(d) PROVE StillPooled'
  BY <1>2 DEF Reuse, Goto
<1>3. ASSUME NEW d \in Calls, Miss(d) PROVE StillPooled'
  BY <1>3 DEF Miss, Goto
<1>4. ASSUME NEW d \in Calls, DialOK(d) PROVE StillPooled'
  <2>1. \A c \in Conns : Established(c) => c # Fresh(d)
    BY <1>4 DEF DialOK, FreshUnused, Early
  <2>2. Undisturbed' => Undisturbed
    BY <1>4, <2>1 DEF DialOK
  <2> QED BY <1>4, <2>2 DEF DialOK
<1>5. ASSUME NEW d \in Calls, DialFail(d) PROVE StillPooled'
  BY <1>5 DEF DialFail, Goto
<1>6. ASSUME NEW d \in Calls, Install(d) PROVE StillPooled'
  BY <1>6
  DEF Install, Created, Watch, Goto, AddrKnown, Dialled
<1>7. ASSUME NEW d \in Calls, LoseRace(d) PROVE StillPooled'
  BY <1>7 DEF LoseRace, Created, UseExisting, Goto
<1>8. ASSUME NEW d \in Calls, CloseDup(d) PROVE StillPooled'
  BY <1>8 DEF CloseDup, CloseFresh, ReturnExisting, Goto
<1>9. ASSUME NEW d \in Calls, OpenOK(d) PROVE StillPooled'
  BY <1>9 DEF OpenOK, CanOpen, Goto
<1>10. ASSUME NEW d \in Calls, OpenFail(d) PROVE StillPooled'
  BY <1>10 DEF OpenFail, CanOpen, AfterFailure, Goto
<1>11. ASSUME NEW d \in Calls, Remove(d) PROVE StillPooled'
  BY <1>11
  DEF Remove, RemoveConn, Goto, RemoveReason, UsesInstalled
<1>12. ASSUME NEW d \in Calls, Cancel(d) PROVE StillPooled'
  BY <1>12 DEF Cancel
<1>13. ASSUME NEW c \in Conns, Monitor(c) PROVE StillPooled'
  BY <1>13 DEF Monitor, RemoveConn
<1>14. ASSUME NEW c \in Conns, ConnDies(c) PROVE StillPooled'
  BY <1>14 DEF ConnDies
<1>15. CASE CloseAll
  BY <1>15
  DEF CloseAll, ClosePooled, Pooled, PooledWatched
<1>16. CASE UNCHANGED vars
  BY <1>16 DEF vars
<1> QED BY <1>1, <1>2, <1>3, <1>4, <1>5, <1>6, <1>7, <1>8, <1>9, <1>10,
           <1>11, <1>12, <1>13, <1>14, <1>15, <1>16
           DEF Next, CallStep

-----------------------------------------------------------------------------

LEMMA InitInv == Init => IInv
<1> SUFFICES ASSUME Init PROVE IInv
  OBVIOUS
<1> USE Owner, FreshName, SecondName, DialerAssumption DEF Init
<1>1. TypeOK /\ AddrKnown
  BY DEF TypeOK, AddrKnown, Returned
<1>2. PooledWatched
  BY DEF PooledWatched
<1>3. UsesInstalled /\ RemoveReason
  BY DEF UsesInstalled, RemoveReason
<1>4. FreshUnused /\ FailedGone
  BY DEF FreshUnused, FailedGone, Early
<1>5. OnlyFreshOpen /\ StillPooled /\ Dialled
  BY DEF OnlyFreshOpen, StillPooled, Dialled, Established
<1> QED BY <1>1, <1>2, <1>3, <1>4, <1>5 DEF IInv

THEOREM Inductive == Spec => []IInv
<1>1. IInv /\ [Next]_vars => IInv'
  BY TypeStep, AddrStep, PooledStep, UsesStep, FreshStep, FailedStep,
     DialledStep, OpenStep, ReasonStep, StillStep DEF IInv
<1> QED BY <1>1, InitInv, PTL DEF Spec

\* For any calls and addresses, the variables keep their types.
THEOREM TypeCorrect == Spec => []TypeOK
<1>1. IInv => TypeOK
  BY DEF IInv
<1> QED BY <1>1, Inductive, PTL

\* A pooled connection always has the goroutine that will evict it.
THEOREM PooledWatchedCorrect == Spec => []PooledWatched
<1>1. IInv => PooledWatched
  BY DEF IInv
<1> QED BY <1>1, Inductive, PTL

\* A call never opens its stream on the connection that lost the race.
THEOREM StreamsCorrect == Spec => []StreamsOnInstalled
<1>1. IInv => StreamsOnInstalled
  BY DialerAssumption DEF IInv, UsesInstalled, StreamsOnInstalled
<1> QED BY <1>1, Inductive, PTL

\* Between DialAddr and the pool no connection leaks.
THEOREM DuplicatesCorrect == Spec => []DuplicatesClosed
<1>1. IInv => DuplicatesClosed
  BY DEF IInv, OnlyFreshOpen, DuplicatesClosed
<1> QED BY <1>1, Inductive, PTL

\* A retry never gets back the connection whose OpenStream failed.
THEOREM RetryCorrect == Spec => []RetryElsewhere
<1>1. IInv => RetryElsewhere
  BY DEF IInv, FailedGone, RetryElsewhere
<1> QED BY <1>1, Inductive, PTL

\* For any number of racing calls: one connection per address, until one ends
\* or a call is cancelled.
THEOREM SharedCorrect == Spec => []SharedUntilLoss
<1>1. IInv => SharedUntilLoss
  BY DEF IInv, StillPooled, SharedUntilLoss, SingleConn
<1> QED BY <1>1, Inductive, PTL
=============================================================================
