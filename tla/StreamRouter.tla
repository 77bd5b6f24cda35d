---------------------------- MODULE StreamRouter ----------------------------
(***************************************************************************)
(* What the multiplexed listener promises the two gRPC servers behind it   *)
(* (docs/design/protocol.md, pkg/transport/quic/README.md): a stream goes  *)
(* at most once to a server, to the one of its type, through a bounded     *)
(* queue; the streams of one connection are routed in the order in which   *)
(* they were opened; a stream that was queued is not thrown away.          *)
(***************************************************************************)
EXTENDS Naturals, Sequences

CONSTANTS
    StreamTypes,    \* per connection, the types of its streams in order
    Types,          \* the types that have a server
    Cap             \* how many streams may wait for a server

VARIABLES
    queue,          \* per type, the streams waiting
    fate            \* what happened to each stream

vars == <<queue, fate>>

Streams ==
    UNION {{<<c, i>> : i \in DOMAIN StreamTypes[c]} : c \in DOMAIN StreamTypes}
TypeOf(s) == StreamTypes[s[1]][s[2]]

Init ==
    /\ queue = [t \in Types |-> <<>>]
    /\ fate = [s \in Streams |-> "pending"]

\* The streams opened before s on its connection
Earlier(s) == {e \in Streams : e[1] = s[1] /\ e[2] < s[2]}

\* s is the next stream of its connection to be decided.
Due(s) == fate[s] = "pending" /\ \A e \in Earlier(s) : fate[e] # "pending"

Route(s) ==
    /\ Due(s)
    /\ TypeOf(s) \in Types
    /\ Len(queue[TypeOf(s)]) < Cap
    /\ queue' = [queue EXCEPT ![TypeOf(s)] = Append(@, s)]
    /\ fate' = [fate EXCEPT ![s] = "queued"]

Deliver(t) ==
    /\ queue[t] # <<>>
    /\ queue' = [queue EXCEPT ![t] = Tail(@)]
    /\ fate' = [fate EXCEPT ![Head(queue[t])] = "delivered"]

Drop(s) ==
    /\ Due(s)
    /\ fate' = [fate EXCEPT ![s] = "dropped"]
    /\ UNCHANGED queue

Next ==
    \/ \E s \in Streams : Route(s) \/ Drop(s)
    \/ \E t \in Types : Deliver(t)

Spec == Init /\ [][Next]_vars

-----------------------------------------------------------------------------

\* A stream waits only for the server of its type, and only until it is given
\* to it; those of one connection wait in the order in which they were opened,
\* none of them twice.
QueuesInOrder ==
    \A t \in Types :
        /\ \A i \in DOMAIN queue[t] :
               TypeOf(queue[t][i]) = t /\ fate[queue[t][i]] = "queued"
        /\ \A i, j \in DOMAIN queue[t] :
               i < j /\ queue[t][i][1] = queue[t][j][1]
                   => queue[t][i][2] < queue[t][j][2]
=============================================================================
