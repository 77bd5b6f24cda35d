--------------------------- MODULE ExecutorProofs ---------------------------
(* Proofs about Executor, for any requests, configurations and lengths of  *)
(* answers and channels.                                                   *)
EXTENDS Executor, SequenceTheorems, TLAPS

-----------------------------------------------------------------------------
(* Types *)

Labels == Returned \cup
    {"idle", "call", "prompt", "generate", "answer", "range", "working",
     "completed", "failed"}

\* The messages that are sent are texts.
LEMMA TextTypes ==
    /\ Whole \in Texts /\ Len(Whole) = Pieces
    /\ <<>> \in Texts /\ Len(<<>>) = 0
    /\ NoEvent \in StreamEvents /\ Done \in StreamEvents /\ Error \in StreamEvents
    /\ [Error EXCEPT !.done = FALSE] \in StreamEvents
    /\ \A t \in Texts :
           Piece(t) \in StreamEvents /\ [Done EXCEPT !.content = t] \in StreamEvents
    /\ \A n \in 0 .. Pieces : n < Pieces => <<n + 1>> \in Texts
<1>1. Pieces \in Nat
  BY ExecutorAssumption
<1>2. Whole \in Texts /\ Len(Whole) = Pieces
  BY <1>1 DEF Whole, Texts
<1>3. <<>> \in Texts /\ Len(<<>>) = 0
  BY DEF Texts
<1>4. \A n \in 0 .. Pieces : n < Pieces => <<n + 1>> \in Texts
  BY <1>1 DEF Texts
<1> QED BY <1>2, <1>3, <1>4 DEF NoEvent, Done, Error, Piece, StreamEvents

\* What a step of the configuration leaves alone.
LEMMA Configured ==
    TypeOK => /\ provider \in {"echo", "ollama", "mcphost"}
              /\ streaming \in BOOLEAN
              /\ Cap \in Nat \ {0}
              /\ \A r \in Requests : Message(r) \in Texts /\ Len(Message(r)) \in 0 .. Pieces
<1> SUFFICES ASSUME TypeOK
             PROVE  /\ provider \in {"echo", "ollama", "mcphost"}
                    /\ streaming \in BOOLEAN
                    /\ Cap \in Nat \ {0}
                    /\ \A r \in Requests : Message(r) \in Texts /\ Len(Message(r)) \in 0 .. Pieces
  OBVIOUS
<1>1. /\ provider \in {"echo", "ollama", "mcphost"} /\ streaming \in BOOLEAN
  BY ExecutorAssumption DEF TypeOK
<1>2. Cap \in Nat \ {0}
  BY <1>1, ExecutorAssumption DEF Cap
<1>3. \A r \in Requests : Message(r) \in Texts /\ Len(Message(r)) \in 0 .. Pieces
  BY TextTypes, ExecutorAssumption DEF Message
<1> QED BY <1>1, <1>2, <1>3

LEMMA TypeInit == Init => TypeOK
<1> SUFFICES ASSUME Init PROVE TypeOK
  OBVIOUS
<1>1. PICK c \in Configurations : /\ provider = c.provider
                                  /\ streaming = c.streaming
                                  /\ textless = c.textless
  BY DEF Init
<1>2. c = [provider |-> provider, streaming |-> streaming, textless |-> textless]
  BY <1>1, ExecutorAssumption
<1>3. Cap \in Nat \ {0}
  BY <1>1, ExecutorAssumption DEF Cap
<1>4. \A r \in Requests : ch[r] = <<>> /\ ch[r] \in Seq(StreamEvents) /\ Len(ch[r]) = 0
  BY EmptySeq DEF Init
<1>5. \A r \in Requests : queue[r] \in Seq(Events)
  BY EmptySeq DEF Init
<1> QED BY <1>2, <1>3, <1>4, <1>5, TextTypes, ExecutorAssumption DEF Init, TypeOK

\* A channel that has room takes one event more.
LEMMA SendTypes ==
    ASSUME TypeOK, NEW r \in Requests, NEW e \in StreamEvents, Send(r, e)
    PROVE  /\ ch' \in [Requests -> Seq(StreamEvents)]
           /\ \A q \in Requests : Len(ch'[q]) <= Cap
BY Configured DEF TypeOK, Send, Room

LEMMA WriteTypes ==
    ASSUME TypeOK, NEW r \in Requests, NEW kind \in EventKinds, NEW t \in Texts,
           Write(r, kind, t)
    PROVE  queue' \in [Requests -> Seq(Events)]
<1>1. [kind |-> kind, text |-> t] \in Events
  BY DEF Events
<1> QED BY <1>1 DEF TypeOK, Write

\* What Execute writes, or fails to write, is an event.
LEMMA WriteOrFailTypes ==
    ASSUME TypeOK, NEW r \in Requests, NEW kind \in EventKinds, NEW t \in Texts,
           NEW next \in {"ok", "completed", "range"}, WriteOrFail(r, kind, t, next)
    PROVE  /\ queue' \in [Requests -> Seq(Events)]
           /\ exec' \in [Requests -> Labels]
           /\ UNCHANGED <<config, ctx, prodVars, hostVars>>
<1>1. CASE Write(r, kind, t) /\ Goto(r, next)
  BY <1>1, WriteTypes DEF TypeOK, Goto, Labels, Returned, WriteOrFail
<1>2. CASE Goto(r, "err") /\ UNCHANGED queue
  BY <1>2 DEF TypeOK, Goto, Labels, Returned, WriteOrFail
<1> QED BY <1>1, <1>2 DEF WriteOrFail

LEMMA TypeStep == TypeOK /\ [Next]_vars => TypeOK'
<1> SUFFICES ASSUME TypeOK, [Next]_vars PROVE TypeOK'
  OBVIOUS
<1>c. UNCHANGED config => UNCHANGED Cap
  BY DEF config, Cap
<1>r. ASSUME NEW r \in Requests,
             \/ Execute(r) \/ ContextEnds(r) \/ Cancel(r)
             \/ ExecuteStep(r) \/ ProducerStep(r) \/ BackendStep(r)
      PROVE  TypeOK'
  <2> USE DEF config, execVars, prodVars, hostVars
  <2>t. /\ exec \in [Requests -> Labels] /\ text \in [Requests -> Texts]
        /\ prod \in [Requests -> {"none", "prompt", "run", "close", "done"}]
    BY DEF TypeOK, Labels
  <2>1. CASE Execute(r)
    BY <2>1, <1>c DEF Execute, Goto, TypeOK, Returned
  <2>2. CASE ContextEnds(r)
    BY <2>2, <1>c DEF ContextEnds, TypeOK
  <2>3. CASE Cancel(r)
    <3>1. queue' \in [Requests -> Seq(Events)]
      BY <2>3, WriteTypes, TextTypes DEF Cancel, EventKinds
    <3> QED BY <2>3, <3>1, <1>c DEF Cancel, TypeOK
  <2>4. CASE WriteMessage(r)
    <3>1. text[r] \in Texts /\ WriteOrFail(r, "message", text[r], "ok")
      BY <2>4 DEF WriteMessage, TypeOK
    <3>2. /\ queue' \in [Requests -> Seq(Events)] /\ exec' \in [Requests -> Labels]
          /\ UNCHANGED <<config, ctx, prodVars, hostVars>>
      BY <3>1, WriteOrFailTypes DEF EventKinds
    <3> QED BY <2>4, <3>2, <1>c DEF WriteMessage, TypeOK, Labels
  <2>5. CASE WriteWorking(r)
    <3>1. /\ text[r] \in Texts /\ event[r].content \in Texts
          /\ AfterWorking(r) \in {"ok", "completed", "range"}
          /\ WriteOrFail(r, "working", event[r].content, AfterWorking(r))
      BY <2>5 DEF WriteWorking, TypeOK, StreamEvents, AfterWorking
    <3>2. text[r] \o event[r].content \in Texts
      BY <3>1, ConcatProperties DEF Texts
    <3>3. /\ queue' \in [Requests -> Seq(Events)] /\ exec' \in [Requests -> Labels]
          /\ UNCHANGED <<config, ctx, prodVars, hostVars>>
      BY <3>1, WriteOrFailTypes DEF EventKinds
    <3> QED BY <2>5, <3>2, <3>3, <1>c DEF WriteWorking, Accumulate, TypeOK, Labels
  <2>6. CASE WriteCompleted(r)
    <3>1. text[r] \in Texts /\ WriteOrFail(r, "completed", text[r], "ok")
      BY <2>6 DEF WriteCompleted, AfterCompleted, TypeOK
    <3>2. /\ queue' \in [Requests -> Seq(Events)] /\ exec' \in [Requests -> Labels]
          /\ UNCHANGED <<config, ctx, prodVars, hostVars>>
      BY <3>1, WriteOrFailTypes DEF EventKinds
    <3> QED BY <2>6, <3>2, <1>c DEF WriteCompleted, TypeOK, Labels
  <2>7. CASE WriteError(r)
    <3>1. /\ queue' \in [Requests -> Seq(Events)] /\ exec' \in [Requests -> Labels]
          /\ UNCHANGED <<config, ctx, prodVars, hostVars>>
      BY <2>7, WriteOrFailTypes, TextTypes DEF EventKinds, WriteError
    <3> QED BY <2>7, <3>1, <1>c DEF WriteError, TypeOK, Labels
  <2>8. CASE Receive(r)
    <3>1. /\ Head(ch[r]) \in StreamEvents /\ Tail(ch[r]) \in Seq(StreamEvents)
          /\ Len(Tail(ch[r])) = Len(ch[r]) - 1 /\ Len(ch[r]) \in Nat
      BY <2>8, HeadTailProperties, LenProperties DEF Receive, TypeOK
    <3>2. AfterReceive(Head(ch[r])) \in Labels
      BY DEF AfterReceive, Labels
    <3> QED BY <2>8, <3>1, <3>2, <1>c, Configured DEF Receive, Goto, TypeOK, Labels
  <2>9. CASE StreamEnded(r)
    BY <2>9, <1>c DEF StreamEnded, Goto, TypeOK
  <2>10. CASE EchoComplete(r)
    BY <2>10, <1>c, Configured DEF EchoComplete, Answer, Goto, TypeOK
  <2>11. CASE OllamaComplete(r)
    <3>1. /\ exec' \in [Requests -> Labels] /\ text' \in [Requests -> Texts]
          /\ errored' \subseteq Requests
      <4>1. /\ errored' = errored \cup {r} \/ errored' = errored
            /\ \E label \in Labels : Goto(r, label)
        BY <2>11 DEF OllamaComplete, Answer, Fails, Errs, Labels
      <4>2. text' \in [Requests -> Texts]
        BY <2>11, <2>t, TextTypes DEF OllamaComplete, Answer
      <4>3. exec' \in [Requests -> Labels]
        BY <2>t, <4>1 DEF Goto
      <4>4. errored' \subseteq Requests
        BY <4>1 DEF TypeOK
      <4> QED BY <4>2, <4>3, <4>4
    <3>2. UNCHANGED <<config, ctx, event, queue, prod, sent, ch, hostVars>>
      BY <2>11 DEF OllamaComplete
    <3> QED BY <3>1, <3>2, <1>c DEF TypeOK, Labels
  <2>12. CASE McpLock(r)
    <3>1. /\ exec' \in [Requests -> Labels]
          /\ mu' = r \/ mu' = mu
          /\ session' = {} /\ errored' \subseteq Requests
      BY <2>12, <2>t DEF McpLock, Lock, Fails, Errs, Goto, Labels, TypeOK
    <3>2. UNCHANGED <<config, ctx, text, event, queue, prod, sent, ch, seen>>
      BY <2>12 DEF McpLock
    <3> QED BY <3>1, <3>2, <1>c DEF TypeOK, Labels
  <2>13. CASE McpPrompt(r)
    BY <2>13, <1>c DEF McpPrompt, Prompt, Goto, TypeOK
  <2>14. CASE McpComplete(r)
    <3>1. /\ exec' \in [Requests -> Labels] /\ text' \in [Requests -> Texts]
          /\ errored' \subseteq Requests
      <4>1. /\ errored' = errored \cup {r} \/ errored' = errored
            /\ \E label \in Labels : Goto(r, label)
        BY <2>14 DEF McpComplete, Answer, Fails, Errs, Labels
      <4>2. text' \in [Requests -> Texts]
        BY <2>14, <2>t, TextTypes DEF McpComplete, Answer
      <4>3. exec' \in [Requests -> Labels]
        BY <2>t, <4>1 DEF Goto
      <4>4. errored' \subseteq Requests
        BY <4>1 DEF TypeOK
      <4> QED BY <4>2, <4>3, <4>4
    <3>2. mu' = None /\ UNCHANGED <<config, ctx, event, queue, prod, sent, ch, session, seen>>
      BY <2>14 DEF McpComplete, Unlock
    <3> QED BY <3>1, <3>2, <1>c DEF TypeOK, Labels
  <2>15. CASE EchoStream(r) \/ OllamaStream(r) \/ McpStream(r)
    <3>1. /\ exec' \in [Requests -> Labels]
          /\ prod' \in [Requests -> {"none", "prompt", "run", "close", "done"}]
          /\ errored' \subseteq Requests
      <4>1. \/ Streams(r, "run") \/ Streams(r, "prompt") \/ Refuses(r)
        BY <2>15 DEF EchoStream, OllamaStream, McpStream
      <4>2. exec' \in [Requests -> Labels]
        BY <4>1 DEF Streams, Refuses, Fails, Goto, TypeOK, Labels
      <4>3. prod' \in [Requests -> {"none", "prompt", "run", "close", "done"}]
        BY <4>1 DEF Streams, Refuses, Produce, TypeOK
      <4>4. errored' \subseteq Requests
        BY <4>1 DEF Streams, Refuses, Fails, Errs, TypeOK
      <4> QED BY <4>2, <4>3, <4>4
    <3>2. session' = {} \/ UNCHANGED session
      BY <2>15 DEF EchoStream, OllamaStream, McpStream
    <3>3. UNCHANGED <<config, ctx, text, event, queue, sent, ch, mu, seen>>
      BY <2>15 DEF EchoStream, OllamaStream, McpStream
    <3> QED BY <3>1, <3>2, <3>3, <1>c DEF TypeOK, Labels
  <2>16. CASE EchoProduce(r)
    <3>1. [Done EXCEPT !.content = Message(r)] \in StreamEvents
      BY TextTypes, Configured
    <3> QED BY <2>16, <1>c, <3>1, SendTypes, Configured
            DEF EchoProduce, ProducerUnchanged, Produce, TypeOK
  <2>17. CASE OllamaPiece(r) \/ McpPiece(r)
    <3>1. /\ Piece(<<sent[r] + 1>>) \in StreamEvents /\ sent[r] + 1 \in 0 .. Pieces
          /\ sent' = [sent EXCEPT ![r] = @ + 1]
      <4>1. /\ sent[r] \in 0 .. Pieces /\ sent[r] < Pieces /\ Pieces \in Nat
            /\ sent' = [sent EXCEPT ![r] = @ + 1]
        BY <2>17, ExecutorAssumption DEF OllamaPiece, McpPiece, TypeOK
      <4>2. sent[r] + 1 \in 0 .. Pieces
        BY <4>1
      <4>3. <<sent[r] + 1>> \in Texts
        BY <4>1, TextTypes
      <4> QED BY <4>1, <4>2, <4>3, TextTypes
    <3>2. /\ ch' \in [Requests -> Seq(StreamEvents)]
          /\ \A q \in Requests : Len(ch'[q]) <= Cap
      BY <2>17, <3>1, SendTypes DEF OllamaPiece, McpPiece, SendOrGiveUp, TypeOK
    <3> QED BY <2>17, <1>c, <3>1, <3>2
            DEF OllamaPiece, McpPiece, ProducerUnchanged, TypeOK
  <2>18. CASE OllamaEnds(r) \/ McpEnds(r)
    <3>1. /\ ch' \in [Requests -> Seq(StreamEvents)]
          /\ \A q \in Requests : Len(ch'[q]) <= Cap
      BY <2>18, TextTypes, SendTypes DEF OllamaEnds, McpEnds, SendOrGiveUp, TypeOK
    <3>2. prod' \in [Requests -> {"none", "prompt", "run", "close", "done"}]
      BY <2>18, <2>t DEF OllamaEnds, McpEnds, Produce
    <3>3. UNCHANGED <<config, ctx, exec, text, event, queue, sent, mu, session, seen>>
      BY <2>18 DEF OllamaEnds, McpEnds, ProducerUnchanged
    <3>4. errored' \subseteq Requests
      BY <2>18 DEF OllamaEnds, McpEnds, Errs, TypeOK
    <3> QED BY <1>c, <3>1, <3>2, <3>3, <3>4 DEF TypeOK
  <2>19. CASE McpProduce(r)
    BY <2>19, <1>c DEF McpProduce, Prompt, ProducerUnchanged, Produce, TypeOK
  <2>20. CASE CloseChannel(r)
    BY <2>20, <1>c DEF CloseChannel, ProducerUnchanged, Produce, TypeOK
  <2> QED BY <1>r, <2>1, <2>2, <2>3, <2>4, <2>5, <2>6, <2>7, <2>8, <2>9, <2>10,
             <2>11, <2>12, <2>13, <2>14, <2>15, <2>16, <2>17, <2>18, <2>19, <2>20
          DEF ExecuteStep, ProducerStep, BackendStep
<1>s. CASE UNCHANGED vars
  BY <1>s, <1>c DEF vars, config, execVars, prodVars, hostVars, TypeOK
<1> QED BY <1>r, <1>s DEF Next

-----------------------------------------------------------------------------
(* The invariants *)

\* Execute returns with its final event, so that it cannot write another.
FinalReturns == \A r \in Requests : Has(r, Final) => exec[r] = "ok"

FinalInv == TypeOK /\ FinalIsLast /\ FinalReturns

\* An error that was received leads to the failed event and nowhere else.
ErrorFails ==
    \A r \in Requests :
        event[r].error =>
            exec[r] \in {"failed"} \cup Returned /\ ~Has(r, {"completed"})

\* Without streaming there is no goroutine, a request that prompts holds the
\* mutex, and finds the session as ClearSession left it.
HolderAlone ==
    ~streaming =>
        \A r \in Requests :
            /\ prod[r] = "none"
            /\ exec[r] \in {"prompt", "generate"} => mu = r
            /\ exec[r] = "prompt" => session = {}
            /\ seen[r] \subseteq {r}

\* Before the provider streams there is no goroutine, so that nothing was sent
\* and nothing can have been received.
NotStarted(r) ==
    /\ exec[r] \in {"idle", "call"} => text[r] = <<>>
    /\ exec[r] \in {"idle", "call", "prompt", "generate", "answer"}
           => prod[r] = "none"
    /\ prod[r] = "none" =>
           /\ sent[r] = 0 /\ ch[r] = <<>>
           /\ exec[r] \notin {"range", "working", "completed"}
    /\ provider = "echo" => prod[r] # "prompt"
    /\ provider = "echo" /\ prod[r] = "run" => sent[r] = 0

\* The text of a request, with that of the event it has in hand
Received(r) == IF exec[r] = "working" THEN text[r] \o event[r].content ELSE text[r]
First(n) == [i \in 1 .. n |-> i]

\* A text that has the first n pieces and, for mcphost, the answer again
AllOf(t, n) == t = First(n) \o Repeated

\* Execute has the first pieces, and the next n events in the channel bring
\* one more piece each.
InOrder(r, n) ==
    /\ exec[r] \in {"range", "working"}
    /\ exec[r] = "working" => ~event[r].done
    /\ Received(r) = First(Len(Received(r)))
    /\ \A i \in 1 .. n : ch[r][i] = Piece(<<Len(Received(r)) + i>>)

\* The backend is not done: what was sent was received or is in the channel.
Flowing(r) ==
    /\ prod[r] \in {"prompt", "run"}
    /\ InOrder(r, Len(ch[r]))
    /\ Len(Received(r)) + Len(ch[r]) = sent[r]

\* The last event is in the channel, and completes the text if it is no error.
Ending(r) ==
    /\ prod[r] \in {"close", "done"}
    /\ ch[r] # <<>>
    /\ InOrder(r, Len(ch[r]) - 1)
    /\ LET last == ch[r][Len(ch[r])]
           pieces == Len(Received(r)) + Len(ch[r]) - 1
       IN  /\ pieces <= Pieces
           /\ \/ last.error
              \/ last.done /\ AllOf(First(pieces) \o last.content, sent[r])

\* The last event was received.
Complete(r) ==
    /\ prod[r] \in {"close", "done"}
    /\ ch[r] = <<>>
    /\ \/ exec[r] \in {"failed", "ok"}
       \/ exec[r] = "working" /\ event[r].done /\ AllOf(Received(r), sent[r])
       \/ exec[r] = "completed" /\ AllOf(text[r], sent[r])

\* Nothing is lost on the way from a backend to a client that waits.
Flow(r) ==
    ~Gone(r) => prod[r] = "none" \/ Flowing(r) \/ Ending(r) \/ Complete(r)

\* What was reported as completed stays complete: the goroutine is at its end.
ReportedWhole(r) ==
    \A i \in DOMAIN queue[r] :
        queue[r][i].kind = "completed" /\ ~Gone(r) =>
            prod[r] \in {"close", "done"} /\ AllOf(queue[r][i].text, sent[r])

FlowInv ==
    /\ FinalInv
    /\ \A r \in Requests : NotStarted(r) /\ Flow(r) /\ ReportedWhole(r)

-----------------------------------------------------------------------------
(* One final event, and no success after an error *)

Wrote(r, kind, t) == queue'[r] = Append(queue[r], [kind |-> kind, text |-> t])

\* What a step may do to the events of a request and to its Execute.
Quiet(r) ==
    queue'[r] = queue[r] /\ (exec'[r] = "ok" <=> exec[r] = "ok")
Cancels(r) ==
    Wrote(r, "canceled", <<>>) /\ exec'[r] = exec[r] /\ exec[r] \notin Returned
Reports(r) ==
    /\ exec[r] = "working" /\ exec'[r] \in {"range", "completed"}
    /\ Wrote(r, "working", event[r].content)
Finishes(r) ==
    /\ exec'[r] = "ok"
    /\ \/ exec[r] = "answer" /\ Wrote(r, "message", text[r])
       \/ exec[r] = "completed" /\ Wrote(r, "completed", text[r])
       \/ exec[r] = "failed" /\ Wrote(r, "failed", <<>>)

LEMMA EventMoves ==
    ASSUME TypeOK, [Next]_vars, NEW q \in Requests
    PROVE  Quiet(q) \/ Cancels(q) \/ Reports(q) \/ Finishes(q)
<1> USE DEF Quiet, Returned
<1>r. ASSUME NEW r \in Requests,
             \/ Execute(r) \/ ContextEnds(r) \/ Cancel(r)
             \/ ExecuteStep(r) \/ ProducerStep(r) \/ BackendStep(r)
      PROVE  Quiet(q) \/ Cancels(q) \/ Reports(q) \/ Finishes(q)
  <2> USE DEF TypeOK
  <2>1. CASE Execute(r) \/ ContextEnds(r)
    BY <2>1 DEF Execute, ContextEnds, Goto, execVars
  <2>2. CASE Cancel(r)
    BY <2>2 DEF Cancel, Write, Cancels, Wrote
  <2>3. CASE WriteMessage(r)
    BY <2>3 DEF WriteMessage, WriteOrFail, Write, Goto, Finishes, Wrote
  <2>4. CASE WriteWorking(r)
    BY <2>4 DEF WriteWorking, AfterWorking, WriteOrFail, Write, Goto, Reports, Wrote
  <2>5. CASE WriteCompleted(r)
    BY <2>5 DEF WriteCompleted, AfterCompleted, WriteOrFail, Write, Goto,
                Finishes, Wrote
  <2>6. CASE WriteError(r)
    BY <2>6 DEF WriteError, WriteOrFail, Write, Goto, Finishes, Wrote
  <2>7. CASE Receive(r) \/ StreamEnded(r)
    BY <2>7 DEF Receive, AfterReceive, StreamEnded, Goto
  <2>8. CASE EchoComplete(r) \/ OllamaComplete(r) \/ McpLock(r)
             \/ McpPrompt(r) \/ McpComplete(r)
    BY <2>8 DEF EchoComplete, OllamaComplete, McpLock, McpPrompt, McpComplete,
                Calls, Answer, Fails, Goto
  <2>9. CASE EchoStream(r) \/ OllamaStream(r) \/ McpStream(r)
    BY <2>9 DEF EchoStream, OllamaStream, McpStream, Calls, Streams, Refuses, Fails, Goto
  <2>10. CASE ProducerStep(r) \/ OllamaPiece(r) \/ OllamaEnds(r)
              \/ McpProduce(r) \/ McpPiece(r) \/ McpEnds(r)
    BY <2>10 DEF ProducerStep, EchoProduce, CloseChannel, OllamaPiece, OllamaEnds,
                 McpProduce, McpPiece, McpEnds, ProducerUnchanged, execVars
  <2> QED BY <1>r, <2>1, <2>2, <2>3, <2>4, <2>5, <2>6, <2>7, <2>8, <2>9, <2>10
          DEF ExecuteStep, BackendStep
<1>s. CASE UNCHANGED vars
  BY <1>s DEF vars, execVars
<1> QED BY <1>r, <1>s DEF Next

\* The configuration never changes.
LEMMA ConfigKept == [Next]_vars => UNCHANGED config /\ Repeated' = Repeated
<1> SUFFICES ASSUME [Next]_vars PROVE UNCHANGED config
  BY DEF config, Repeated
<1>1. ASSUME NEW r \in Requests,
             \/ Execute(r) \/ ContextEnds(r) \/ Cancel(r)
             \/ ExecuteStep(r) \/ ProducerStep(r) \/ BackendStep(r)
      PROVE  UNCHANGED config
  BY <1>1 DEF Execute, ContextEnds, Cancel, ExecuteStep, WriteMessage,
          WriteWorking, WriteCompleted, WriteError, WriteOrFail, Receive,
          StreamEnded, EchoComplete, EchoStream, McpLock, McpStream,
          ProducerStep, EchoProduce, CloseChannel, BackendStep,
          OllamaComplete, OllamaStream, OllamaPiece, OllamaEnds, McpPrompt,
          McpComplete, McpProduce, McpPiece, McpEnds, ProducerUnchanged
<1> QED BY <1>1 DEF Next, vars

\* What one event more changes.
LEMMA HasOneMore ==
    ASSUME TypeOK, NEW r \in Requests, NEW kind \in EventKinds, NEW t \in Texts,
           Wrote(r, kind, t)
    PROVE  /\ \A kinds : Has(r, kinds)' <=> Has(r, kinds) \/ kind \in kinds
           /\ DOMAIN queue'[r] = DOMAIN queue[r] \cup {Len(queue[r]) + 1}
           /\ \A i \in DOMAIN queue[r] :
                  i < Len(queue[r]) + 1 /\ queue'[r][i] = queue[r][i]
           /\ queue'[r][Len(queue[r]) + 1] = [kind |-> kind, text |-> t]
<1>1. [kind |-> kind, text |-> t] \in Events
  BY DEF Events
<1>2. queue[r] \in Seq(Events) /\ Len(queue[r]) \in Nat
  BY DEF TypeOK
<1>3. /\ DOMAIN queue'[r] = DOMAIN queue[r] \cup {Len(queue[r]) + 1}
      /\ \A i \in DOMAIN queue[r] :
             i < Len(queue[r]) + 1 /\ queue'[r][i] = queue[r][i]
      /\ queue'[r][Len(queue[r]) + 1] = [kind |-> kind, text |-> t]
  BY <1>1, <1>2, AppendProperties, LenProperties DEF Wrote
<1> QED BY <1>3 DEF Has

LEMMA FinalInit == Init => FinalInv
<1> SUFFICES ASSUME Init PROVE FinalInv
  OBVIOUS
<1>1. \A r \in Requests : DOMAIN queue[r] = {} /\ exec[r] = "idle"
  <2>1. \A r \in Requests : queue[r] = <<>> /\ exec[r] = "idle"
    BY DEF Init
  <2>2. DOMAIN <<>> = {}
    OBVIOUS
  <2> QED BY <2>1, <2>2
<1> QED BY <1>1, TypeInit DEF FinalInv, FinalIsLast, FinalReturns, Has

LEMMA FinalStep == FinalInv /\ [Next]_vars => FinalInv'
<1> SUFFICES ASSUME FinalInv, [Next]_vars PROVE FinalInv'
  OBVIOUS
<1>t. TypeOK /\ TypeOK'
  BY TypeStep DEF FinalInv
<1>1. ASSUME NEW r \in Requests
      PROVE  /\ \A i, j \in DOMAIN queue'[r] :
                    i < j /\ queue'[r][i].kind \in Final
                        => queue'[r][j].kind = "canceled"
             /\ exec'[r] = "ok" => Has(r, Final)'
             /\ Has(r, Final)' => exec'[r] = "ok"
  <2> USE DEF FinalInv, FinalIsLast, FinalReturns
  <2>1. CASE Quiet(r)
    BY <2>1 DEF Quiet, Has
  <2>2. CASE Cancels(r)
    <3>1. Wrote(r, "canceled", <<>>) /\ exec'[r] # "ok" /\ exec[r] # "ok"
      BY <2>2 DEF Cancels, Returned
    <3>2. ~Has(r, Final)
      BY <3>1
    <3>3. ~Has(r, Final)'
      BY <1>t, <3>1, <3>2, HasOneMore, TextTypes DEF EventKinds, Final
    <3> QED BY <3>1, <3>3 DEF Has
  <2>3. CASE Reports(r)
    <3>1. event[r].content \in Texts
      BY <1>t DEF TypeOK, StreamEvents
    <3>2. ~Has(r, Final)
      BY <2>3 DEF Reports
    <3>3. ~Has(r, Final)' /\ exec'[r] # "ok"
      BY <1>t, <2>3, <3>1, <3>2, HasOneMore DEF Reports, EventKinds, Final
    <3> QED BY <3>3 DEF Has
  <2>4. CASE Finishes(r)
    <3>1. PICK kind \in Final, t \in Texts : Wrote(r, kind, t)
      BY <1>t, <2>4, TextTypes DEF Finishes, Final, TypeOK
    <3>2. ~Has(r, Final) /\ kind \in EventKinds /\ exec'[r] = "ok"
      BY <2>4 DEF Finishes, Final, EventKinds
    <3>3. \A i \in DOMAIN queue[r] : queue[r][i].kind \notin Final
      BY <3>2 DEF Has
    <3>4. \A i, j \in DOMAIN queue'[r] : i < j => i \in DOMAIN queue[r]
      <4>1. /\ DOMAIN queue'[r] = DOMAIN queue[r] \cup {Len(queue[r]) + 1}
            /\ \A i \in DOMAIN queue[r] : i < Len(queue[r]) + 1
        BY <1>t, <3>1, <3>2, HasOneMore
      <4>2. DOMAIN queue[r] = 1 .. Len(queue[r]) /\ Len(queue[r]) \in Nat
        BY <1>t, LenProperties DEF TypeOK
      <4> QED BY <4>1, <4>2
    <3>5. \A i \in DOMAIN queue[r] : queue'[r][i] = queue[r][i]
      BY <1>t, <3>1, <3>2, HasOneMore
    <3>6. Has(r, Final)'
      BY <1>t, <3>1, <3>2, HasOneMore
    <3> QED BY <3>2, <3>3, <3>4, <3>5, <3>6
  <2> QED BY <1>t, <2>1, <2>2, <2>3, <2>4, EventMoves
<1> QED BY <1>t, <1>1 DEF FinalInv, FinalIsLast, FinalReturns

\* Only Receive changes the event, and a failed Execute only returns.
LEMMA OverIsOver ==
    ASSUME TypeOK, [Next]_vars, NEW q \in Requests
    PROVE  \/ Receive(q)
           \/ /\ event'[q] = event[q]
              /\ exec[q] \in {"failed"} \cup Returned =>
                     exec'[q] \in {"failed"} \cup Returned
<1> DEFINE Goal == \/ Receive(q)
                   \/ /\ event'[q] = event[q]
                      /\ exec[q] \in {"failed"} \cup Returned =>
                             exec'[q] \in {"failed"} \cup Returned
<1> USE DEF Returned
<1>r. ASSUME NEW r \in Requests,
             \/ Execute(r) \/ ContextEnds(r) \/ Cancel(r)
             \/ ExecuteStep(r) \/ ProducerStep(r) \/ BackendStep(r)
      PROVE  Goal
  <2> USE DEF TypeOK
  <2>1. CASE Execute(r) \/ ContextEnds(r) \/ Cancel(r)
    BY <2>1 DEF Execute, ContextEnds, Cancel, Goto, execVars
  <2>2. CASE WriteMessage(r) \/ WriteWorking(r) \/ WriteCompleted(r) \/ WriteError(r)
    <3>1. PICK kind, t, next :
              /\ WriteOrFail(r, kind, t, next)
              /\ UNCHANGED event
              /\ exec[r] = "failed" => next = "ok"
              /\ exec[r] \notin Returned
      BY <2>2 DEF WriteMessage, WriteWorking, WriteCompleted, WriteError
    <3> QED BY <3>1 DEF WriteOrFail, Goto
  <2>3. CASE Receive(r) \/ StreamEnded(r)
    BY <2>3 DEF Receive, StreamEnded, Goto
  <2>4. CASE EchoComplete(r) \/ OllamaComplete(r) \/ McpLock(r)
             \/ McpPrompt(r) \/ McpComplete(r)
    BY <2>4 DEF EchoComplete, OllamaComplete, McpLock, McpPrompt, McpComplete,
                Calls, Answer, Fails, Goto
  <2>5. CASE EchoStream(r) \/ OllamaStream(r) \/ McpStream(r)
    BY <2>5 DEF EchoStream, OllamaStream, McpStream, Calls, Streams, Refuses, Fails, Goto
  <2>6. CASE ProducerStep(r) \/ OllamaPiece(r) \/ OllamaEnds(r)
             \/ McpProduce(r) \/ McpPiece(r) \/ McpEnds(r)
    BY <2>6 DEF ProducerStep, EchoProduce, CloseChannel, OllamaPiece, OllamaEnds,
                McpProduce, McpPiece, McpEnds, ProducerUnchanged, execVars
  <2> QED BY <1>r, <2>1, <2>2, <2>3, <2>4, <2>5, <2>6 DEF ExecuteStep, BackendStep
<1>s. CASE UNCHANGED vars
  BY <1>s DEF vars, execVars
<1> QED BY <1>r, <1>s DEF Next

-----------------------------------------------------------------------------
(* The mutex and the session *)

SessionInv == TypeOK /\ HolderAlone

LEMMA SessionInit == Init => SessionInv
BY TypeInit DEF Init, SessionInv, HolderAlone

LEMMA SessionStep == SessionInv /\ [Next]_vars => SessionInv'
<1> SUFFICES ASSUME SessionInv, [Next]_vars PROVE SessionInv'
  OBVIOUS
<1>t. TypeOK /\ TypeOK' /\ HolderAlone
  BY TypeStep DEF SessionInv
<1>c. UNCHANGED config
  BY ConfigKept
<1>1. CASE streaming
  BY <1>t, <1>1, <1>c DEF SessionInv, HolderAlone, config
<1>2. CASE ~streaming
  <2> USE <1>2 DEF HolderAlone
  <2>t. /\ exec \in [Requests -> Labels] /\ DOMAIN prod = Requests
        /\ seen \in [Requests -> SUBSET Requests] /\ streaming \in BOOLEAN
    <3>1. exec \in [Requests -> Labels]
      BY <1>t DEF TypeOK, Labels
    <3>2. DOMAIN prod = Requests /\ seen \in [Requests -> SUBSET Requests]
      BY <1>t DEF TypeOK
    <3> QED BY <1>t, <3>1, <3>2, Configured
  <2> DEFINE SameHolders ==
               \A q \in Requests :
                   exec'[q] \in {"prompt", "generate"} => exec'[q] = exec[q]
  <2>u. UNCHANGED <<config, prod, hostVars>> /\ SameHolders => HolderAlone'
    BY <1>t, <2>t DEF config, hostVars
  <2>r. ASSUME NEW r \in Requests,
               \/ Execute(r) \/ ContextEnds(r) \/ Cancel(r)
               \/ ExecuteStep(r) \/ ProducerStep(r) \/ BackendStep(r)
        PROVE  HolderAlone'
    <3>1. CASE Execute(r) \/ ContextEnds(r) \/ Cancel(r)
      <4>1. UNCHANGED <<config, prod, hostVars>>
        BY <3>1 DEF Execute, ContextEnds, Cancel, prodVars
      <4>2. SameHolders
        BY <3>1, <2>t DEF Execute, ContextEnds, Cancel, Goto, execVars
      <4> QED BY <4>1, <4>2, <2>u
    <3>2. CASE WriteMessage(r) \/ WriteWorking(r) \/ WriteCompleted(r) \/ WriteError(r)
      <4>1. PICK kind, t, next :
                WriteOrFail(r, kind, t, next) /\ next \notin {"prompt", "generate"}
        BY <3>2 DEF WriteMessage, WriteWorking, AfterWorking, WriteCompleted,
                    AfterCompleted, WriteError
      <4>2. UNCHANGED <<config, prod, hostVars>>
        BY <4>1 DEF WriteOrFail, prodVars
      <4>3. SameHolders
        BY <4>1, <2>t DEF WriteOrFail, Goto
      <4> QED BY <4>2, <4>3, <2>u
    <3>3. CASE Receive(r) \/ StreamEnded(r)
      <4>1. UNCHANGED <<config, prod, hostVars>>
        BY <3>3 DEF Receive, StreamEnded, prodVars
      <4>2. SameHolders
        BY <3>3, <2>t DEF Receive, StreamEnded, AfterReceive, Goto
      <4> QED BY <4>1, <4>2, <2>u
    <3>4. CASE EchoComplete(r) \/ OllamaComplete(r)
      <4>1. UNCHANGED <<config, prod, hostVars>>
        BY <3>4 DEF EchoComplete, OllamaComplete, prodVars
      <4>2. SameHolders
        BY <3>4, <2>t DEF EchoComplete, OllamaComplete, Answer, Fails, Goto
      <4> QED BY <4>1, <4>2, <2>u
    <3>5. CASE McpLock(r)
      BY <1>t, <2>t, <3>5, ExecutorAssumption DEF McpLock, Lock, Fails, Goto, config
    <3>6. CASE McpPrompt(r)
      BY <1>t, <2>t, <3>6 DEF McpPrompt, Prompt, Goto, config, prodVars
    <3>7. CASE McpComplete(r)
      BY <1>t, <2>t, <3>7 DEF McpComplete, Unlock, Answer, Fails, Goto, config
    <3>8. ~EchoStream(r) /\ ~OllamaStream(r) /\ ~McpStream(r)
      BY DEF EchoStream, OllamaStream, McpStream, Calls
    <3>9. ~ProducerStep(r) /\ ~OllamaPiece(r) /\ ~OllamaEnds(r)
          /\ ~McpProduce(r) /\ ~McpPiece(r) /\ ~McpEnds(r)
      BY <1>t, <2>t DEF ProducerStep, EchoProduce, CloseChannel, OllamaPiece, OllamaEnds,
                  McpProduce, McpPiece, McpEnds
    <3> QED BY <2>r, <3>1, <3>2, <3>3, <3>4, <3>5, <3>6, <3>7, <3>8, <3>9
            DEF ExecuteStep, BackendStep
  <2>s. ASSUME UNCHANGED vars PROVE HolderAlone'
    <3>1. UNCHANGED <<config, prod, hostVars>>
      BY <2>s DEF vars, prodVars
    <3>2. SameHolders
      BY <2>s DEF vars, execVars
    <3> QED BY <3>1, <3>2, <2>u
  <2> QED BY <1>t, <2>t, <2>r, <2>s DEF Next, SessionInv
<1> QED BY <1>1, <1>2, <1>t DEF TypeOK

-----------------------------------------------------------------------------
(* Sequences of pieces *)

LEMMA ConcatTexts ==
    ASSUME NEW t \in Texts, NEW u \in Texts
    PROVE  t \o u \in Texts
BY ConcatProperties DEF Texts

\* The first pieces, and one more.
LEMMA FirstPieces ==
    /\ First(0) = <<>> /\ First(Pieces) = Whole
    /\ \A n \in 0 .. Pieces :
           /\ First(n) \in Texts /\ Len(First(n)) = n
           /\ First(n) \o <<>> = First(n) /\ <<>> \o First(n) = First(n)
           /\ SubSeq(Whole, 1, n) = First(n)
           /\ n < Pieces => First(n) \o <<n + 1>> = First(n + 1)
<1>p. Pieces \in Nat
  BY ExecutorAssumption
<1>1. First(0) = <<>> /\ First(Pieces) = Whole
  BY <1>p DEF First, Whole
<1>2. ASSUME NEW n \in 0 .. Pieces
      PROVE  /\ First(n) \in Texts /\ Len(First(n)) = n
             /\ First(n) \o <<>> = First(n) /\ <<>> \o First(n) = First(n)
             /\ SubSeq(Whole, 1, n) = First(n)
             /\ n < Pieces => First(n) \o <<n + 1>> = First(n + 1)
  <2>1. First(n) \in Texts /\ Len(First(n)) = n
    BY <1>p DEF First, Texts
  <2>2. SubSeq(Whole, 1, n) = First(n)
    BY <1>p DEF First, Whole
  <2>3. n < Pieces => First(n) \o <<n + 1>> = First(n + 1)
    BY <1>p DEF First
  <2>4. First(n) \o <<>> = First(n) /\ <<>> \o First(n) = First(n)
    BY <2>1, ConcatEmptySeq DEF Texts
  <2> QED BY <2>1, <2>2, <2>3, <2>4
<1> QED BY <1>1, <1>2

-----------------------------------------------------------------------------
(* Nothing is lost *)

\* A step of one request leaves the others' alone.
SameFlow(q) ==
    /\ ctx'[q] = ctx[q] /\ provider' = provider
    /\ exec'[q] = exec[q] /\ text'[q] = text[q] /\ event'[q] = event[q]
    /\ prod'[q] = prod[q] /\ sent'[q] = sent[q] /\ ch'[q] = ch[q]

LEMMA Elsewhere ==
    ASSUME TypeOK, NEW r \in Requests, NEW q \in Requests \ {r},
           \/ Execute(r) \/ ContextEnds(r) \/ Cancel(r)
           \/ ExecuteStep(r) \/ ProducerStep(r) \/ BackendStep(r)
    PROVE  SameFlow(q) /\ queue'[q] = queue[q] /\ (q \in errored' <=> q \in errored)
<1> USE DEF TypeOK, SameFlow, config, execVars, prodVars
<1>1. CASE Execute(r) \/ ContextEnds(r) \/ Cancel(r)
  BY <1>1 DEF Execute, ContextEnds, Cancel, Write, Goto
<1>2. CASE WriteMessage(r) \/ WriteWorking(r) \/ WriteCompleted(r) \/ WriteError(r)
  BY <1>2 DEF WriteMessage, WriteWorking, WriteCompleted, WriteError, WriteOrFail,
              Write, Accumulate, Goto
<1>3. CASE Receive(r) \/ StreamEnded(r)
  BY <1>3 DEF Receive, StreamEnded, Goto
<1>4. CASE EchoComplete(r) \/ OllamaComplete(r) \/ McpLock(r)
           \/ McpPrompt(r) \/ McpComplete(r)
  BY <1>4 DEF EchoComplete, OllamaComplete, McpLock, McpPrompt, McpComplete,
              Answer, Fails, Errs, Goto
<1>5. CASE EchoStream(r) \/ OllamaStream(r) \/ McpStream(r)
  BY <1>5 DEF EchoStream, OllamaStream, McpStream, Streams, Refuses, Fails, Errs,
              Goto, Produce
<1>6. CASE ProducerStep(r) \/ McpProduce(r)
  BY <1>6 DEF ProducerStep, EchoProduce, CloseChannel, McpProduce, Send, Produce,
              ProducerUnchanged
<1>7. CASE OllamaPiece(r) \/ OllamaEnds(r) \/ McpPiece(r) \/ McpEnds(r)
  BY <1>7 DEF OllamaPiece, OllamaEnds, McpPiece, McpEnds, SendOrGiveUp, Send,
              Produce, Errs, ProducerUnchanged
<1> QED BY <1>1, <1>2, <1>3, <1>4, <1>5, <1>6, <1>7 DEF ExecuteStep, BackendStep

LEMMA SameFlowKeeps ==
    ASSUME NEW q \in Requests, SameFlow(q), NotStarted(q), Flow(q)
    PROVE  NotStarted(q)' /\ Flow(q)'
<1> USE DEF SameFlow
<1>1. NotStarted(q)'
  BY DEF NotStarted
<1>2. Received(q)' = Received(q) /\ (Gone(q)' <=> Gone(q)) /\ Repeated' = Repeated
  BY DEF Received, Gone, Repeated
<1>3. \A n : InOrder(q, n)' <=> InOrder(q, n)
  BY <1>2 DEF InOrder
<1>4. Flowing(q) => Flowing(q)'
  BY <1>2, <1>3 DEF Flowing
<1>5. Ending(q) => Ending(q)'
  BY <1>2, <1>3 DEF Ending, AllOf
<1>6. Complete(q) => Complete(q)'
  BY <1>2 DEF Complete, AllOf
<1> QED BY <1>1, <1>2, <1>4, <1>5, <1>6 DEF Flow

\* A goroutine at its end sends no more, and a context that ended stays so.
LEMMA ProducerOver ==
    ASSUME TypeOK, [Next]_vars, NEW q \in Requests, NotStarted(q)
    PROVE  /\ prod[q] \in {"close", "done"} =>
                  prod'[q] \in {"close", "done"} /\ sent'[q] = sent[q]
           /\ Gone(q) => Gone(q)'
<1> DEFINE Goal == /\ prod[q] \in {"close", "done"} =>
                          prod'[q] \in {"close", "done"} /\ sent'[q] = sent[q]
                   /\ Gone(q) => Gone(q)'
<1> USE DEF TypeOK, Gone, prodVars
<1>r. ASSUME NEW r \in Requests,
             \/ Execute(r) \/ ContextEnds(r) \/ Cancel(r)
             \/ ExecuteStep(r) \/ ProducerStep(r) \/ BackendStep(r)
      PROVE  Goal
  <2>1. CASE Execute(r) \/ ContextEnds(r) \/ Cancel(r)
    BY <2>1 DEF Execute, ContextEnds, Cancel
  <2>2. CASE WriteMessage(r) \/ WriteWorking(r) \/ WriteCompleted(r) \/ WriteError(r)
    BY <2>2 DEF WriteMessage, WriteWorking, WriteCompleted, WriteError, WriteOrFail
  <2>3. CASE Receive(r) \/ StreamEnded(r)
    BY <2>3 DEF Receive, StreamEnded
  <2>4. CASE EchoComplete(r) \/ OllamaComplete(r) \/ McpLock(r)
             \/ McpPrompt(r) \/ McpComplete(r)
    BY <2>4 DEF EchoComplete, OllamaComplete, McpLock, McpPrompt, McpComplete
  <2>5. CASE EchoStream(r) \/ OllamaStream(r) \/ McpStream(r)
    <3>1. /\ UNCHANGED <<ctx, sent>>
          /\ exec[r] = "call"
          /\ \/ UNCHANGED prod
             \/ \E label : prod' = [prod EXCEPT ![r] = label]
      BY <2>5 DEF EchoStream, OllamaStream, McpStream, Calls, Streams, Refuses, Produce
    <3> QED BY <3>1 DEF NotStarted
  <2>6. CASE ProducerStep(r) \/ McpProduce(r)
    BY <2>6 DEF ProducerStep, EchoProduce, CloseChannel, McpProduce, Produce,
                ProducerUnchanged
  <2>7. CASE OllamaPiece(r) \/ OllamaEnds(r) \/ McpPiece(r) \/ McpEnds(r)
    BY <2>7 DEF OllamaPiece, OllamaEnds, McpPiece, McpEnds, Produce, ProducerUnchanged
  <2> QED BY <1>r, <2>1, <2>2, <2>3, <2>4, <2>5, <2>6, <2>7
          DEF ExecuteStep, BackendStep
<1>s. CASE UNCHANGED vars
  BY <1>s DEF vars
<1> QED BY <1>r, <1>s DEF Next

LEMMA NotStartedStep ==
    ASSUME TypeOK, NEW r \in Requests, NotStarted(r),
           \/ Execute(r) \/ ContextEnds(r) \/ Cancel(r)
           \/ ExecuteStep(r) \/ ProducerStep(r) \/ BackendStep(r)
    PROVE  NotStarted(r)'
<1> USE DEF TypeOK, NotStarted, config, execVars, prodVars
<1>1. CASE Execute(r) \/ ContextEnds(r) \/ Cancel(r)
  BY <1>1 DEF Execute, ContextEnds, Cancel, Goto
<1>2. CASE WriteMessage(r) \/ WriteWorking(r) \/ WriteCompleted(r) \/ WriteError(r)
  <2>1. /\ exec'[r] \in {"ok", "err", "range", "completed"}
        /\ exec[r] \notin {"working", "completed"} => exec'[r] \in {"ok", "err"}
        /\ UNCHANGED <<config, prod, sent, ch>>
    BY <1>2 DEF WriteMessage, WriteWorking, WriteCompleted, WriteError, WriteOrFail,
                AfterWorking, AfterCompleted, Goto
  <2> QED BY <2>1
<1>3. CASE Receive(r) \/ StreamEnded(r)
  <2>1. exec[r] = "range" /\ UNCHANGED <<config, prod, sent>>
    BY <1>3 DEF Receive, StreamEnded
  <2>2. \E label \in {"failed", "completed", "working", "range"} : Goto(r, label)
    BY <1>3 DEF Receive, StreamEnded, AfterReceive
  <2>3. /\ prod[r] # "none"
        /\ exec'[r] \notin {"idle", "call", "prompt", "generate", "answer"}
    BY <2>1, <2>2 DEF Goto
  <2> QED BY <2>1, <2>3
<1>4. CASE EchoComplete(r) \/ OllamaComplete(r) \/ McpLock(r)
           \/ McpPrompt(r) \/ McpComplete(r)
  BY <1>4 DEF EchoComplete, OllamaComplete, McpLock, McpPrompt, McpComplete,
              Calls, Answer, Fails, Goto
<1>5. CASE EchoStream(r) \/ OllamaStream(r) \/ McpStream(r)
  <2>1. /\ exec[r] = "call" /\ UNCHANGED <<config, text, sent, ch>>
        /\ \/ Streams(r, "run") \/ Refuses(r)
           \/ Streams(r, "prompt") /\ provider = "mcphost"
    BY <1>5 DEF EchoStream, OllamaStream, McpStream, Calls
  <2> QED BY <2>1 DEF Streams, Refuses, Fails, Produce, Goto
<1>6. CASE ProducerStep(r)
  BY <1>6 DEF ProducerStep, EchoProduce, CloseChannel, Produce, ProducerUnchanged
<1>7. CASE McpProduce(r)
  BY <1>7 DEF McpProduce, Produce, ProducerUnchanged
<1>8. CASE OllamaPiece(r) \/ McpPiece(r)
  BY <1>8 DEF OllamaPiece, McpPiece, ProducerUnchanged
<1>9. CASE OllamaEnds(r) \/ McpEnds(r)
  BY <1>9 DEF OllamaEnds, McpEnds, Produce, ProducerUnchanged
<1> QED BY <1>1, <1>2, <1>3, <1>4, <1>5, <1>6, <1>7, <1>8, <1>9
        DEF ExecuteStep, BackendStep

\* What is in the text and in the channel are sequences with a length.
LEMMA Lengths ==
    ASSUME TypeOK, NEW r \in Requests
    PROVE  /\ text[r] \in Texts /\ event[r].content \in Texts
           /\ Received(r) \in Texts /\ Len(Received(r)) \in Nat
           /\ ch[r] \in Seq(StreamEvents) /\ Len(ch[r]) \in Nat
           /\ ch[r] # <<>> <=> Len(ch[r]) > 0
           /\ sent[r] \in 0 .. Pieces /\ Pieces \in Nat
<1>1. /\ text[r] \in Texts /\ event[r].content \in Texts
      /\ ch[r] \in Seq(StreamEvents)
      /\ sent[r] \in 0 .. Pieces /\ Pieces \in Nat
  BY ExecutorAssumption DEF TypeOK, StreamEvents
<1>2. Received(r) \in Texts
  BY <1>1, ConcatTexts DEF Received
<1>3. Len(Received(r)) \in Nat
  BY <1>2 DEF Texts
<1>4. /\ Len(ch[r]) \in Nat
      /\ ch[r] # <<>> <=> Len(ch[r]) > 0
  BY <1>1, EmptySeq, LenProperties
<1> QED BY <1>1, <1>2, <1>3, <1>4

\* The next piece is received.
LEMMA ReceivePiece ==
    ASSUME TypeOK, NEW r \in Requests, Receive(r), NEW n \in 0 .. Pieces,
           n < Pieces, Received(r) = First(n), ch[r][1] = Piece(<<n + 1>>)
    PROVE  /\ exec'[r] = "working" /\ ~event'[r].done /\ Received(r)' = First(n + 1)
           /\ Len(Received(r)) = n /\ Len(Received(r)') = n + 1
<1>1. exec[r] = "range" /\ Head(ch[r]) = Piece(<<n + 1>>) /\ text[r] = First(n)
  BY Lengths DEF Receive, Received
<1>2. /\ Piece(<<n + 1>>).content = <<n + 1>>
      /\ ~Piece(<<n + 1>>).done /\ ~Piece(<<n + 1>>).error
  BY DEF Piece, NoEvent
<1>3. <<n + 1>> # <<>>
  OBVIOUS
<1>4. event'[r] = Piece(<<n + 1>>) /\ text'[r] = text[r] /\ exec'[r] = "working"
  BY <1>1, <1>2, <1>3 DEF Receive, AfterReceive, Goto, TypeOK
<1>5. Received(r)' = First(n) \o <<n + 1>>
  BY <1>1, <1>2, <1>4 DEF Received
<1>6. n \in 0 .. Pieces /\ n + 1 \in 0 .. Pieces
  BY ExecutorAssumption
<1> QED BY <1>2, <1>4, <1>5, <1>6, FirstPieces

\* What Receive leaves in the channel.
LEMMA ReceiveTakes ==
    ASSUME TypeOK, NEW r \in Requests, Receive(r)
    PROVE  /\ Len(ch'[r]) = Len(ch[r]) - 1 /\ Len(ch[r]) > 0
           /\ \A i \in 1 .. Len(ch[r]) - 1 : ch'[r][i] = ch[r][i + 1]
           /\ ch'[r] # <<>> <=> Len(ch'[r]) > 0
           /\ UNCHANGED <<ctx, prod, sent>>
           /\ Head(ch[r]) = ch[r][1]
<1>1. /\ ch[r] \in Seq(StreamEvents) /\ ch[r] # <<>> /\ ch'[r] = Tail(ch[r])
      /\ UNCHANGED <<ctx, prod, sent>>
  BY DEF TypeOK, Receive
<1>2. Len(ch[r]) \in Nat /\ Len(ch[r]) > 0
  BY Lengths, <1>1
<1>3. /\ Tail(ch[r]) \in Seq(StreamEvents) /\ Len(Tail(ch[r])) = Len(ch[r]) - 1
      /\ \A i \in 1 .. Len(Tail(ch[r])) : Tail(ch[r])[i] = ch[r][i + 1]
  BY <1>1, HeadTailProperties
<1>4. Tail(ch[r]) # <<>> <=> Len(Tail(ch[r])) > 0
  <2> DEFINE s == Tail(ch[r])
  <2> HIDE DEF s
  <2>1. s \in Seq(StreamEvents)
    BY <1>3 DEF s
  <2>2. s # <<>> <=> Len(s) > 0
    BY <2>1, EmptySeq, LenProperties
  <2> QED BY <2>2 DEF s
<1> QED BY <1>1, <1>2, <1>3, <1>4

LEMMA FlowReceive ==
    ASSUME TypeOK, NEW r \in Requests, NotStarted(r), Flow(r), Receive(r), ~Gone(r)
    PROVE  Flowing(r)' \/ Ending(r)' \/ Complete(r)'
<1>0. PICK n \in Nat, l \in Nat : n = Len(Received(r)) /\ l = Len(ch[r])
  BY Lengths
<1>1. /\ l \in Nat /\ l > 0 /\ n \in Nat /\ sent[r] \in 0 .. Pieces /\ Pieces \in Nat
      /\ Len(ch'[r]) = l - 1 /\ prod'[r] = prod[r] /\ sent'[r] = sent[r]
      /\ \A i \in 1 .. l - 1 : ch'[r][i] = ch[r][i + 1]
      /\ Head(ch[r]) = ch[r][1]
  BY <1>0, ReceiveTakes, Lengths
<1>l. l \in Nat /\ l > 0
  BY <1>1
<1>p. Repeated' = Repeated
  BY DEF Repeated, Receive, config
<1>e. Len(ch'[r]) > 0 => ch'[r] # <<>>
  BY ReceiveTakes
<1>2. /\ exec[r] = "range" /\ ch[r] # <<>> /\ Received(r) = text[r]
      /\ event'[r] = ch[r][1] /\ exec'[r] = AfterReceive(ch[r][1])
      /\ text'[r] = text[r]
  BY <1>0, <1>1 DEF Receive, Received, Goto, TypeOK
<1>3. ASSUME NEW m \in Nat, m > 0, m <= l, InOrder(r, m), n + m <= Pieces
      PROVE  InOrder(r, m - 1)' /\ Len(Received(r)') = n + 1
  <2>1. /\ n \in 0 .. Pieces /\ n < Pieces /\ Received(r) = First(n)
        /\ ch[r][1] = Piece(<<n + 1>>)
    BY <1>0, <1>1, <1>3 DEF InOrder
  <2>2. /\ exec'[r] = "working" /\ ~event'[r].done
        /\ Received(r)' = First(n + 1) /\ Len(Received(r)') = n + 1
    BY <2>1, ReceivePiece
  <2>3. ASSUME NEW i \in 1 .. m - 1
        PROVE  ch'[r][i] = Piece(<<n + 1 + i>>)
    <3>1. i + 1 \in 1 .. m /\ i \in 1 .. l - 1 /\ n + (i + 1) = n + 1 + i
      BY <1>0, <1>1, <1>3
    <3> QED BY <1>0, <1>1, <1>3, <3>1 DEF InOrder
  <2> QED BY <2>2, <2>3 DEF InOrder
<1>4. CASE Flowing(r)
  <2>1. InOrder(r, l - 1)' /\ Len(Received(r)') = n + 1
    <3>1. InOrder(r, l) /\ n + l = sent[r]
      BY <1>0, <1>4 DEF Flowing
    <3>2. n + l <= Pieces /\ l <= l
      BY <1>1, <3>1
    <3> QED BY <1>1, <1>3, <3>1, <3>2
  <2>2. InOrder(r, Len(ch[r]))'
    BY <1>1, <2>1 DEF InOrder
  <2>3. Len(Received(r)') + Len(ch'[r]) = sent'[r]
    <3>1. n + l = sent[r]
      BY <1>0, <1>4 DEF Flowing
    <3> QED BY <1>1, <2>1, <3>1
  <2>4. prod'[r] \in {"prompt", "run"}
    BY <1>1, <1>4 DEF Flowing
  <2> QED BY <2>2, <2>3, <2>4 DEF Flowing
<1>5. CASE Ending(r) /\ l > 1
  <2>1. InOrder(r, l - 2)' /\ Len(Received(r)') = n + 1
    <3>1. l - 1 \in Nat /\ l - 1 > 0 /\ l - 1 <= l /\ n + (l - 1) <= Pieces
      BY <1>0, <1>1, <1>5 DEF Ending
    <3>2. InOrder(r, l - 1)
      BY <1>0, <1>5 DEF Ending
    <3>3. InOrder(r, (l - 1) - 1)' /\ Len(Received(r)') = n + 1
      BY <1>3, <3>1, <3>2
    <3> QED BY <1>0, <1>1, <3>3
  <2>2. ch'[r][l - 1] = ch[r][l] /\ Len(ch'[r]) - 1 = l - 2
        /\ n + 1 + (l - 1) - 1 = n + l - 1
    <3>1. l - 1 \in 1 .. l - 1 /\ (l - 1) + 1 = l
      BY <1>0, <1>5
    <3>2. ch'[r][l - 1] = ch[r][(l - 1) + 1]
      BY <1>1, <3>1
    <3>3. /\ Len(ch'[r]) - 1 = l - 2 /\ n + 1 + (l - 1) - 1 = n + l - 1
      BY <1>1
    <3> QED BY <3>1, <3>2, <3>3
  <2>3. ch'[r] # <<>>
    BY <1>0, <1>1, <1>5, <1>e
  <2> QED BY <1>0, <1>1, <1>5, <1>p, <2>1, <2>2, <2>3 DEF Ending, AllOf
<1>6. CASE Ending(r) /\ l = 1
  <2>1. /\ ch'[r] = <<>> /\ prod'[r] \in {"close", "done"}
        /\ Received(r) = First(n) /\ n \in 0 .. Pieces
        /\ \/ ch[r][1].error
           \/ ch[r][1].done /\ AllOf(First(n) \o ch[r][1].content, sent[r])
    <3>1. Len(ch'[r]) = 0 /\ Len(ch[r]) = 1 /\ Len(Received(r)) = n
      BY <1>0, <1>1, <1>6
    <3>2. ch'[r] = <<>>
      BY <3>1, ReceiveTakes
    <3>3. prod'[r] \in {"close", "done"} /\ Received(r) = First(n)
      BY <1>1, <1>6, <3>1 DEF Ending, InOrder
    <3>4. n + 1 - 1 = n
      BY <1>1
    <3>5. /\ n <= Pieces
          /\ \/ ch[r][1].error
             \/ ch[r][1].done /\ AllOf(First(n) \o ch[r][1].content, sent[r])
      BY <1>6, <3>1, <3>4 DEF Ending
    <3>6. n \in 0 .. Pieces
      BY <1>1, <3>5
    <3> QED BY <3>2, <3>3, <3>5, <3>6
  <2>2. CASE ch[r][1].error
    BY <1>2, <2>1, <2>2 DEF Complete, AfterReceive
  <2>3. CASE ~ch[r][1].error /\ ch[r][1].content # <<>>
    BY <1>0, <1>1, <1>2, <1>p, <2>1, <2>3 DEF Complete, AfterReceive, Received, AllOf
  <2>4. CASE ~ch[r][1].error /\ ch[r][1].content = <<>>
    <3>1. First(n) \o <<>> = First(n)
      BY <2>1, FirstPieces
    <3> QED BY <1>0, <1>1, <1>2, <1>p, <2>1, <2>4, <3>1 DEF Complete, AfterReceive, AllOf
  <2> QED BY <2>2, <2>3, <2>4
<1>7. Flowing(r) \/ Ending(r)
  BY <1>2 DEF Flow, NotStarted, Complete
<1>8. l = 1 \/ l > 1
  BY <1>l
<1> QED BY <1>4, <1>5, <1>6, <1>7, <1>8

\* What was in hand is now in the text.
LEMMA FlowWriteWorking ==
    ASSUME TypeOK, NEW r \in Requests, NotStarted(r), Flow(r), WriteWorking(r), ~Gone(r)
    PROVE  Flowing(r)' \/ Ending(r)' \/ Complete(r)'
<1>1. /\ exec[r] = "working" /\ exec'[r] = AfterWorking(r)
      /\ text'[r] = text[r] \o event[r].content
      /\ UNCHANGED <<event, prod, sent, ch>>
  BY DEF WriteWorking, WriteOrFail, Accumulate, Goto, TypeOK, prodVars
<1>p. Repeated' = Repeated
  BY DEF Repeated, WriteWorking, WriteOrFail, config
<1>2. Received(r)' = Received(r)
  BY <1>1 DEF Received, AfterWorking
<1>3. \A n : ~event[r].done /\ InOrder(r, n) => InOrder(r, n)'
  BY <1>1, <1>2 DEF InOrder, AfterWorking
<1>4. CASE Flowing(r)
  BY <1>1, <1>2, <1>3, <1>4 DEF Flowing, InOrder
<1>5. CASE Ending(r)
  BY <1>1, <1>2, <1>3, <1>5, <1>p DEF Ending, InOrder, AllOf
<1>6. CASE Complete(r)
  BY <1>1, <1>2, <1>6, <1>p DEF Complete, AfterWorking, Received, AllOf
<1> QED BY <1>1, <1>4, <1>5, <1>6 DEF Flow, NotStarted

\* What a send appends to the channel.
LEMMA SendAppends ==
    ASSUME TypeOK, NEW r \in Requests, NEW e \in StreamEvents, Send(r, e)
    PROVE  /\ Len(ch[r]) \in Nat /\ Len(ch'[r]) = Len(ch[r]) + 1 /\ ch'[r] # <<>>
           /\ \A i \in 1 .. Len(ch[r]) : ch'[r][i] = ch[r][i]
           /\ ch'[r][Len(ch[r]) + 1] = e
<1>1. /\ ch[r] \in Seq(StreamEvents) /\ Len(ch[r]) \in Nat /\ ch'[r] = Append(ch[r], e)
  BY Lengths DEF Send, TypeOK
<1>2. /\ Append(ch[r], e) # <<>> /\ Len(Append(ch[r], e)) = Len(ch[r]) + 1
      /\ \A i \in 1 .. Len(ch[r]) : Append(ch[r], e)[i] = ch[r][i]
      /\ Append(ch[r], e)[Len(ch[r]) + 1] = e
  BY <1>1, AppendProperties
<1> QED BY <1>1, <1>2

\* What a send of e does while the client waits.
LEMMA FlowSend ==
    ASSUME TypeOK, NEW r \in Requests, NotStarted(r), Flow(r), ~Gone(r), prod[r] = "run",
           NEW e \in StreamEvents, Send(r, e),
           UNCHANGED <<ctx, exec, text, event>>
    PROVE  /\ Flowing(r) /\ Received(r)' = Received(r)
           /\ InOrder(r, Len(ch[r])) /\ \A n \in Nat : n <= Len(ch[r]) =>
                  (InOrder(r, n) => InOrder(r, n)')
           /\ ch'[r] # <<>> /\ Len(ch'[r]) = Len(ch[r]) + 1
           /\ ch'[r][Len(ch'[r])] = e
<1>1. Flowing(r) /\ InOrder(r, Len(ch[r]))
  BY DEF Flow, Ending, Complete, Flowing
<1>2. Received(r)' = Received(r)
  BY DEF Received
<1>3. /\ Len(ch[r]) \in Nat /\ Len(ch'[r]) = Len(ch[r]) + 1 /\ ch'[r] # <<>>
      /\ \A i \in 1 .. Len(ch[r]) : ch'[r][i] = ch[r][i]
      /\ ch'[r][Len(ch[r]) + 1] = e
  BY SendAppends
<1>4. ASSUME NEW n \in Nat, n <= Len(ch[r]), InOrder(r, n) PROVE InOrder(r, n)'
  <2>1. \A i \in 1 .. n : ch'[r][i] = ch[r][i]
    BY <1>3, <1>4
  <2> QED BY <1>2, <1>4, <2>1 DEF InOrder
<1> QED BY <1>1, <1>2, <1>3, <1>4

LEMMA FlowPiece ==
    ASSUME TypeOK, NEW r \in Requests, NotStarted(r), Flow(r), ~Gone(r), prod[r] = "run",
           sent[r] < Pieces, Send(r, Piece(<<sent[r] + 1>>)),
           sent' = [sent EXCEPT ![r] = @ + 1],
           UNCHANGED <<ctx, exec, text, event, prod>>
    PROVE  Flowing(r)'
<1>1. /\ sent[r] \in 0 .. Pieces /\ Len(ch[r]) \in Nat /\ Len(Received(r)) \in Nat
  BY Lengths
<1>2. PICK l \in Nat, n \in Nat : l = Len(ch[r]) /\ n = Len(Received(r))
  BY <1>1
<1>3. Piece(<<sent[r] + 1>>) \in StreamEvents
  BY <1>1, TextTypes
<1>4. /\ Flowing(r) /\ Received(r)' = Received(r)
      /\ InOrder(r, l) /\ InOrder(r, l)'
      /\ Len(ch'[r]) = l + 1
      /\ ch'[r][l + 1] = Piece(<<sent[r] + 1>>)
  <2>1. /\ Flowing(r) /\ Received(r)' = Received(r)
        /\ InOrder(r, Len(ch[r]))
        /\ \A m \in Nat : m <= Len(ch[r]) => (InOrder(r, m) => InOrder(r, m)')
        /\ Len(ch'[r]) = Len(ch[r]) + 1
        /\ ch'[r][Len(ch'[r])] = Piece(<<sent[r] + 1>>)
    BY <1>3, FlowSend
  <2>2. InOrder(r, l)
    BY <1>2, <2>1
  <2>3. InOrder(r, l)'
    BY <1>2, <2>1, <2>2
  <2> QED BY <1>2, <2>1, <2>2, <2>3
<1>5. n + l = sent[r]
  BY <1>2, <1>4 DEF Flowing
<1>6. InOrder(r, l + 1)'
  <2>1. ch'[r][l + 1] = Piece(<<n + (l + 1)>>)
    <3>1. sent[r] + 1 = n + (l + 1)
      BY <1>2, <1>5
    <3> QED BY <1>4, <3>1
  <2>2. \A i \in 1 .. l + 1 : i \in 1 .. l \/ i = l + 1
    BY <1>2
  <2>3. n = Len(Received(r)')
    BY <1>2, <1>4
  <2> QED BY <1>4, <2>1, <2>2, <2>3 DEF InOrder
<1>7. InOrder(r, Len(ch[r]))'
  BY <1>4, <1>6 DEF InOrder
<1>8. Len(Received(r)') + Len(ch'[r]) = sent'[r]
  <2>1. sent'[r] = sent[r] + 1 /\ Len(Received(r)') = n
    BY <1>2, <1>4 DEF TypeOK
  <2> QED BY <1>1, <1>2, <1>4, <1>5, <2>1
<1> QED BY <1>7, <1>8 DEF Flowing

LEMMA FlowLast ==
    ASSUME TypeOK, NEW r \in Requests, NotStarted(r), Flow(r), ~Gone(r), prod[r] = "run",
           NEW e \in StreamEvents, Send(r, e), prod'[r] = "close",
           e.error \/ (e.done /\ AllOf(First(sent[r]) \o e.content, sent'[r])),
           UNCHANGED <<config, ctx, exec, text, event>>
    PROVE  Ending(r)'
<1>1. /\ sent[r] \in 0 .. Pieces /\ Pieces \in Nat
      /\ Len(ch[r]) \in Nat /\ Len(Received(r)) \in Nat
  BY Lengths
<1>2. PICK l \in Nat, n \in Nat : l = Len(ch[r]) /\ n = Len(Received(r))
  BY <1>1
<1>3. /\ Flowing(r) /\ Received(r)' = Received(r)
      /\ InOrder(r, l)' /\ ch'[r] # <<>>
      /\ Len(ch'[r]) = l + 1 /\ ch'[r][l + 1] = e
  <2>1. /\ Flowing(r) /\ Received(r)' = Received(r)
        /\ InOrder(r, Len(ch[r])) /\ ch'[r] # <<>>
        /\ \A m \in Nat : m <= Len(ch[r]) => (InOrder(r, m) => InOrder(r, m)')
        /\ Len(ch'[r]) = Len(ch[r]) + 1
        /\ ch'[r][Len(ch'[r])] = e
    BY FlowSend
  <2>2. InOrder(r, l)
    BY <1>2, <2>1
  <2>3. InOrder(r, l)'
    BY <1>2, <2>1, <2>2
  <2> QED BY <1>2, <2>1, <2>3
<1>4. n + l = sent[r]
  BY <1>2, <1>3 DEF Flowing
<1>5. Len(ch'[r]) - 1 = l /\ Len(Received(r)') + Len(ch'[r]) - 1 = sent[r]
  <2>1. Len(Received(r)') = n
    BY <1>2, <1>3
  <2> QED BY <1>1, <1>2, <1>3, <1>4, <2>1
<1>6. InOrder(r, Len(ch[r]) - 1)'
  BY <1>3, <1>5 DEF InOrder
<1>7. Repeated' = Repeated
  BY DEF Repeated, config
<1>8. e.error \/ (e.done /\ First(sent[r]) \o e.content = First(sent'[r]) \o Repeated')
  BY <1>7 DEF AllOf
<1>9. sent[r] <= Pieces /\ ch'[r][Len(ch'[r])] = e
  BY <1>1, <1>3
<1> QED BY <1>3, <1>5, <1>6, <1>8, <1>9 DEF Ending, AllOf

\* The last event of each backend is an error or completes the answer.
LEMMA LastEvents ==
    ASSUME TypeOK, NEW r \in Requests, NotStarted(r)
    PROVE  /\ Done.done /\ Error.error /\ [Error EXCEPT !.done = FALSE].error
           /\ provider # "mcphost" => AllOf(First(sent[r]) \o Done.content, sent[r])
           /\ [Done EXCEPT !.content = Whole].done
           /\ provider = "mcphost" =>
                  AllOf(First(sent[r]) \o [Done EXCEPT !.content = Whole].content,
                        sent[r])
           /\ [Done EXCEPT !.content = Message(r)].done
           /\ provider # "mcphost" =>
                  AllOf(First(0) \o [Done EXCEPT !.content = Message(r)].content,
                        Len(Message(r)))
<1>1. /\ Done.done /\ Error.error /\ [Error EXCEPT !.done = FALSE].error
      /\ Done.content = <<>>
      /\ \A t : [Done EXCEPT !.content = t].done /\ [Done EXCEPT !.content = t].content = t
  BY DEF Done, Error, NoEvent
<1>2. provider # "mcphost" => AllOf(First(sent[r]) \o <<>>, sent[r])
  BY DEF AllOf, Repeated
<1>3. provider = "mcphost" => AllOf(First(sent[r]) \o Whole, sent[r])
  BY DEF AllOf, Repeated
<1>4. First(0) \o Message(r) = First(Len(Message(r))) \o <<>>
  <2>1. 0 \in 0 .. Pieces /\ Pieces \in 0 .. Pieces
    BY ExecutorAssumption
  <2>2. CASE Message(r) = <<>>
    BY <2>2, TextTypes
  <2>3. CASE Message(r) = Whole
    <3>1. <<>> \o First(Pieces) = First(Pieces) \o <<>>
      BY <2>1, FirstPieces
    <3> QED BY <2>3, <3>1, FirstPieces, TextTypes
  <2> QED BY <2>2, <2>3 DEF Message
<1> QED BY <1>1, <1>2, <1>3, <1>4 DEF AllOf, Repeated

LEMMA FlowStep ==
    ASSUME TypeOK, NEW r \in Requests, NotStarted(r), Flow(r),
           \/ Execute(r) \/ ContextEnds(r) \/ Cancel(r)
           \/ ExecuteStep(r) \/ ProducerStep(r) \/ BackendStep(r)
    PROVE  Flow(r)'
<1> SUFFICES ASSUME ~Gone(r)'
             PROVE  \/ prod'[r] = "none"
                    \/ Flowing(r)' \/ Ending(r)' \/ Complete(r)'
  BY DEF Flow
<1>1. CASE ContextEnds(r)
  BY <1>1 DEF ContextEnds, Gone, TypeOK
<1>2. CASE Execute(r)
  BY <1>2 DEF Execute, NotStarted, prodVars
<1>3. CASE Cancel(r)
  <2>1. SameFlow(r)
    BY <1>3 DEF Cancel, SameFlow, config, prodVars
  <2> QED BY <2>1, SameFlowKeeps DEF Flow
<1>g. UNCHANGED ctx => ~Gone(r)
  BY DEF Gone
<1>4. CASE WriteMessage(r)
  BY <1>4 DEF WriteMessage, WriteOrFail, NotStarted, prodVars
<1>5. CASE WriteWorking(r)
  BY <1>5, <1>g, FlowWriteWorking DEF WriteWorking, WriteOrFail
<1>6. CASE WriteCompleted(r) \/ WriteError(r)
  <2>1. /\ exec[r] \in {"completed", "failed"} /\ exec'[r] = "ok"
        /\ UNCHANGED <<ctx, prod, ch>>
    BY <1>6, <1>g DEF WriteCompleted, WriteError, AfterCompleted, WriteOrFail, Goto,
                      prodVars, TypeOK
  <2> QED BY <2>1, <1>g DEF Flow, Flowing, Ending, InOrder, Complete
<1>7. CASE Receive(r)
  BY <1>7, <1>g, FlowReceive DEF Receive
<1>8. CASE StreamEnded(r)
  BY <1>8, <1>g DEF StreamEnded, Flow, Flowing, Ending, Complete
<1>9. CASE EchoComplete(r) \/ OllamaComplete(r) \/ McpLock(r)
           \/ McpPrompt(r) \/ McpComplete(r)
  BY <1>9 DEF EchoComplete, OllamaComplete, McpLock, McpPrompt, McpComplete,
              Calls, NotStarted, prodVars
<1>10. CASE EchoStream(r) \/ OllamaStream(r) \/ McpStream(r)
  <2>1. /\ exec[r] = "call" /\ UNCHANGED <<text, sent, ch>>
        /\ \/ Streams(r, "run") \/ Streams(r, "prompt") \/ Refuses(r)
    BY <1>10 DEF EchoStream, OllamaStream, McpStream, Calls
  <2>2. /\ prod[r] = "none" /\ sent'[r] = 0 /\ ch'[r] = <<>> /\ text'[r] = <<>>
    BY <2>1 DEF NotStarted
  <2>3. CASE Refuses(r)
    BY <2>2, <2>3 DEF Refuses
  <2>4. CASE Streams(r, "run") \/ Streams(r, "prompt")
    <3>1. exec'[r] = "range" /\ prod'[r] \in {"prompt", "run"}
      BY <2>4 DEF Streams, Goto, Produce, TypeOK
    <3>2. Received(r)' = <<>> /\ First(0) = <<>> /\ Len(<<>>) = 0
      BY <2>2, <3>1, FirstPieces, TextTypes DEF Received
    <3>3. InOrder(r, Len(ch[r]))'
      BY <2>2, <3>1, <3>2 DEF InOrder
    <3> QED BY <2>2, <3>1, <3>2, <3>3 DEF Flowing
  <2> QED BY <2>1, <2>3, <2>4
<1>11. CASE EchoProduce(r)
  <2>1. /\ prod[r] = "run" /\ sent[r] = 0 /\ prod'[r] = "close"
        /\ sent'[r] = Len(Message(r)) /\ UNCHANGED <<config, ctx, exec, text, event>>
        /\ provider = "echo"
        /\ Send(r, [Done EXCEPT !.content = Message(r)])
    BY <1>11 DEF EchoProduce, NotStarted, Produce, ProducerUnchanged, execVars, TypeOK
  <2>2. [Done EXCEPT !.content = Message(r)] \in StreamEvents
    BY Configured, TextTypes
  <2> QED BY <2>1, <2>2, <1>g, LastEvents, FlowLast
<1>12. CASE OllamaPiece(r) \/ McpPiece(r)
  <2>1. /\ prod[r] = "run" /\ sent[r] < Pieces
        /\ sent' = [sent EXCEPT ![r] = @ + 1]
        /\ UNCHANGED <<ctx, exec, text, event, prod>>
        /\ Send(r, Piece(<<sent[r] + 1>>))
    BY <1>12, <1>g DEF OllamaPiece, McpPiece, SendOrGiveUp, GiveUp,
                       ProducerUnchanged, execVars
  <2> QED BY <2>1, <1>g, FlowPiece
<1>13. CASE OllamaEnds(r)
  <2>1. /\ prod[r] = "run" /\ prod'[r] = "close" /\ sent'[r] = sent[r]
        /\ UNCHANGED <<config, ctx, exec, text, event>>
        /\ provider = "ollama"
        /\ Send(r, Done) \/ Send(r, Error)
    BY <1>13 DEF OllamaEnds, Produce, ProducerUnchanged, execVars, TypeOK
  <2>2. Done \in StreamEvents /\ Error \in StreamEvents /\ Done.done /\ Error.error
    BY TextTypes, LastEvents
  <2>3. AllOf(First(sent[r]) \o Done.content, sent'[r])
    BY <2>1, LastEvents
  <2>4. CASE Send(r, Done)
    BY <2>1, <2>2, <2>3, <2>4, <1>g, FlowLast
  <2>5. CASE Send(r, Error)
    BY <2>1, <2>2, <2>5, <1>g, FlowLast
  <2> QED BY <2>1, <2>4, <2>5
<1>14. CASE McpEnds(r)
  <2>1. /\ prod[r] = "run" /\ prod'[r] = "close" /\ sent'[r] = sent[r]
        /\ UNCHANGED <<config, ctx, exec, text, event>>
        /\ provider = "mcphost"
        /\ \/ Send(r, [Done EXCEPT !.content = Whole])
           \/ Send(r, [Error EXCEPT !.done = FALSE])
    BY <1>14, <1>g DEF McpEnds, SendOrGiveUp, GiveUp, Produce, ProducerUnchanged,
                       execVars, TypeOK
  <2>2. CASE Send(r, [Error EXCEPT !.done = FALSE])
    BY <2>1, <2>2, <1>g, TextTypes, LastEvents, FlowLast
  <2>3. CASE Send(r, [Done EXCEPT !.content = Whole])
    BY <2>1, <2>3, <1>g, TextTypes, LastEvents, FlowLast
  <2> QED BY <2>1, <2>2, <2>3
<1>15. CASE McpProduce(r) \/ CloseChannel(r)
  <2>1. /\ UNCHANGED <<ctx, exec, text, event, sent, ch>>
        /\ \/ prod[r] = "prompt" /\ prod'[r] = "run"
           \/ prod[r] = "close" /\ prod'[r] = "done"
    BY <1>15 DEF McpProduce, CloseChannel, Produce, ProducerUnchanged, execVars, TypeOK
  <2>p. Repeated' = Repeated
    BY <1>15 DEF McpProduce, CloseChannel, ProducerUnchanged, config, Repeated
  <2>2. Received(r)' = Received(r)
    BY <2>1 DEF Received
  <2>3. \A n : InOrder(r, n) => InOrder(r, n)'
    BY <2>1, <2>2 DEF InOrder
  <2>4. Flowing(r) => Flowing(r)'
    BY <2>1, <2>2, <2>3 DEF Flowing
  <2>5. Ending(r) => Ending(r)'
    BY <2>1, <2>2, <2>3, <2>p DEF Ending, AllOf
  <2>6. Complete(r) => Complete(r)'
    BY <2>1, <2>2, <2>p DEF Complete, AllOf
  <2> QED BY <2>1, <2>4, <2>5, <2>6, <1>g DEF Flow
<1> QED BY <1>1, <1>2, <1>3, <1>4, <1>5, <1>6, <1>7, <1>8, <1>9, <1>10, <1>11,
           <1>12, <1>13, <1>14, <1>15
        DEF ExecuteStep, ProducerStep, BackendStep

LEMMA ReportedStep ==
    ASSUME TypeOK, [Next]_vars, NEW q \in Requests,
           NotStarted(q), Flow(q), ReportedWhole(q)
    PROVE  ReportedWhole(q)'
<1>1. /\ prod[q] \in {"close", "done"} =>
             prod'[q] \in {"close", "done"} /\ sent'[q] = sent[q]
      /\ ~Gone(q)' => ~Gone(q)
      /\ Repeated' = Repeated
  BY ProducerOver, ConfigKept
<1>2. ASSUME UNCHANGED queue[q] PROVE ReportedWhole(q)'
  BY <1>1, <1>2 DEF ReportedWhole, AllOf
<1>3. ASSUME NEW kind \in EventKinds, NEW t \in Texts, Wrote(q, kind, t),
             kind = "completed" /\ ~Gone(q) =>
                 prod[q] \in {"close", "done"} /\ AllOf(t, sent[q])
      PROVE  ReportedWhole(q)'
  <2>1. /\ DOMAIN queue'[q] = DOMAIN queue[q] \cup {Len(queue[q]) + 1}
        /\ \A i \in DOMAIN queue[q] : queue'[q][i] = queue[q][i]
        /\ queue'[q][Len(queue[q]) + 1] = [kind |-> kind, text |-> t]
    BY <1>3, HasOneMore
  <2>2. ASSUME NEW i \in DOMAIN queue'[q],
               queue'[q][i].kind = "completed", ~Gone(q)'
        PROVE  (prod[q] \in {"close", "done"} /\ AllOf(queue[q][i].text, sent[q]))'
    <3>1. CASE i \in DOMAIN queue[q]
      BY <1>1, <2>1, <2>2, <3>1 DEF ReportedWhole, AllOf
    <3>2. CASE i = Len(queue[q]) + 1
      <4>1. kind = "completed" /\ queue'[q][i].text = t /\ ~Gone(q)
        BY <1>1, <2>1, <2>2, <3>2
      <4>2. prod[q] \in {"close", "done"} /\ t = First(sent[q]) \o Repeated
        BY <1>3, <4>1 DEF AllOf
      <4> QED BY <1>1, <4>1, <4>2 DEF AllOf
    <3> QED BY <2>1, <3>1, <3>2
  <2> QED BY <2>2 DEF ReportedWhole
<1>4. text[q] \in Texts /\ event[q].content \in Texts /\ <<>> \in Texts
  BY Lengths, TextTypes
<1>5. CASE Quiet(q)
  BY <1>2, <1>5 DEF Quiet
<1>6. CASE Cancels(q)
  BY <1>3, <1>4, <1>6 DEF Cancels, EventKinds
<1>7. CASE Reports(q)
  BY <1>3, <1>4, <1>7 DEF Reports, EventKinds
<1>8. CASE Finishes(q)
  <2>1. CASE exec[q] = "answer" /\ Wrote(q, "message", text[q])
    BY <1>3, <1>4, <2>1 DEF EventKinds
  <2>2. CASE exec[q] = "completed" /\ Wrote(q, "completed", text[q])
    <3>1. ~Gone(q) => Complete(q)
      BY <2>2 DEF Flow, NotStarted, Flowing, Ending, InOrder
    <3>2. ~Gone(q) => prod[q] \in {"close", "done"} /\ AllOf(text[q], sent[q])
      BY <2>2, <3>1 DEF Complete
    <3> QED BY <1>3, <1>4, <2>2, <3>2 DEF EventKinds
  <2>3. CASE exec[q] = "failed" /\ Wrote(q, "failed", <<>>)
    BY <1>3, <1>4, <2>3 DEF EventKinds
  <2> QED BY <1>8, <2>1, <2>2, <2>3 DEF Finishes
<1> QED BY <1>5, <1>6, <1>7, <1>8, EventMoves

LEMMA FlowInit == Init => FlowInv
<1> SUFFICES ASSUME Init PROVE FlowInv
  OBVIOUS
<1>1. FinalInv
  BY FinalInit
<1>2. ASSUME NEW r \in Requests PROVE NotStarted(r) /\ Flow(r) /\ ReportedWhole(r)
  <2>1. /\ exec[r] = "idle" /\ prod[r] = "none" /\ sent[r] = 0
        /\ text[r] = <<>> /\ ch[r] = <<>> /\ queue[r] = <<>>
    BY DEF Init
  <2>2. DOMAIN queue[r] = {}
    BY <2>1
  <2> QED BY <2>1, <2>2 DEF NotStarted, Flow, ReportedWhole
<1> QED BY <1>1, <1>2 DEF FlowInv

LEMMA FlowInvStep == FlowInv /\ [Next]_vars => FlowInv'
<1> SUFFICES ASSUME FlowInv, [Next]_vars PROVE FlowInv'
  OBVIOUS
<1>t. TypeOK /\ FinalInv'
  BY FinalStep DEF FlowInv, FinalInv
<1>1. ASSUME NEW q \in Requests PROVE NotStarted(q)' /\ Flow(q)'
  <2>q. NotStarted(q) /\ Flow(q)
    BY DEF FlowInv
  <2>1. ASSUME NEW r \in Requests,
               \/ Execute(r) \/ ContextEnds(r) \/ Cancel(r)
               \/ ExecuteStep(r) \/ ProducerStep(r) \/ BackendStep(r)
        PROVE  NotStarted(q)' /\ Flow(q)'
    <3>1. CASE q = r
      BY <1>t, <2>q, <2>1, <3>1, NotStartedStep, FlowStep
    <3>2. CASE q # r
      <4>1. SameFlow(q)
        BY <1>t, <2>1, <3>2, Elsewhere
      <4> QED BY <2>q, <4>1, SameFlowKeeps
    <3> QED BY <3>1, <3>2
  <2>2. CASE UNCHANGED vars
    <3>1. SameFlow(q)
      BY <2>2 DEF vars, config, execVars, prodVars, SameFlow
    <3> QED BY <2>q, <3>1, SameFlowKeeps
  <2> QED BY <2>1, <2>2 DEF Next
<1>2. ASSUME NEW q \in Requests PROVE ReportedWhole(q)'
  BY <1>t, <1>2, ReportedStep DEF FlowInv
<1> QED BY <1>t, <1>1, <1>2 DEF FlowInv

LEMMA FlowIsExact == FlowInv => AnswerExact
<1> SUFFICES ASSUME FlowInv, NEW r \in Requests, NEW i \in DOMAIN queue[r],
                    queue[r][i].kind = "completed", ~Gone(r)
             PROVE  queue[r][i].text = SubSeq(Whole, 1, sent[r]) \o Repeated
  BY DEF AnswerExact
<1>1. sent[r] \in 0 .. Pieces
  BY Lengths DEF FlowInv, FinalInv
<1>2. AllOf(queue[r][i].text, sent[r])
  BY DEF FlowInv, ReportedWhole
<1>3. SubSeq(Whole, 1, sent[r]) = First(sent[r])
  BY <1>1, FirstPieces
<1> QED BY <1>2, <1>3 DEF AllOf

-----------------------------------------------------------------------------
(* No error becomes an answer *)

\* What is not the last event of a goroutine
Plain(e) == ~e.done /\ ~e.error

\* Until the goroutine has come to its last event, Execute cannot complete.
Going(r) ==
    prod[r] \in {"prompt", "run"} =>
        /\ exec[r] \in {"range", "working", "err"}
        /\ exec[r] = "working" => Plain(event[r])
        /\ \A i \in 1 .. Len(ch[r]) : Plain(ch[r][i])

\* The error is the last event of the channel, and Execute goes on reading.
ErrorAhead(r) ==
    /\ prod[r] \in {"close", "done"}
    /\ exec[r] \in {"range", "working"}
    /\ exec[r] = "working" => ~event[r].done
    /\ ch[r] # <<>>
    /\ ch[r][Len(ch[r])].error
    /\ \A i \in 1 .. Len(ch[r]) - 1 : Plain(ch[r][i])

\* Execute has the error, or has returned.
ErrorOver(r) ==
    /\ exec[r] \in {"failed"} \cup Returned
    /\ ~Has(r, {"completed", "message"})

\* The select of the mcphost goroutine chose the end of the context.
ErrorLost(r) == provider = "mcphost" /\ streaming /\ Gone(r)

ErrorLeads(r) == r \in errored => ErrorAhead(r) \/ ErrorOver(r) \/ ErrorLost(r)

ErrorInv ==
    /\ FlowInv
    /\ HolderAlone
    /\ ErrorFails
    /\ \A r \in Requests : Going(r) /\ ErrorLeads(r)

\* An error that was received stays without a completed event.
LEMMA ErrorFailsStep ==
    ASSUME FinalInv, ErrorFails, [Next]_vars
    PROVE  ErrorFails'
<1>t. TypeOK /\ FinalInv'
  BY FinalStep DEF FinalInv
<1>1. ASSUME NEW r \in Requests, event'[r].error
      PROVE  exec'[r] \in {"failed"} \cup Returned /\ ~Has(r, {"completed"})'
  <2>1. CASE Receive(r)
    <3>1. /\ exec[r] = "range" /\ queue' = queue /\ event'[r] = Head(ch[r])
          /\ exec'[r] = AfterReceive(Head(ch[r]))
      BY <1>t, <2>1 DEF Receive, Goto, TypeOK
    <3>2. exec'[r] = "failed"
      BY <1>1, <3>1 DEF AfterReceive
    <3>3. ~Has(r, {"completed"})
      BY <3>1 DEF FinalInv, FinalReturns, Has, Final
    <3> QED BY <3>1, <3>2, <3>3 DEF Has
  <2>2. CASE /\ event'[r] = event[r]
             /\ exec[r] \in {"failed"} \cup Returned =>
                    exec'[r] \in {"failed"} \cup Returned
    <3>1. /\ exec[r] \in {"failed"} \cup Returned
          /\ exec'[r] \in {"failed"} \cup Returned
          /\ ~Has(r, {"completed"})
      BY <1>1, <2>2 DEF ErrorFails
    <3>2. \/ UNCHANGED queue[r]
          \/ \E kind \in {"canceled", "failed"} : Wrote(r, kind, <<>>)
      BY <1>t, <3>1, EventMoves DEF Quiet, Cancels, Reports, Finishes, Returned
    <3>3. ~Has(r, {"completed"})'
      <4>1. CASE UNCHANGED queue[r]
        BY <3>1, <4>1 DEF Has
      <4>2. ASSUME NEW kind \in {"canceled", "failed"}, Wrote(r, kind, <<>>)
            PROVE  ~Has(r, {"completed"})'
        <5>1. kind \in EventKinds /\ <<>> \in Texts
          BY TextTypes DEF EventKinds
        <5>2. Has(r, {"completed"})' <=> Has(r, {"completed"}) \/ kind \in {"completed"}
          BY <1>t, <5>1, <4>2, HasOneMore
        <5> QED BY <3>1, <5>2
      <4> QED BY <3>2, <4>1, <4>2
    <3> QED BY <3>1, <3>3
  <2> QED BY <1>t, <2>1, <2>2, OverIsOver
<1> QED BY <1>t, <1>1 DEF ErrorFails

\* No step of Execute or of the goroutine makes it complete before the last event.
LEMMA GoingStep ==
    ASSUME TypeOK, NEW r \in Requests, NotStarted(r), Going(r),
           \/ Execute(r) \/ ContextEnds(r) \/ Cancel(r)
           \/ ExecuteStep(r) \/ ProducerStep(r) \/ BackendStep(r)
    PROVE  Going(r)'
<1> SUFFICES ASSUME prod'[r] \in {"prompt", "run"} PROVE Going(r)'
  BY DEF Going
<1>1. CASE Execute(r)
  BY <1>1 DEF Execute, NotStarted, prodVars
<1>2. CASE ContextEnds(r) \/ Cancel(r)
  BY <1>2 DEF ContextEnds, Cancel, Going, execVars, prodVars
<1>3. CASE WriteMessage(r) \/ WriteWorking(r) \/ WriteCompleted(r) \/ WriteError(r)
  <2>1. UNCHANGED <<event, prod, ch>>
    BY <1>3 DEF WriteMessage, WriteWorking, WriteCompleted, WriteError, WriteOrFail,
                prodVars
  <2>2. exec[r] = "working" /\ Plain(event[r])
    BY <1>3, <2>1 DEF WriteMessage, WriteWorking, WriteCompleted, WriteError, Going,
                      NotStarted
  <2>3. exec'[r] \in {"range", "err"}
    BY <1>3, <2>2 DEF WriteMessage, WriteWorking, WriteCompleted, WriteError,
                      WriteOrFail, AfterWorking, Goto, Plain, TypeOK
  <2> QED BY <2>1, <2>2, <2>3 DEF Going
<1>4. CASE Receive(r)
  <2>1. /\ Len(ch'[r]) = Len(ch[r]) - 1 /\ Len(ch[r]) > 0 /\ Len(ch[r]) \in Nat
        /\ \A i \in 1 .. Len(ch[r]) - 1 : ch'[r][i] = ch[r][i + 1]
        /\ prod' = prod /\ Head(ch[r]) = ch[r][1]
    BY <1>4, ReceiveTakes, Lengths
  <2>2. \A i \in 1 .. Len(ch[r]) : Plain(ch[r][i])
    BY <2>1 DEF Going
  <2>3. Plain(Head(ch[r]))
    BY <2>1, <2>2
  <2>4. event'[r] = Head(ch[r]) /\ exec'[r] \in {"working", "range"}
    BY <1>4, <2>3 DEF Receive, AfterReceive, Goto, Plain, TypeOK
  <2>5. \A i \in 1 .. Len(ch'[r]) : Plain(ch'[r][i])
    <3>1. \A i \in 1 .. Len(ch[r]) - 1 : i + 1 \in 1 .. Len(ch[r])
      BY <2>1
    <3> QED BY <2>1, <2>2, <3>1
  <2> QED BY <2>3, <2>4, <2>5 DEF Going, Plain
<1>5. CASE StreamEnded(r)
  BY <1>5 DEF StreamEnded, prodVars
<1>6. CASE EchoComplete(r) \/ OllamaComplete(r) \/ McpLock(r)
           \/ McpPrompt(r) \/ McpComplete(r)
  BY <1>6 DEF EchoComplete, OllamaComplete, McpLock, McpPrompt, McpComplete,
              Calls, NotStarted, prodVars
<1>7. CASE EchoStream(r) \/ OllamaStream(r) \/ McpStream(r)
  <2>1. /\ exec[r] = "call" /\ UNCHANGED ch
        /\ \/ Streams(r, "run") \/ Streams(r, "prompt") \/ Refuses(r)
    BY <1>7 DEF EchoStream, OllamaStream, McpStream, Calls
  <2>2. prod[r] = "none" /\ ch'[r] = <<>> /\ Len(<<>>) = 0
    BY <2>1, TextTypes DEF NotStarted
  <2>3. exec'[r] = "range"
    BY <2>1, <2>2 DEF Streams, Refuses, Goto, TypeOK
  <2> QED BY <2>2, <2>3 DEF Going
<1>8. CASE EchoProduce(r) \/ CloseChannel(r) \/ OllamaEnds(r) \/ McpEnds(r)
  BY <1>8 DEF EchoProduce, CloseChannel, OllamaEnds, McpEnds, Produce, TypeOK
<1>9. CASE McpProduce(r)
  BY <1>9 DEF McpProduce, Produce, ProducerUnchanged, Going, execVars, TypeOK
<1>10. CASE OllamaPiece(r) \/ McpPiece(r)
  <2>1. /\ UNCHANGED <<exec, event, prod>>
        /\ Send(r, Piece(<<sent[r] + 1>>)) \/ UNCHANGED ch
    BY <1>10 DEF OllamaPiece, McpPiece, SendOrGiveUp, ProducerUnchanged, execVars
  <2>2. CASE UNCHANGED ch
    BY <2>1, <2>2 DEF Going
  <2>3. CASE Send(r, Piece(<<sent[r] + 1>>))
    <3>1. Piece(<<sent[r] + 1>>) \in StreamEvents /\ Plain(Piece(<<sent[r] + 1>>))
      <4>1. sent[r] \in 0 .. Pieces /\ sent[r] < Pieces
        BY <1>10, Lengths DEF OllamaPiece, McpPiece
      <4> QED BY <4>1, TextTypes DEF Plain, Piece, NoEvent
    <3>2. /\ Len(ch'[r]) = Len(ch[r]) + 1 /\ Len(ch[r]) \in Nat
          /\ \A i \in 1 .. Len(ch[r]) : ch'[r][i] = ch[r][i]
          /\ ch'[r][Len(ch[r]) + 1] = Piece(<<sent[r] + 1>>)
      BY <2>3, <3>1, SendAppends
    <3>3. \A i \in 1 .. Len(ch[r]) + 1 : i \in 1 .. Len(ch[r]) \/ i = Len(ch[r]) + 1
      BY <3>2
    <3> QED BY <2>1, <3>1, <3>2, <3>3 DEF Going
  <2> QED BY <2>1, <2>2, <2>3
<1> QED BY <1>1, <1>2, <1>3, <1>4, <1>5, <1>6, <1>7, <1>8, <1>9, <1>10
        DEF ExecuteStep, ProducerStep, BackendStep

\* A goroutine that comes to an error sends it, or its client is gone.
LEMMA ErrorComes ==
    ASSUME TypeOK, FinalReturns, HolderAlone, NEW r \in Requests, NotStarted(r),
           Going(r), prod[r] = "run", prod'[r] = "close",
           UNCHANGED <<config, ctx, exec, event, queue>>,
           NEW e \in StreamEvents, e.error,
           Send(r, e) \/ (provider = "mcphost" /\ Gone(r))
    PROVE  ErrorAhead(r)' \/ ErrorOver(r)' \/ ErrorLost(r)'
<1>1. CASE provider = "mcphost" /\ Gone(r)
  <2>1. streaming
    BY DEF HolderAlone
  <2> QED BY <1>1, <2>1 DEF ErrorLost, Gone, config
<1>2. CASE Send(r, e)
  <2>1. /\ exec[r] \in {"range", "working", "err"}
        /\ exec[r] = "working" => ~event[r].done
        /\ \A i \in 1 .. Len(ch[r]) : Plain(ch[r][i])
    BY DEF Going, Plain
  <2>2. CASE exec[r] = "err"
    <3>1. ~Has(r, {"completed", "message"})
      BY <2>2 DEF FinalReturns, Has, Final
    <3> QED BY <2>2, <3>1 DEF ErrorOver, Has, Returned
  <2>3. CASE exec[r] # "err"
    <3>1. /\ Len(ch'[r]) = Len(ch[r]) + 1 /\ Len(ch[r]) \in Nat /\ ch'[r] # <<>>
          /\ \A i \in 1 .. Len(ch[r]) : ch'[r][i] = ch[r][i]
          /\ ch'[r][Len(ch[r]) + 1] = e
      BY <1>2, SendAppends
    <3>2. Len(ch'[r]) - 1 = Len(ch[r])
      BY <3>1
    <3> QED BY <2>1, <2>3, <3>1, <3>2 DEF ErrorAhead
  <2> QED BY <2>2, <2>3
<1> QED BY <1>1, <1>2

\* A request whose error is known stays without an answer.
LEMMA ErrorOverStays ==
    ASSUME TypeOK, FinalReturns, [Next]_vars, NEW r \in Requests, ErrorOver(r)
    PROVE  ErrorOver(r)'
<1>1. exec'[r] \in {"failed"} \cup Returned
  BY OverIsOver DEF ErrorOver, Receive, Returned
<1>2. \/ UNCHANGED queue[r]
      \/ \E kind \in {"canceled", "failed"} : Wrote(r, kind, <<>>)
  BY EventMoves DEF ErrorOver, Quiet, Cancels, Reports, Finishes, Returned
<1>3. ~Has(r, {"completed", "message"})'
  <2>1. CASE UNCHANGED queue[r]
    BY <2>1 DEF ErrorOver, Has
  <2>2. ASSUME NEW kind \in {"canceled", "failed"}, Wrote(r, kind, <<>>)
        PROVE  ~Has(r, {"completed", "message"})'
    <3>1. kind \in EventKinds /\ <<>> \in Texts
      BY TextTypes DEF EventKinds
    <3>2. Has(r, {"completed", "message"})'
              <=> Has(r, {"completed", "message"}) \/ kind \in {"completed", "message"}
      BY <2>2, <3>1, HasOneMore
    <3> QED BY <3>2 DEF ErrorOver
  <2> QED BY <1>2, <2>1, <2>2
<1> QED BY <1>1, <1>3 DEF ErrorOver

\* An error on its way stays there, is received, or Execute returns before it.
LEMMA ErrorAheadStep ==
    ASSUME TypeOK, FinalReturns, NEW r \in Requests, NotStarted(r), ErrorAhead(r),
           \/ Execute(r) \/ ContextEnds(r) \/ Cancel(r)
           \/ ExecuteStep(r) \/ ProducerStep(r) \/ BackendStep(r)
    PROVE  ErrorAhead(r)' \/ ErrorOver(r)'
<1>0. /\ exec[r] \in {"range", "working"} /\ prod[r] \in {"close", "done"}
      /\ ch[r] # <<>>
  BY DEF ErrorAhead
<1>f. ~Has(r, {"completed", "message"})
  BY <1>0 DEF FinalReturns, Has, Final
<1>1. CASE ContextEnds(r) \/ Cancel(r)
  BY <1>1 DEF ContextEnds, Cancel, ErrorAhead, execVars, prodVars
<1>2. CASE WriteWorking(r)
  <2>1. UNCHANGED <<event, prod, ch>> /\ exec[r] = "working" /\ ~event[r].done
    BY <1>2 DEF WriteWorking, WriteOrFail, prodVars, ErrorAhead
  <2>2. \/ exec'[r] = "range"
        \/ exec'[r] = "err" /\ UNCHANGED queue
    BY <1>2, <2>1 DEF WriteWorking, WriteOrFail, AfterWorking, Goto, TypeOK
  <2>3. CASE exec'[r] = "range"
    BY <2>1, <2>3 DEF ErrorAhead
  <2>4. CASE exec'[r] = "err" /\ UNCHANGED queue
    BY <1>f, <2>4 DEF ErrorOver, Has, Returned
  <2> QED BY <2>2, <2>3, <2>4
<1>3. CASE Receive(r)
  <2>1. /\ Len(ch'[r]) = Len(ch[r]) - 1 /\ Len(ch[r]) > 0 /\ Len(ch[r]) \in Nat
        /\ \A i \in 1 .. Len(ch[r]) - 1 : ch'[r][i] = ch[r][i + 1]
        /\ ch'[r] # <<>> <=> Len(ch'[r]) > 0
        /\ prod' = prod /\ Head(ch[r]) = ch[r][1]
    BY <1>3, ReceiveTakes, Lengths
  <2>2. /\ event'[r] = Head(ch[r]) /\ exec'[r] = AfterReceive(Head(ch[r]))
        /\ UNCHANGED queue
    BY <1>3 DEF Receive, Goto, TypeOK
  <2>3. CASE Len(ch[r]) = 1
    <3>1. Head(ch[r]).error
      BY <2>1, <2>3 DEF ErrorAhead
    <3>2. exec'[r] = "failed"
      BY <2>2, <3>1 DEF AfterReceive
    <3> QED BY <1>f, <2>2, <3>2 DEF ErrorOver, Has
  <2>4. CASE Len(ch[r]) > 1
    <3>1. PICK l \in Nat : l = Len(ch[r]) /\ l > 1
      BY <2>1, <2>4
    <3>2. /\ 1 \in 1 .. l - 1 /\ l - 1 \in 1 .. l - 1 /\ (l - 1) + 1 = l
          /\ \A i \in 1 .. (l - 1) - 1 : i \in 1 .. l - 1 /\ i + 1 \in 1 .. l - 1
      BY <3>1
    <3>3. Plain(Head(ch[r])) /\ ch'[r][l - 1].error
      BY <2>1, <3>1, <3>2 DEF ErrorAhead
    <3>4. exec'[r] \in {"range", "working"} /\ ~event'[r].done
      BY <2>2, <3>3 DEF AfterReceive, Plain
    <3>5. \A i \in 1 .. (l - 1) - 1 : Plain(ch'[r][i])
      BY <2>1, <3>1, <3>2 DEF ErrorAhead
    <3>6. Len(ch'[r]) = l - 1 /\ ch'[r] # <<>>
      BY <2>1, <3>1
    <3> QED BY <1>0, <2>1, <3>3, <3>4, <3>5, <3>6 DEF ErrorAhead
  <2>5. Len(ch[r]) = 1 \/ Len(ch[r]) > 1
    <3>1. PICK l \in Nat : l = Len(ch[r]) /\ l > 0
      BY <2>1
    <3>2. l \in Nat /\ l > 0
      BY <3>1
    <3>3. l = 1 \/ l > 1
      BY <3>2
    <3> QED BY <3>1, <3>3
  <2> QED BY <2>3, <2>4, <2>5
<1>4. CASE CloseChannel(r)
  BY <1>4 DEF CloseChannel, Produce, ProducerUnchanged, ErrorAhead, execVars, TypeOK
<1>5. /\ ~Execute(r) /\ ~WriteMessage(r) /\ ~WriteCompleted(r) /\ ~WriteError(r)
      /\ ~StreamEnded(r) /\ ~McpPrompt(r) /\ ~McpComplete(r)
      /\ ~EchoComplete(r) /\ ~OllamaComplete(r) /\ ~McpLock(r)
      /\ ~EchoStream(r) /\ ~OllamaStream(r) /\ ~McpStream(r)
  BY <1>0 DEF Execute, WriteMessage, WriteCompleted, WriteError, StreamEnded,
              McpPrompt, McpComplete, EchoComplete, OllamaComplete, McpLock,
              EchoStream, OllamaStream, McpStream, Calls
<1>6. /\ ~EchoProduce(r) /\ ~OllamaPiece(r) /\ ~OllamaEnds(r)
      /\ ~McpProduce(r) /\ ~McpPiece(r) /\ ~McpEnds(r)
  BY <1>0 DEF EchoProduce, OllamaPiece, OllamaEnds, McpProduce, McpPiece, McpEnds
<1> QED BY <1>1, <1>2, <1>3, <1>4, <1>5, <1>6 DEF ExecuteStep, ProducerStep, BackendStep

\* Where the errors come from.
LEMMA ErrorLeadsStep ==
    ASSUME TypeOK, FinalReturns, HolderAlone, [Next]_vars,
           NEW r \in Requests, NotStarted(r), Going(r), ErrorLeads(r),
           \/ Execute(r) \/ ContextEnds(r) \/ Cancel(r)
           \/ ExecuteStep(r) \/ ProducerStep(r) \/ BackendStep(r)
    PROVE  ErrorLeads(r)'
<1>1. CASE r \in errored
  <2>1. CASE ErrorAhead(r)
    BY <2>1, ErrorAheadStep DEF ErrorLeads
  <2>2. CASE ErrorOver(r)
    BY <2>2, ErrorOverStays DEF ErrorLeads
  <2>3. CASE ErrorLost(r)
    <3>1. Gone(r)' /\ UNCHANGED config
      BY <2>3, ProducerOver, ConfigKept DEF ErrorLost
    <3> QED BY <2>3, <3>1 DEF ErrorLost, ErrorLeads, config
  <2> QED BY <1>1, <2>1, <2>2, <2>3 DEF ErrorLeads
<1>2. CASE r \notin errored
  <2>1. CASE /\ exec[r] \in {"call", "generate"}
             /\ exec'[r] = "failed" \/ UNCHANGED errored
             /\ UNCHANGED queue
    <3>1. ~Has(r, {"completed", "message"})
      BY <2>1 DEF FinalReturns, Has, Final
    <3> QED BY <1>2, <2>1, <3>1 DEF ErrorLeads, ErrorOver, Has
  <2>2. CASE UNCHANGED errored
    BY <1>2, <2>2 DEF ErrorLeads
  <2>3. CASE OllamaComplete(r) \/ McpComplete(r) \/ McpLock(r)
    <3>1. /\ exec[r] \in {"call", "generate"} /\ UNCHANGED queue
          /\ Fails(r) \/ UNCHANGED errored
      BY <2>3 DEF OllamaComplete, McpComplete, McpLock, Calls, Answer
    <3>2. exec'[r] = "failed" \/ UNCHANGED errored
      BY <3>1 DEF Fails, Goto, TypeOK
    <3> QED BY <2>1, <3>1, <3>2
  <2>4. CASE EchoStream(r) \/ OllamaStream(r) \/ McpStream(r)
    <3>1. /\ exec[r] = "call" /\ UNCHANGED queue
          /\ Streams(r, "run") \/ Streams(r, "prompt") \/ Refuses(r)
      BY <2>4 DEF EchoStream, OllamaStream, McpStream, Calls
    <3>2. exec'[r] = "failed" \/ UNCHANGED errored
      BY <3>1 DEF Streams, Refuses, Fails, Goto, TypeOK
    <3> QED BY <2>1, <3>1, <3>2
  <2>5. CASE OllamaEnds(r) \/ McpEnds(r)
    <3>1. /\ prod[r] = "run" /\ prod'[r] = "close"
          /\ UNCHANGED <<config, ctx, exec, event, queue>>
      BY <2>5 DEF OllamaEnds, McpEnds, Produce, ProducerUnchanged, execVars, TypeOK
    <3>2. \/ UNCHANGED errored
          \/ \E e \in {Error, [Error EXCEPT !.done = FALSE]} :
                 Send(r, e) \/ (provider = "mcphost" /\ Gone(r))
      BY <2>5 DEF OllamaEnds, McpEnds, SendOrGiveUp, GiveUp
    <3>3. ASSUME NEW e \in {Error, [Error EXCEPT !.done = FALSE]},
                 Send(r, e) \/ (provider = "mcphost" /\ Gone(r))
          PROVE  ErrorLeads(r)'
      <4>1. e \in StreamEvents /\ e.error
        BY TextTypes DEF Error, NoEvent
      <4> QED BY <3>1, <3>3, <4>1, ErrorComes DEF ErrorLeads
    <3> QED BY <2>2, <3>2, <3>3
  <2>6. CASE \/ Execute(r) \/ ContextEnds(r) \/ Cancel(r)
             \/ WriteMessage(r) \/ WriteWorking(r) \/ WriteCompleted(r) \/ WriteError(r)
             \/ Receive(r) \/ StreamEnded(r) \/ EchoComplete(r) \/ McpPrompt(r)
    BY <2>2, <2>6 DEF Execute, ContextEnds, Cancel, WriteMessage, WriteWorking,
            WriteCompleted, WriteError, WriteOrFail, Receive, StreamEnded,
            EchoComplete, Answer, McpPrompt, prodVars
  <2>7. CASE ProducerStep(r) \/ OllamaPiece(r) \/ McpProduce(r) \/ McpPiece(r)
    BY <2>2, <2>7 DEF ProducerStep, EchoProduce, CloseChannel, OllamaPiece,
            McpProduce, McpPiece
  <2> QED BY <2>3, <2>4, <2>5, <2>6, <2>7 DEF ExecuteStep, BackendStep
<1> QED BY <1>1, <1>2

LEMMA ErrorInit == Init => ErrorInv
<1> SUFFICES ASSUME Init PROVE ErrorInv
  OBVIOUS
<1>1. FlowInv /\ HolderAlone
  BY FlowInit, SessionInit DEF SessionInv
<1>2. \A r \in Requests : ~event[r].error /\ prod[r] = "none" /\ r \notin errored
  BY DEF Init, NoEvent
<1> QED BY <1>1, <1>2 DEF ErrorInv, ErrorFails, Going, ErrorLeads

LEMMA ErrorStep == ErrorInv /\ [Next]_vars => ErrorInv'
<1> SUFFICES ASSUME ErrorInv, [Next]_vars PROVE ErrorInv'
  OBVIOUS
<1>t. TypeOK /\ FinalInv /\ FinalReturns /\ FlowInv /\ HolderAlone
  BY DEF ErrorInv, FlowInv, FinalInv
<1>1. FlowInv' /\ HolderAlone' /\ ErrorFails'
  BY <1>t, FlowInvStep, SessionStep, ErrorFailsStep DEF SessionInv, ErrorInv
<1>2. ASSUME NEW q \in Requests PROVE Going(q)' /\ ErrorLeads(q)'
  <2>q. NotStarted(q) /\ Going(q) /\ ErrorLeads(q)
    BY DEF ErrorInv, FlowInv
  <2>s. ASSUME SameFlow(q), queue'[q] = queue[q], q \in errored' <=> q \in errored
        PROVE  Going(q)' /\ ErrorLeads(q)'
    <3>1. streaming' = streaming
      BY ConfigKept DEF config
    <3>2. Going(q)'
      BY <2>q, <2>s DEF SameFlow, Going
    <3>3. ErrorAhead(q) => ErrorAhead(q)'
      BY <2>s DEF SameFlow, ErrorAhead
    <3>4. ErrorOver(q) => ErrorOver(q)'
      BY <2>s DEF SameFlow, ErrorOver, Has
    <3>5. ErrorLost(q) => ErrorLost(q)'
      BY <2>s, <3>1 DEF SameFlow, ErrorLost, Gone
    <3> QED BY <2>q, <2>s, <3>2, <3>3, <3>4, <3>5 DEF ErrorLeads
  <2>1. ASSUME NEW r \in Requests,
               \/ Execute(r) \/ ContextEnds(r) \/ Cancel(r)
               \/ ExecuteStep(r) \/ ProducerStep(r) \/ BackendStep(r)
        PROVE  Going(q)' /\ ErrorLeads(q)'
    <3>1. CASE q = r
      BY <1>t, <2>q, <2>1, <3>1, GoingStep, ErrorLeadsStep
    <3>2. CASE q # r
      BY <1>t, <2>1, <2>s, <3>2, Elsewhere
    <3> QED BY <3>1, <3>2
  <2>2. CASE UNCHANGED vars
    BY <2>2, <2>s DEF vars, config, execVars, prodVars, SameFlow
  <2> QED BY <2>1, <2>2 DEF Next
<1> QED BY <1>1, <1>2 DEF ErrorInv

\* An answer was written only by an Execute that returned: the error was lost.
LEMMA ErrorIsReported == ErrorInv => ErrorsReported
<1> SUFFICES ASSUME ErrorInv, NEW r \in Requests
             PROVE  /\ r \in errored /\ Has(r, {"completed", "message"}) =>
                           provider = "mcphost" /\ streaming /\ Gone(r)
                    /\ event[r].error => ~Has(r, {"completed"})
  BY DEF ErrorsReported
<1>1. event[r].error => ~Has(r, {"completed"})
  BY DEF ErrorInv, ErrorFails
<1>2. ASSUME r \in errored, Has(r, {"completed", "message"})
      PROVE  ErrorLost(r)
  <2>1. Has(r, Final)
    BY <1>2 DEF Has, Final
  <2>2. exec[r] = "ok"
    BY <2>1 DEF ErrorInv, FlowInv, FinalInv, FinalReturns
  <2>3. ErrorAhead(r) \/ ErrorOver(r) \/ ErrorLost(r)
    BY <1>2 DEF ErrorInv, ErrorLeads
  <2> QED BY <1>2, <2>2, <2>3 DEF ErrorAhead, ErrorOver
<1> QED BY <1>1, <1>2 DEF ErrorLost

-----------------------------------------------------------------------------
(* Theorems *)

\* Every variable keeps its type and no channel holds more than make gave it:
\* echo.go:33, ollama.go:162 and mcphost.go:205.
THEOREM TypeCorrect == Spec => []TypeOK
<1>1. Init => TypeOK
  BY TypeInit
<1>2. TypeOK /\ [Next]_vars => TypeOK'
  BY TypeStep
<1> QED BY <1>1, <1>2, PTL DEF Spec

\* Execute writes one final event at most, nothing but a cancellation after
\* it, and does not return without error before it.
THEOREM FinalCorrect == Spec => []FinalIsLast
<1>1. Init => FinalInv
  BY FinalInit
<1>2. FinalInv /\ [Next]_vars => FinalInv'
  BY FinalStep
<1>3. FinalInv => FinalIsLast
  BY DEF FinalInv
<1> QED BY <1>1, <1>2, <1>3, PTL DEF Spec

\* Execute (executor.go) with the providers: an error that Complete or Stream
\* returns, or that a goroutine has to send, never ends in a message or a
\* completed task, with one exception: the error of mcphost's goroutine, dropped
\* once the client is gone (mcphost.go:231).  An error that Execute received is
\* never followed by completed, without exception.
THEOREM ErrorsReportedCorrect == Spec => []ErrorsReported
<1>1. Init => ErrorInv
  BY ErrorInit
<1>2. ErrorInv /\ [Next]_vars => ErrorInv'
  BY ErrorStep
<1>3. ErrorInv => ErrorsReported
  BY ErrorIsReported
<1> QED BY <1>1, <1>2, <1>3, PTL DEF Spec

\* Complete (mcphost.go:149): the mutex keeps the conversations apart when the
\* daemon does not stream, however many requests wait for it.
THEOREM SessionCorrect == Spec => []SerialConversations
<1>1. Init => SessionInv
  BY SessionInit
<1>2. SessionInv /\ [Next]_vars => SessionInv'
  BY SessionStep
<1>3. SessionInv => SerialConversations
  BY DEF SessionInv, HolderAlone, SerialConversations
<1> QED BY <1>1, <1>2, <1>3, PTL DEF Spec

\* The completed text that a waiting client gets is exactly what the backend
\* sent: every piece, once and in order, and for mcphost the whole answer once
\* more (mcphost.go:235), for answers and channels of any length.
THEOREM AnswerExactCorrect == Spec => []AnswerExact
<1>1. Init => FlowInv
  BY FlowInit
<1>2. FlowInv /\ [Next]_vars => FlowInv'
  BY FlowInvStep
<1>3. FlowInv => AnswerExact
  BY FlowIsExact
<1> QED BY <1>1, <1>2, <1>3, PTL DEF Spec
=============================================================================
