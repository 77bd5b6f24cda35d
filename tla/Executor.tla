------------------------------ MODULE Executor ------------------------------
(***************************************************************************)
(* pkg/a2aexec/executor.go with the three providers of pkg/llm: how an A2A *)
(* request becomes a call of the provider, and its answer the events of a  *)
(* task.  In streaming mode a goroutine of the provider sends the answer,  *)
(* piece by piece, through a channel that Execute reads.  All requests     *)
(* share one mcphost session, which every call clears first.               *)
(*                                                                         *)
(* The A2A library calls Execute once per request, with a context that     *)
(* ends when the client is gone; its queue refuses an event only once the  *)
(* context is done.  The backend (the HTTP server of Ollama, the mcphost   *)
(* SDK) is external: it may answer in pieces, stop early, fail, or take    *)
(* forever, but gives up when the context is done.                         *)
(*                                                                         *)
(* An answer is the sequence of its pieces.  An unbuffered channel holds   *)
(* at most the value its sender is offering; the sender goes on when it    *)
(* has been taken.                                                         *)
(***************************************************************************)
EXTENDS Naturals, Sequences

CONSTANTS
    Requests,       \* the messages that A2A clients send
    Configurations, \* which provider the daemon has, whether it streams, and
                    \* which requests have no text part
    Pieces,         \* how many pieces a backend sends
    McpCap,         \* the capacity of mcphost's channel; 16 in the code
    None            \* nobody holds the mutex

ASSUME ExecutorAssumption ==
    /\ Configurations \subseteq [provider : {"echo", "ollama", "mcphost"},
                                 streaming : BOOLEAN,
                                 textless : SUBSET Requests]
    /\ Pieces \in Nat
    /\ McpCap \in Nat \ {0}
    /\ None \notin Requests

VARIABLES
    provider,       \* Executor.Provider
    streaming,      \* Executor.Streaming
    textless,       \* the requests without a text part
    ctx,            \* the context of each request
    exec,           \* where each Execute is
    text,           \* its fullResponse, or the answer of Complete
    event,          \* the stream event it has received
    queue,          \* the events it has written
    prod,           \* the goroutine that Stream started
    sent,           \* how many pieces the backend has sent
    ch,             \* the channel between the two
    errored,        \* the requests for which the provider has returned an
                    \* error, or has one to send
    mu,             \* who holds MCPHostProvider.mu
    session,        \* the requests whose messages are in the mcphost session
    seen            \* ... and were in it when a request was answered

config == <<provider, streaming, textless>>
execVars == <<exec, text, event, queue>>
prodVars == <<prod, sent, ch, errored>>
hostVars == <<mu, session, seen>>
vars == <<config, ctx, execVars, prodVars, hostVars>>

Whole == [i \in 1 .. Pieces |-> i]
NoEvent == [content |-> <<>>, done |-> FALSE, error |-> FALSE]
Piece(content) == [NoEvent EXCEPT !.content = content]
Done == [NoEvent EXCEPT !.done = TRUE]
Error == [NoEvent EXCEPT !.error = TRUE, !.done = TRUE]

Returned == {"ok", "err"}
Gone(r) == ctx[r] = "done"

-----------------------------------------------------------------------------
(* A bug in one operation, used to confirm that the properties see it. *)
BugNoUnlock == UNCHANGED mu
BugNoLock(r) == mu' = None
BugNoReturn == "range"
BugForgetText(r) == text' = [text EXCEPT ![r] = event[r].content]
BugBlockingSend(r) == FALSE
BugDropWhenFull(r) == TRUE
BugNoLimit(r) == TRUE
-----------------------------------------------------------------------------

\* make(chan StreamEvent, 1), make(chan StreamEvent) and make(..., 16)
Cap == IF provider = "mcphost" THEN McpCap ELSE 1
Room(r) == Len(ch[r]) < Cap

\* createLLMProvider and newServer: any provider, streaming or not
Init ==
    /\ \E c \in Configurations :
           /\ provider = c.provider
           /\ streaming = c.streaming
           /\ textless = c.textless
    /\ ctx = [r \in Requests |-> "live"]
    /\ exec = [r \in Requests |-> "idle"]
    /\ text = [r \in Requests |-> <<>>]
    /\ event = [r \in Requests |-> NoEvent]
    /\ queue = [r \in Requests |-> <<>>]
    /\ prod = [r \in Requests |-> "none"]
    /\ sent = [r \in Requests |-> 0]
    /\ ch = [r \in Requests |-> <<>>]
    /\ errored = {}
    /\ mu = None
    /\ session = {}
    /\ seen = [r \in Requests |-> {}]

Goto(r, label) == exec' = [exec EXCEPT ![r] = label]
Produce(r, label) == prod' = [prod EXCEPT ![r] = label]

\* The provider has an error for the request ...
Errs(r) == errored' = errored \cup {r}

\* ... and returns it to Execute.
Fails(r) == Goto(r, "failed") /\ Errs(r)

\* The client gives up or its connection ends.
ContextEnds(r) ==
    /\ exec[r] # "idle"
    /\ ~Gone(r)
    /\ ctx' = [ctx EXCEPT ![r] = "done"]
    /\ UNCHANGED <<config, execVars, prodVars, hostVars>>

-----------------------------------------------------------------------------
(* Execute *)

\* The text of the message is extracted; the provider is called.
Execute(r) ==
    /\ exec[r] = "idle"
    /\ Goto(r, "call")
    /\ UNCHANGED <<config, ctx, text, event, queue, prodVars, hostVars>>

\* Events of Execute; Cancel's is "canceled".
Write(r, kind, content) ==
    queue' = [queue EXCEPT ![r] = Append(@, [kind |-> kind, text |-> content])]

\* q.Write succeeds, or fails because the context is done.
WriteOrFail(r, kind, content, next) ==
    /\ \/ Write(r, kind, content) /\ Goto(r, next)
       \/ Gone(r) /\ Goto(r, "err") /\ UNCHANGED queue
    /\ UNCHANGED <<config, ctx, prodVars, hostVars>>

\* executeNonStreaming: the answer is one message.
WriteMessage(r) ==
    /\ exec[r] = "answer"
    /\ WriteOrFail(r, "message", text[r], "ok")
    /\ UNCHANGED <<text, event>>

\* Where an event leads: an error comes first, then content, then Done.
AfterReceive(e) ==
    IF e.error THEN "failed"
    ELSE IF e.content # <<>> THEN "working"
    ELSE IF e.done THEN "completed" ELSE "range"

\* for event := range stream
Receive(r) ==
    /\ exec[r] = "range"
    /\ ch[r] # <<>>
    /\ event' = [event EXCEPT ![r] = Head(ch[r])]
    /\ ch' = [ch EXCEPT ![r] = Tail(@)]
    /\ Goto(r, AfterReceive(Head(ch[r])))
    /\ UNCHANGED <<config, ctx, text, queue, prod, sent, errored, hostVars>>

\* "Stream ended without explicit done": the channel is closed and empty.
StreamEnded(r) ==
    /\ exec[r] = "range"
    /\ ch[r] = <<>>
    /\ prod[r] = "done"
    /\ Goto(r, "completed")
    /\ UNCHANGED <<config, ctx, text, event, queue, prodVars, hostVars>>

\* fullResponse.WriteString(event.Content)
Accumulate(r) == text' = [text EXCEPT ![r] = @ \o event[r].content]

\* if event.Done
AfterWorking(r) == IF event[r].done THEN "completed" ELSE "range"

WriteWorking(r) ==
    /\ exec[r] = "working"
    /\ Accumulate(r)
    /\ WriteOrFail(r, "working", event[r].content, AfterWorking(r))
    /\ UNCHANGED event

\* return q.Write(ctx, finalEvent)
AfterCompleted == "ok"

WriteCompleted(r) ==
    /\ exec[r] = "completed"
    /\ WriteOrFail(r, "completed", text[r], AfterCompleted)
    /\ UNCHANGED <<text, event>>

\* writeError
WriteError(r) ==
    /\ exec[r] = "failed"
    /\ WriteOrFail(r, "failed", <<>>, "ok")
    /\ UNCHANGED <<text, event>>

\* Executor.Cancel writes a final event; Execute is not told.
Cancel(r) ==
    /\ exec[r] \notin Returned \cup {"idle"}
    /\ \A i \in DOMAIN queue[r] : queue[r][i].kind # "canceled"
    /\ Write(r, "canceled", <<>>)
    /\ UNCHANGED <<config, ctx, exec, text, event, prodVars, hostVars>>

-----------------------------------------------------------------------------
(* Complete, called by Execute *)

Calls(r, p, stream) == exec[r] = "call" /\ provider = p /\ streaming = stream

Answer(r, content) ==
    Goto(r, "answer") /\ text' = [text EXCEPT ![r] = content] /\ UNCHANGED errored

\* What the echo provider answers: the text of the message
Message(r) == IF r \in textless THEN <<>> ELSE Whole

EchoComplete(r) ==
    /\ Calls(r, "echo", FALSE)
    /\ Answer(r, Message(r))
    /\ UNCHANGED <<config, ctx, event, queue, prod, sent, ch, hostVars>>

\* The HTTP request is answered, or fails.
OllamaComplete(r) ==
    /\ Calls(r, "ollama", FALSE)
    /\ \/ Answer(r, Whole)
       \/ Fails(r) /\ UNCHANGED text
    /\ UNCHANGED <<config, ctx, event, queue, prod, sent, ch, hostVars>>

Lock(r) == mu' = r
Unlock == mu' = None

\* p.mu.Lock(), which does not watch the context, and ClearSession
McpLock(r) ==
    /\ Calls(r, "mcphost", FALSE)
    /\ mu = None
    /\ session' = {}
    /\ IF r \in textless
       THEN Fails(r) /\ UNCHANGED mu             \* "no user message found"
       ELSE Goto(r, "prompt") /\ Lock(r) /\ UNCHANGED errored
    /\ UNCHANGED <<config, ctx, text, event, queue, prod, sent, ch, seen>>

\* The SDK adds the message to its session and answers from what is there.
Prompt(r) ==
    /\ session' = session \cup {r}
    /\ seen' = [seen EXCEPT ![r] = session']

McpPrompt(r) ==
    /\ exec[r] = "prompt"
    /\ Prompt(r)
    /\ Goto(r, "generate")
    /\ UNCHANGED <<config, ctx, text, event, queue, prodVars, mu>>

\* host.Prompt returns; the mutex was held all the time.
McpComplete(r) ==
    /\ exec[r] = "generate"
    /\ Unlock
    /\ \/ Answer(r, Whole)
       \/ Fails(r) /\ UNCHANGED text
    /\ UNCHANGED <<config, ctx, event, queue, prod, sent, ch, session, seen>>

-----------------------------------------------------------------------------
(* Stream, called by Execute, and the goroutine that it starts *)

Streams(r, label) == Goto(r, "range") /\ Produce(r, label) /\ UNCHANGED errored
Refuses(r) == Fails(r) /\ UNCHANGED prod

EchoStream(r) ==
    /\ Calls(r, "echo", TRUE)
    /\ Streams(r, "run")
    /\ UNCHANGED <<config, ctx, text, event, queue, sent, ch, hostVars>>

\* The HTTP request is accepted, or fails.
OllamaStream(r) ==
    /\ Calls(r, "ollama", TRUE)
    /\ Streams(r, "run") \/ Refuses(r)
    /\ UNCHANGED <<config, ctx, text, event, queue, sent, ch, hostVars>>

\* The mutex is held for ClearSession, and released before the goroutine
\* prompts.
McpStream(r) ==
    /\ Calls(r, "mcphost", TRUE)
    /\ mu = None
    /\ session' = {}
    /\ IF r \in textless THEN Refuses(r) ELSE Streams(r, "prompt")
    /\ UNCHANGED <<config, ctx, text, event, queue, sent, ch, mu, seen>>

ProducerUnchanged == UNCHANGED <<config, ctx, execVars>>

\* ch <- e
Send(r, e) == Room(r) /\ ch' = [ch EXCEPT ![r] = Append(@, e)]

\* select: case <-ctx.Done()
GiveUp(r) == Gone(r)

\* The select statements of the mcphost goroutine
SendOrGiveUp(r, e) ==
    \/ Send(r, e)
    \/ GiveUp(r) /\ UNCHANGED ch

EchoProduce(r) ==
    /\ prod[r] = "run" /\ provider = "echo"
    /\ Send(r, [Done EXCEPT !.content = Message(r)])
    /\ sent' = [sent EXCEPT ![r] = Len(Message(r))]
    /\ Produce(r, "close")
    /\ UNCHANGED <<errored, hostVars>> /\ ProducerUnchanged

\* A line of the response has content; sending it does not watch the context.
OllamaPiece(r) ==
    /\ prod[r] = "run" /\ provider = "ollama"
    /\ sent[r] < Pieces
    /\ Send(r, Piece(<<sent[r] + 1>>))
    /\ sent' = [sent EXCEPT ![r] = @ + 1]
    /\ UNCHANGED <<prod, errored, hostVars>> /\ ProducerUnchanged

\* [DONE], finish_reason "stop", or the end of the body, at any time; or a
\* line that cannot be decoded or read, for one because the context is done.
OllamaEnds(r) ==
    /\ prod[r] = "run" /\ provider = "ollama"
    /\ \/ Send(r, Done) /\ UNCHANGED errored
       \/ Send(r, Error) /\ Errs(r)
    /\ Produce(r, "close")
    /\ UNCHANGED <<sent, hostVars>> /\ ProducerUnchanged

\* PromptWithCallbacks begins.
McpProduce(r) ==
    /\ prod[r] = "prompt"
    /\ Prompt(r)
    /\ Produce(r, "run")
    /\ UNCHANGED <<sent, ch, errored, mu>> /\ ProducerUnchanged

\* The callback for a piece
McpPiece(r) ==
    /\ prod[r] = "run" /\ provider = "mcphost"
    /\ sent[r] < Pieces
    /\ SendOrGiveUp(r, Piece(<<sent[r] + 1>>))
    /\ sent' = [sent EXCEPT ![r] = @ + 1]
    /\ UNCHANGED <<prod, errored, hostVars>> /\ ProducerUnchanged

\* PromptWithCallbacks returns the whole answer, after its pieces or, if the
\* model does not stream, without any; or an error.
McpEnds(r) ==
    /\ prod[r] = "run" /\ provider = "mcphost"
    /\ \/ /\ sent[r] \in {0, Pieces}
          /\ SendOrGiveUp(r, [Done EXCEPT !.content = Whole])
          /\ UNCHANGED errored
       \/ SendOrGiveUp(r, [Error EXCEPT !.done = FALSE]) /\ Errs(r)
    /\ Produce(r, "close")
    /\ UNCHANGED <<sent, hostVars>> /\ ProducerUnchanged

\* defer close(ch), once an unbuffered send is over
CloseChannel(r) ==
    /\ prod[r] = "close"
    /\ provider = "ollama" => ch[r] = <<>>
    /\ Produce(r, "done")
    /\ UNCHANGED <<sent, ch, errored, hostVars>> /\ ProducerUnchanged

-----------------------------------------------------------------------------

\* What Execute does by itself
ExecuteStep(r) ==
    \/ WriteMessage(r) \/ WriteWorking(r) \/ WriteCompleted(r) \/ WriteError(r)
    \/ Receive(r) \/ StreamEnded(r)
    \/ EchoComplete(r) \/ EchoStream(r)
    \/ McpLock(r) \/ McpStream(r)

\* What the goroutine does by itself
ProducerStep(r) == EchoProduce(r) \/ CloseChannel(r)

\* What takes an answer of the backend
BackendStep(r) ==
    \/ OllamaComplete(r) \/ OllamaStream(r)
    \/ OllamaPiece(r) \/ OllamaEnds(r)
    \/ McpPrompt(r) \/ McpComplete(r)
    \/ McpProduce(r) \/ McpPiece(r) \/ McpEnds(r)

Next ==
    \E r \in Requests :
        \/ Execute(r) \/ ContextEnds(r) \/ Cancel(r)
        \/ ExecuteStep(r) \/ ProducerStep(r) \/ BackendStep(r)

Spec == Init /\ [][Next]_vars

\* Goroutines run.  A backend may take forever, and is sure to be done with a
\* request only once its context is.
Fairness ==
    \A r \in Requests :
        /\ WF_vars(ExecuteStep(r))
        /\ WF_vars(ProducerStep(r))
        /\ WF_vars(Gone(r) /\ BackendStep(r))

FairSpec == Spec /\ Fairness

-----------------------------------------------------------------------------
(* Properties *)

EventKinds == {"working", "completed", "failed", "message", "canceled"}
Texts == Seq(1 .. Pieces)
StreamEvents == [content : Texts, done : BOOLEAN, error : BOOLEAN]
Events == [kind : EventKinds, text : Texts]

\* The variables have their types; no channel holds more than its capacity.
TypeOK ==
    /\ [provider |-> provider, streaming |-> streaming,
        textless |-> textless] \in Configurations
    /\ ctx \in [Requests -> {"live", "done"}]
    /\ exec \in [Requests -> Returned \cup
           {"idle", "call", "prompt", "generate", "answer", "range", "working",
            "completed", "failed"}]
    /\ text \in [Requests -> Texts]
    /\ event \in [Requests -> StreamEvents]
    /\ queue \in [Requests -> Seq(Events)]
    /\ ch \in [Requests -> Seq(StreamEvents)]
    /\ \A r \in Requests : Len(ch[r]) <= Cap
    /\ prod \in [Requests -> {"none", "prompt", "run", "close", "done"}]
    /\ sent \in [Requests -> 0 .. Pieces]
    /\ errored \subseteq Requests
    /\ mu \in Requests \cup {None}
    /\ session \subseteq Requests
    /\ seen \in [Requests -> SUBSET Requests]

Has(r, kinds) == \E i \in DOMAIN queue[r] : queue[r][i].kind \in kinds
Final == {"completed", "failed", "message"}

\* Execute writes nothing after its final event, and returns without an error
\* only after writing one: whatever the provider sends, and however the end of
\* the channel, an error event and the end of the context coincide.
FinalIsLast ==
    \A r \in Requests :
        /\ \A i, j \in DOMAIN queue[r] :
               i < j /\ queue[r][i].kind \in Final => queue[r][j].kind = "canceled"
        /\ exec[r] = "ok" => Has(r, Final)

\* A task that is completed while its client waits has exactly the pieces that
\* the backend had sent, each once and in order, in its final event; for
\* mcphost, whose last event has the whole answer, followed by that answer.
Repeated == IF provider = "mcphost" THEN Whole ELSE <<>>
AnswerExact ==
    \A r \in Requests : \A i \in DOMAIN queue[r] :
        queue[r][i].kind = "completed" /\ ~Gone(r) =>
            queue[r][i].text = SubSeq(Whole, 1, sent[r]) \o Repeated

\* An error of the provider is never reported as an answer, whichever call it
\* came from and however full the channel was.  One error can get lost: that
\* of mcphost's goroutine, and only once the client is gone (mcphost.go:231).
\* One that Execute did receive is never reported as completed.
ErrorsReported ==
    \A r \in Requests :
        /\ r \in errored /\ Has(r, {"completed", "message"}) =>
               provider = "mcphost" /\ streaming /\ Gone(r)
        /\ event[r].error => ~Has(r, {"completed"})

\* Without streaming the mutex keeps the conversations of concurrent requests
\* apart: the model sees only the message of the request it answers.
SerialConversations ==
    ~streaming => \A r \in Requests : seen[r] \subseteq {r}

\* "Clear session for fresh conversation" (mcphost.go:153 and 188)
FreshConversation == \A r \in Requests : seen[r] \subseteq {r}

\* Execute returns when its client is gone, however long the backend takes,
\* unless it waits for the mutex, held by a request that is not finished.
CancelReturns ==
    \A r \in Requests :
        exec[r] # "idle" /\ Gone(r) ~>
            \/ exec[r] \in Returned
            \/ mu \notin {None, r} /\ exec[mu] \notin Returned

\* The goroutine of the echo and mcphost providers ends once Execute has
\* returned, also when it returned early and left the channel full.  (That of
\* Ollama does not: ollama.go:199 blocks for good.)
ProducerEnds ==
    \A r \in Requests :
        provider # "ollama" /\ exec[r] \in Returned ~> prod[r] \in {"none", "done"}
=============================================================================
