----------------------------- MODULE MCExecutor -----------------------------
(* Executor with two requests; the channel of mcphost is shorter than an    *)
(* answer.  Every provider is there with and without streaming, and one     *)
(* request without a text part; mcphost without streaming, where requests   *)
(* wait for each other, also with two requests that have text.              *)
EXTENDS Executor

CONSTANTS r1, r2

TwoRequests == {r1, r2}
AllProviders ==
    [provider : {"echo", "ollama", "mcphost"}, streaming : BOOLEAN,
     textless : {{r1}}]
    \cup [provider : {"mcphost"}, streaming : {FALSE}, textless : {{}}]
McpStreams == [provider : {"mcphost"}, streaming : {TRUE}, textless : {{}}]
=============================================================================
