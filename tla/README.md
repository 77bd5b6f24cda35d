# A TLA+ model of tndrl

tndrl is one Go program, a daemon and its client in the same binary. A client
command reaches a daemon over QUIC with mutual TLS; every gRPC connection is one
QUIC stream whose first byte says whether it carries the control protocol or the
A2A protocol; the daemon answers A2A requests by calling a language model. This
directory models the parts of it that have state, checks them with TLC on small
instances, and proves with TLAPS, for every value of the constants, what matters
most: every safety property that a passing run checks is also a theorem.

File names below are relative to the root of the repository. `state.go:64` is a line of
the file of that name in the table below.

## 1. The system

### Components

| component | state | operations | modelled in |
|---|---|---|---|
| node state, `pkg/control/state.go` | state and count of active tasks, two atomics; metadata under a lock | SetReady, SetDraining, SetStopped, IncrementTasks, DecrementTasks, SetMetadata, reads | `Lifecycle`, `NodeState`, `NodeStatus`, `NodeStateProofs`, `NodeStatusProofs` |
| control service, `pkg/control/control.go` | none of its own | Ping, GetStatus, Shutdown | `NodeStatus` (GetStatus), `Daemon` (Shutdown) |
| daemon, `cmd/tndrl/serve.go` | a context, two gRPC servers, `errChan`, the listener | run, stopServers, triggerShutdown, signals | `Daemon`, `DaemonProofs` |
| dialer, `pkg/transport/quic/mux_dialer.go` | a map from address to connection | Dial, its retry, the monitor goroutine, Close | `MuxDialer`, `MuxDialerProofs` |
| listener, `pkg/transport/quic/mux_listener.go` | a set of connections, two channels, a closed flag | acceptLoop, handleConnection, Accept, Close | `StreamRouter`, `MuxListener`, `MuxListenerProofs` |
| connection, `pkg/transport/quic/mux.go` | none of its own | OpenStream, AcceptStream | in the two above |
| A2A executor, `pkg/a2aexec/executor.go` | per request, the text so far | Execute (plain or streaming), Cancel | `Executor`, `ExecutorProofs` |
| providers, `pkg/llm` | mcphost: a mutex, a session, a temporary file | construct, Complete, Stream and its goroutine | `Executor`, `Startup` (construction), `ExecutorProofs`, `PKIProofs` |
| PKI, `pkg/pki`, and the set-up in `serve.go` and `client.go` | four files, or six with paths of their own | generate, save, find, load, pair | `PKI`, `PKIProofs` |
| configuration, `cmd/tndrl/cli.go`, `main.go` | none after start | merge flags, environment and file; start the command | `Config`, `Startup`, `PKIProofs` |
| client connection, `cmd/tndrl/client.go` | one dialer and one gRPC connection per channel | connect, close | `Commands` (the control connection) |
| client commands, `cmd/tndrl/shutdown.go`, `status.go` and others | none | one call and its output | `Commands` (shutdown, and what status shows), see 7 |
| logging, generated code | none | | not modelled, see 7 |

### How they interact

`main` merges the settings and runs the command. `serve` sets up TLS from the PKI files, opens the listener, makes the provider and
starts `run`, which sets READY and lets two gRPC servers accept from the
listener's two sub-listeners. `handleConnection` sends each stream into the
channel of its type; `streamListener.Accept` takes it from there. The A2A server
calls `Executor.Execute`, which calls the provider. The control server calls
`Server.Shutdown`, which starts `triggerShutdown` in a goroutine of its own, as
the signal handler does. That cancels the context that `run` waits for, and
closes the listener under both servers, also under the client command that
called Shutdown and waits for the answer. A client's dialer shares one QUIC
connection among all streams to an address.

### What is hard, and what makes each component correct

* **Node state.** Count and state are two atomics without a common lock. Correct
  if the count is exact, BUSY does not stick, and a late compare-and-swap never
  undoes a lifecycle store. A status copies the metadata while others set it:
  correct if what it shows is the metadata of one moment.
* **Dialer.** The lock is released during the handshake, connections end at any
  moment, two parties evict by address. Correct if racing calls share one connection,
  duplicates are closed, a dead connection leaves the pool, a retry is not given
  the dead connection, and every call returns.
* **Listener.** Goroutines block in reads, sends and accepts that Close must
  free, and a channel is used after the lock under which it was looked up is released. Correct
  if a stream reaches the server of its type once and in order, nothing is lost
  because a channel is full, and Close ends everything without a panic.
* **Daemon.** Several shutdowns, a timeout and the exit of `main` race. Correct
  if the state only moves forward, an accepted shutdown happens and ends, and a
  graceful one lets requests finish.
* **Commands.** The answer of Shutdown and the end of its connection race, and
  the call has no timeout. Correct if the command ends, the shutdown happens
  whatever it is told, and no client sees the state go back.
* **Executor and providers.** A producer and a consumer with a bounded channel,
  a context that ends at any moment, and a session that all requests share. Correct
  if exactly one final event comes last, holds all pieces, is no success after an
  error, no goroutine is left, and conversations do not mix.
* **PKI.** Files are written one after the other without locks or renames, by a
  daemon and by client commands; any process may be killed and any write may fail. Correct if the
  certificate on the disk fits the CA on the disk, nobody runs with mixed files,
  a CA is not lost, and an interrupted initialisation is completed later.
* **Configuration.** Three sources and two kinds of default meet in one struct
  where the zero value stands for "not given". Correct if the documented precedence comes out.
* **Start of a daemon.** It may fail at every step. Correct if nothing is left behind.

`PROJECT.json` lists the hazards at their lines, each with the properties that
cover it or the reason why none does.

## 2. The modules

All modules are plain TLA+ state machines: one action per critical section,
blocking operation or atomic step of the code. Each names the operation in a
comment, and `map` in `PROJECT.json` gives the lines. A definition called
`Bug...` is a plausible mistake in one operation: put in its place, it breaks the
property it is listed with under `mutants` in `PROJECT.json`, which shows that the
property depends on the code.

**Lifecycle** is what a reader of GetStatus may rely on: STARTING, READY (or BUSY),
DRAINING, STOPPED, in this order. `NodeState` and `Daemon` are both checked against it.

**NodeState.** `state` and `activeTasks` are the two atomics. `IncrementAdd`
and `IncrementCas` are the two steps of IncrementTasks, `DecrementAdd` and
`DecrementCas` those of DecrementTasks, `pc` where each task is between them.
`caller` is the position of the one sequence of lifecycle stores that `serve.go` makes.

**NodeStatus** extends it with `metadata` and the calls of GetStatus: `GetState`,
`GetActiveTasks` and `LockMetadata` are its three reads, `CopyKey` one turn of the loop of
GetMetadata, in any order of the keys; `response` and `result` are what it has read. `ReadLocked` is the
read lock, which `SetMetadata` must wait for.

**MuxDialer.** `conns` is the pool, `quic` the state of each connection,
`monitor` the goroutine of each; `pc`, `addr`, `muxConn`, `failed` and
`cancelled` are the local variables of each call of Dial. `Reuse` and `Miss` are
the first critical section of getOrCreateConn, `DialOK` and `DialFail` the
handshake without the lock, `Install` and `LoseRace` the second critical section,
`CloseDup` what follows it (with `ReturnExisting`, the connection that it saw there), `OpenOK` and `OpenFail` OpenStream, `Remove` the
eviction before the retry. `Monitor`, `CloseAll`, `ConnDies` and `Cancel` are the
other actors.

**StreamRouter** is the abstract specification of the listener: bounded queues
per type, and every stream pending, queued, delivered or dropped, in the order of its
connection. Its `QueuesInOrder` says what may wait in a queue; it is proved of MuxListener,
and the refinement rests on it. **MuxListener** implements it with `queue <- chan`. `closer` is how far Close has come inside and after its
critical section; `Locked` says that it holds `l.mu`. Close is split, since
handlers and servers that wait in a select statement see the cancelled context and the
closed channels while the lock is held. A peer may `Reset` a stream until its type byte has been read
(`Unread`): one that has arrived is lost with the stream. `SendPanics` is Go's choice of a ready case: a send on a
closed channel is ready, and panics.

**Daemon.** `main` is run, `serve` the goroutine around each Serve, `trigger`
where each triggerShutdown is (`Steps` is the order of its calls), `timer`
its timeout, `rpc` each Shutdown handler, `request` each A2A request. gRPC's Serve,
Stop and GracefulStop are external and modelled by what `serve.go` relies on.
When `main` has left, nothing else moves: the process is gone.

**Commands** puts the command `tndrl shutdown` before the Shutdown handler of `Daemon`:
`cmd` is where the command is and how it ended. `Connect` is the first call of the
lazy gRPC client, `Arrive` is Daemon's `ReadState`, and `Answer` and `CallFails` race.
In this composition Shutdown is called by nobody else.

**Executor.** `exec` is where each Execute is, `prod` the goroutine of Stream,
`ch` the channel between them; `mu` and `session` are mcphost's. An answer is the
sequence of its pieces. Unbuffered (Ollama's) and buffered channels
(echo's of 1, mcphost's of `McpCap`) are one variable; an unbuffered channel
holds the value that is being offered, and its sender goes on when it is taken. `errored` records
which requests a provider had an error for, whether or not anyone receives it, and `seen`
which requests' messages the model had before it when it answered.

**PKI.** `file` is the disk, `mem` what each process has loaded or generated, `pc`
and `half` where it is. `Truncate` and `Fill` are the two halves of
os.WriteFile; `Kill` may come between any two steps, and `DiskFails` at any step that makes a directory
or writes a file: it ends the start with an error and leaves the file as it was or cut off. A key pair is named after
the start that made it, a certificate is who signed it and whose key it
certifies; that is all that the set-up compares. `own` says that
the flags name a CA outside `--pki-dir`; the files are then `own.crt` and `own.key`.

**Config** is the merge as operators, named after the functions: `Parse` (kong's
part), `Unmarshal`, `Merge`, `ApplyDefaults`, and `Settings`, which is all of them. The
code treats a field by its kind, so there is one field of each kind. `Documented` is
what `docs/configuration.md` says of the same inputs.

**Startup** composes `PKI` and `Config`: `StartWith` starts a process with a value of `--pki-init` that some
command line leads to, `ConfigError` is an unusable file, and after PKI's
"up" a daemon goes on with `Listen`, `CreateProvider` and the steps of NewMCPHostProvider; `temp` holds the
temporary files.

## 3. The runs

`MC` modules give the constants; each `.cfg` picks from them. Deadlock is not checked where the system may stop:
a daemon that has exited, calls that have all returned, a CA that is complete and nobody left to start.
It is checked for `node_state`, where tasks come and go for ever.

| run | instance | what it shows |
|---|---|---|
| `node_state` | 3 tasks, a status, 3 calls of SetMetadata on 2 keys | the count is exact, BUSY never sticks, task accounting refines Lifecycle, a status shows the metadata of one moment |
| `mux_dialer` | 2 calls, 2 addresses, refused dials, cancelled calls, lost connections, Close | duplicates are closed, retries go elsewhere, racing calls share a connection until something is lost, calls return, dead connections are evicted |
| `mux_dialer_stale_monitor` | 3 calls, 1 address, lost connections | finding: two usable connections to one address |
| `mux_listener` | 2 connections, 3 streams of two known and unknown types, channels of 1, one reset or lost | refinement of StreamRouter, nothing shed, Close completes, streams are served |
| `mux_listener_panic` | 1 connection, 1 stream | finding: Close can panic a handler |
| `mux_listener_reset` | 1 connection, 1 stream, reset | finding: a bad stream ends the service of an open connection |
| `daemon` | a signal, a forced `tndrl shutdown`, a request | shutdown completes, what was called for happens, the command ends, nothing but a shutdown ends the process, STOPPED is quiet, no connected client sees the state go back |
| `daemon_two_shutdowns` | a graceful and a forced Shutdown | finding: STOPPED is followed by DRAINING |
| `daemon_drain` | one graceful Shutdown, a request | finding: a graceful shutdown cuts the request |
| `executor` | 2 requests, one of them without text; 3 providers, streaming or not; mcphost without streaming also with text in both; 2 pieces, a channel of 1 | one final event, with exactly what was sent; no error ends as an answer while the client waits; Execute and the goroutines end |
| `executor_fresh` | 2 requests, mcphost | finding: conversations mix when streaming |
| `pki` | a daemon of 3 starts, a client command of 2, kills, writes that fail, a CA elsewhere or not, at first no CA, its certificate only, or a complete one | the certificate fits a CA of the disk, no mixed files in use, the CA is stable, a start repairs a clean disk, a failed start leaves no temporary file; settings follow the documented precedence |

**Why the bounds are enough.** A task count of three has every combination of one that ends, one that
starts and one that stays; the first key is set twice and the
second in between, so that a copy that is not of one moment can be told in either order. In the dialer two calls with two dials each give
the race to install, the retry against the other call's new connection, and the
late monitor; a third call only adds the second connection of the finding. In
the listener a channel of one with two senders is full in the way one of 16
with 17 is; one connection with a stream of an unknown type before a known one
gives the order, the other gives the loss and the reset. The daemon's two shutdowns
are the smallest number that races; the signal is graceful with a timeout, the call forced.
In the executor two pieces and a channel of one make the
sender wait in the middle of an answer, and two requests are what it takes to mix sessions
or to queue for the mutex. In the PKI three starts are an interrupted one, one that
repairs it and one that finds everything; the two of the client are an
interrupted one and one that meets what it left; an interruption is a kill or a failed write. `SettingsAsDocumented` is
evaluated for each of the 27 ways of giving a setting and all kinds of field, in
the states before the first start only, as it depends on nothing a process does.

**Named bounds.** `MaxStarts` (PKI, for each process), `Keys` (NodeStatus), `Pieces` and `McpCap` (Executor), `Cap`
(MuxListener), `Faults` (which failures the environment may cause). A call of Dial dials at most
twice because the code retries once; a connection has finitely many streams.

## 4. Fairness

* `MuxDialer`: every call and every monitor goroutine that can go on does, and DialAddr
  returns, as the QUIC handshake has a timeout. Nothing obliges anyone to call,
  cancel or close.
* `MuxListener`: one weak fairness for all steps of the process. A peer makes
  finitely many connections and streams, so that no goroutine can be passed over for ever
  while others run. Peers owe nothing: a type byte may never come.
* `Daemon`: every goroutine goes on, but for `main` in its select statement, which
  may be slow: the properties must hold whether or not the process outlives the
  shutdown. Timeouts need not expire. A handler returns some time after its client is gone.
* `Commands`: in addition a command goes on when it can: the network delivers
  what is not cut off, and a connection that ended is noticed, at the latest by QUIC's
  idle timeout. Nothing more is needed for CommandsEnd, not even that `main` returns.
* `NodeStatus` and the provider steps of `Startup`: none, their properties are invariants.
* `Executor`: goroutines go on. A backend may take for ever and owes an end only
  once its request's context is done, which every backend call is given.
* `PKI`: a started process goes on until it is killed; the disk may refuse every write.

Go's scheduler is preemptive and starves no goroutine that can run; its mutexes are
fair in the long run. That is what weak fairness says here.

## 5. What is proved

The proofs hold for any finite set of tasks and any sets of calls, keys, shutdowns,
requests, addresses, connections, streams and processes, any lengths of answers and
capacities of channels, not only those of the runs. Safety only: see the end of this
section. Every invariant named here was checked by TLC on the instance of the run first.
TLC evaluates the named assumptions in every run.

**NodeStateProofs** (assumes `FiniteTasks`). The inductive invariant is `Typed
/\ CountExact /\ BusyMeansWork`. `Typed` is TypeOK with the count an integer. The count is
related to the cardinality of the set of tasks between their two steps; lemmas state
how a set's cardinality changes when a task enters or leaves it; that the count is never negative follows from
CountExact. BUSY with a count of zero can only be reached by the task whose
Add(-1) gave zero, and it is at its compare-and-swap until BUSY is gone. Theorems:
`TypeCorrect`, `CountCorrect`, `BusyCorrect`, and `LifecycleRefined`, that `Spec`
implements the lifecycle: each compare-and-swap maps to a stutter.

**NodeStatusProofs** (assumes `StatusAssumption`, that the keys form a sequence). The
invariant says that a reader has copied nothing but under the lock, and then what the map
holds now (`CopyFaithful`), and that the map holds what the calls so far made of it
(`MetadataExact`, by a lemma that counts one call more). A writer finds nobody copying, so that both
survive it. Theorems: `SnapshotCorrect`, and `StatusImplementsNodeState`, by which the theorems
on NodeState hold of the composition that the run checks.

**DaemonProofs** (assumes `DaemonAssumption`), for any number of Shutdown calls, graceful, forced or timed, with or
without the signal. `DaemonInv` consists of

* `TypeOK`, whose last conjunct implies `SpawnedOnce`: a call has a shutdown of its own exactly when it was accepted.
  Without it a second start could take a shutdown back to its beginning;
* `Shutting \/ Untouched`: as long as no shutdown has set DRAINING, no server is stopped, nothing is
  closed, no Serve has failed, no error is in errChan, no timer runs and no call is being rejected. `Moves` lists the only steps that change
  how far a shutdown is, `AdvancedPast` says that they lead forward;
* `QuietInv`: what each shutdown has closed and stopped by the time it is where it is, and that a stopped server does
  not accept again: a Serve that comes later returns at once;
* `MainInv`: there is no control server before READY.

Theorems: `TypeCorrect`, `OnlyShutdownEndsCorrect`, `StoppedCorrect`, `CommandsImplementDaemon`, by which these hold of `Commands`, and
`StatusForwardCorrect`: a client that is connected is past SetReady (MainInv) and before STOPPED (QuietInv).
`LifecycleOfOne` marks the limit of the fourth finding: with one call of Shutdown at most and no signal
(`OneShutdown`) the daemon implements Lifecycle, as the state follows the one shutdown step by step
(`OrderInv`). With two calls it does not, nor with a signal that comes before READY.

**MuxDialerProofs** (assumes `DialerAssumption`: `None` is neither a connection
nor an address). The properties are far from inductive. `IInv` adds to them

* `AddrKnown`: a call that began has an address;
* `UsesInstalled`: a call that is about to open, or is evicting, has a connection that was pooled, for its address;
* `FreshUnused`: the name of the connection that a call may create next was never pooled. Without it
  Install could pool a connection again that had been removed;
* `FailedGone`: a connection on which OpenStream failed was pooled once, and has left
  the pool for good as soon as its call passed removeConn. This is what makes RetryElsewhere inductive: nobody can put it back;
* `Dialled`, `OnlyFreshOpen`: which connections can be open without being pooled;
* `RemoveReason`: a call evicts only what has ended, or after it was cancelled;
* `StillPooled`: while nothing was lost or cancelled, whatever was pooled still is. With it
  SharedUntilLoss follows, as the pool has one place per address.

Theorems: `TypeCorrect`, `PooledWatchedCorrect`, `StreamsCorrect`,
`DuplicatesCorrect`, `RetryCorrect`, `SharedCorrect`. There is one lemma per
conjunct, with one step per action.

**MuxListenerProofs** (assumes `ListenerAssumption`: every connection has a finite sequence
of streams, and a channel holds at least one). `ListenerInv` consists of TypeOK and

* `Taken`: AcceptStream returns the streams in order, and a handler has in hand
  one that the peer opened; the handler that has looked up a channel knows the type;
* `Decided`: up to `taken` every stream has its fate, but for the one in hand. Without it a handler
  could decide a stream again;
* `Router!QueuesInOrder`: a channel holds queued streams of its type only, those of one connection
  in order and once, by lemmas on what Append and Tail do to such a sequence; `RoutedInOrder`: they are
  decided in order.

The refinement follows: Send is the router's Route, ServerReceives its Deliver, the three ways to
lose a stream its Drop, and every other step a stutter. `ClosedInv` adds
`Closable`: every connection with a running handler is in `l.conns`, where CloseConns finds it, also one that
was accepted while Close waited for the lock. Theorems: `TypeCorrect`, `QueuesCorrect`,
`RouterImplemented`, `NeverShedCorrect`, `AllConnsClosedCorrect`.

**ExecutorProofs** (assumes `ExecutorAssumption`). TypeOK, with the capacity of the channels, is inductive by itself.
On top of it

* `FinalInv`: who has written a final event has returned, so that there is no second (FinalIsLast);
* `SessionInv`: without streaming, who prompts holds the mutex, and finds the session as
  ClearSession left it (SerialConversations);
* `FlowInv`: for each request whose client waits, the pieces received and those in the channel are together the
  first that the backend sent. `Flow` has a case for a backend that goes on (`Flowing`), for the last event in the channel
  (`Ending`) and for the last event received (`Complete`); `NotStarted` says that before the provider streams nothing was sent.
  Lemmas state what concatenation, Append and Tail do to sequences of consecutive pieces. The text is then the
  pieces and nothing else, but for mcphost's last event, which brings the whole answer once more (`Repeated`): AnswerExact;
* `ErrorInv`: where an error is. `ErrorLeads`: it is the last event in the channel, behind plain ones (`ErrorAhead`), or has come to
  Execute, which fails or has returned an error (`ErrorOver`), or mcphost's goroutine dropped it because its
  client was gone (`ErrorLost`). `Going` says that nothing but plain events is in the channel while the
  goroutine runs. It rests on FlowInv and on HolderAlone. ErrorsReported follows, with the exception in its statement.

Theorems: `TypeCorrect`, `FinalCorrect`, `ErrorsReportedCorrect`, `SessionCorrect`, `AnswerExactCorrect`.

**PKIProofs** (assumes `PKIAssumption`: `None`, `Torn` and what a file can hold are different), about
`StartupSpec`, for any clients, any numbers of starts, any kills and any writes that fail.

* `TypeInv` adds to TypeOK what each process has loaded or generated by the time it needs it (`Busy`). It holds for any
  number of daemons;
* `DiskInv`: a key of a CA is never there without its certificate, and the certificate on the disk is of a CA
  that is `OnDisk`, with its key;
* `SetupInv`, for each process: a daemon that saves a CA found no key and writes it last; who reads the
  key of a CA has read the certificate that is still there, so that what it signs with matching halves is
  OnDisk; what it then saves, loads or runs with stays OnDisk;
* `DiskMoves` is the step lemma: no step takes a complete CA away. That is CAStable, and it is what every other
  process relies on (`OtherSetup`);
* `TempInv`: no temporary file has the name of a later start, and at the stages before
  writeTempConfig and after a failure the daemon has none.

What concerns the CA has the hypothesis `OneDaemon`, at most one process in `Servers`. That is how a machine
is meant to be used, but nothing enforces it, as TLS is set up before the port is bound; and it is needed: two daemons
that both find no CA each write theirs, and then CAStable and CertsMatchCA fail. What is left for any number of daemons is `KeysMatchCorrect`: nobody runs with the key of another
certificate. `Precedence` goes through Parse, Unmarshal, Merge and ApplyDefaults
for each kind of field. Theorems: `TypeCorrect`, `CertsCorrect`, `UpCorrect`,
`KeysMatchCorrect`, `CACorrect`, `FailedStartCorrect`, `SettingsCorrect`.

**Only model-checked**: all liveness properties, `DialReturns`, `DeadEvicted`, `CloseCompletes`, `StreamsServed`,
`StopCompletes`, `ShutdownTakesEffect`, `CommandsEnd`, `CancelReturns`, `ProducerEnds` and `StartWorks`
(fairness and ENABLED are out of the proof system's reach); and the findings, which are
counterexamples.

## 6. What the code does otherwise than it says

Seen by a run:

1. `mux_dialer.go:104`: the monitor of a connection that ended deletes the entry of
   its successor, and the next call makes a second connection to the address
   (`mux_dialer_stale_monitor`).
2. `mux_listener.go:111` and `:121`: a handler that has looked up its channel may
   send on it after Close closed it, which panics (`mux_listener_panic`).
3. `mux_listener.go:99`: any error of AcceptStream ends the handler, also that of one
   stream reset before its type byte; the connection stays open and unserved
   (`mux_listener_reset`).
4. `control.go:57`: two Shutdown calls are both accepted, and the second
   takes a STOPPED node to DRAINING (`daemon_two_shutdowns`).
5. `serve.go:173`: a graceful shutdown closes the listener with all connections, and lets
   `main` return, before GracefulStop waits for anything (`daemon_drain`).
6. `mcphost.go:186`: Stream releases the mutex before its goroutine prompts, so
   concurrent requests share a conversation (`executor_fresh`).

Met while modelling, without a run of its own:

* `state.go:64`: a task that starts between another's Add(-1) and its
  compare-and-swap leaves READY with a task in progress. Nothing outside the tests calls
  IncrementTasks, so a running daemon always reports READY and 0.
* `control.go:40`: GetStatus reads state, count and metadata one after the other;
  the three may not belong together.
* `control.go:67`: the answer of an accepted Shutdown may be lost with its connection:
  `tndrl shutdown` then says that the request failed, although the daemon goes down.
* `serve.go:174`: the listener is closed before STOPPED is set, so no
  client can ever be told STOPPED, which `docs/design/server.md:90` lists as a state of the node.
* `mux_dialer.go:44`, `:123`: a connection that was evicted while it was open, by a cancelled
  call or by a late monitor, is not closed by MuxDialer.Close.
* `mux.go:81`: a late type byte holds up the later streams of its
  connection, whatever their type; `docs/design/protocol.md:97` says "No
  head-of-line blocking between protocols".
* `serve.go:163`, `:166`: the process may exit before it says STOPPED, and with
  code 1 after a requested shutdown if Serve's error is seen first.
* `serve.go:130`: READY is set before the servers are started, not after. A signal before
  that is handled already: its DRAINING is then followed by READY.
* `ollama.go:199`: a send that does not watch the context leaks the goroutine and
  the response body when the executor has left.
* `mcphost.go:223`, `:231`: after a cancelled context the channel is closed with neither
  Done nor Error, and the executor reports a partial answer as completed, also one that ended in an error.
  ErrorsReported and AnswerExact except it: they speak of clients that still wait.
* `mcphost.go:235`: the last event repeats the whole answer after its pieces, so
  that the final text holds it twice when pieces were sent.
* `mcphost.go`: nobody calls MCPHostProvider.Close; its temporary file stays.
* `ca.go:124`, `cert.go:150`: a key file that was cut off while being written is taken
  for present, and fails every later start.
* `serve.go:241`: the CA is looked for in `--pki-dir` and loaded from
  `--pki-ca-cert`. With a CA elsewhere only, the use that `pkg/pki/README.md:49` shows, a new CA is
  generated and signs the certificate, and the daemon trusts the other one: it comes up
  with a certificate that its peers refuse.
* Two daemons that share a directory can mix two CAs, and a machine to which only
  `ca.crt` was copied gets a CA of its own in its place.
* `cli.go:177`: an explicit zero value counts as none. `--pki-init=false` or `TNDRL_INIT_PKI=false`
  does not override `init: true` of the file, against the documented precedence.
* `cli.go:26`: the file cannot set `logLevel`, since the flag has a default.
* `main.go:20`: the first pass over the arguments does not know `-cFILE`, which kong
  accepts: the file is then silently not read.
* `main.go:47`: a file without a version is accepted, although ValidateConfigVersion has an error for it.
* `cli.go:204`: only `pki.dir` has its `~` expanded, not the four paths beside it.
* `prompt.go:72`: `prompt --stream` prints the text of every event: first the pieces, then the final
  event with the whole answer again.

## 7. What is not modelled

* **Configuration**: ResolvePeer, Identity and AgentCard, which copy values, and the
  spelling of arguments.
* **Client connection** (`client.go`): the A2A connection, which is a second one like the first. The composition with
  MuxDialer and MuxListener is left out: what a command can tell is whether
  its connection has ended, and that is in Commands.
* **Client commands**: ping, discover and prompt. One call each, nothing kept. The request of prompt
  is an action of Executor.
* **stream_conn.go, logging.go, server.go of a2aexec, generated code**: adapters
  and constants.
* **Contents**: texts, certificates beyond who signed whom, TLS options, JSON and
  protobuf encodings, the lines of Ollama's stream.
* **QUIC's stream limits**, and what the A2A library does with events after a
  final one.
* **Data races**: none was found in the parts modelled; their shared variables
  are atomics or under a lock.

## 8. Plan

Done, in this order: NodeState and its proofs, MuxDialer and its proofs,
MuxListener with StreamRouter, Daemon, Executor, PKI; then NodeStatus, Commands
over Daemon, Config and Startup over PKI, and the proofs for NodeStatus and Daemon; then
the proofs for MuxListener, Executor, and PKI with Startup and Config.

Next:

1. Safety facts behind the liveness properties, which a proof can reach: who holds a lock or a
   mutex can go on (MuxListener's `l.mu`, mcphost's), and who waits has someone who will end the wait.
2. PKI with several daemons: which of CertsMatchCA and UpMeansConsistent holds once the CA is complete.
3. Commands: that a command which is told "accepted" has started a shutdown.
4. Daemon composed with NodeState, once the executor counts its tasks.
