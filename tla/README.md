# A TLA+ verification of xsocks

xsocks is a shadowsocks proxy suite in C: `xs-server`, `xs-local` (socks5),
`xs-redir`, `xs-tunnel` and two benchmark programs, all single-threaded around
one event loop. This directory holds TLA+ models of its relay core, its
configuration, its life as a process and its benchmark, TLC configurations for
small instances, and TLAPS proofs for all instances.
Source paths below are relative to `src/src/` of the repository.

Run a configuration with `tlc -config X.cfg M`, where `M` is the MC module of
the table of runs, and check the proofs of a module with `tlapm M.tla`, where
`M` is one of `TcpRelayProof`, `TcpPipeProof`, `SsReceiveProof`,
`Socks5HandshakeProof`, `UdpRelayProof`, `EventLoopProof` (both loops and their
timers), `BenchmarkServerProof` and `ModuleLifecycleProof`.

## 1. Inventory

| Component | Source | State | Operations | Model |
|---|---|---|---|---|
| TCP relay sessions | `app/module/module_tcp.c`, `app/server.c`, `app/local.c`, `app/redir.c`, connection parts of `lib/protocol/tcp.c` | `tcpServer` with its two counters, one `tcpClient` and at most one `tcpRemote` per session, the events, timer and buffers of each `tcpConn` | accept, handshake reads, dial, connect done or failed, pipe in both directions, timeout, close | `TcpRelay` |
| TCP pipe and encrypted writes | `tcpPipe`, `tcpPipeWrite`, `tcpWrite` in `lib/protocol/tcp.c`; `tcpShadowsocksConnWrite` | `rbuf`, `rbuf_off`, `wbuf`, `wbuf_len`, `tmp_buf`, `tmp_buf_off`, the two events | read and write at once; continue a partial write | `TcpPipe`, `ByteStream` |
| Encrypted reads and the address header | `tcpShadowsocksConnRead`, `lib/protocol/socks5.c`, `tcpClientOnRead` and `tcpRemoteOnConnect` of `app/server.c` | connection state, `addrbuf_dest`, `rbuf` | decrypt, parse and rewrite the address, skip it, hand on what is left | `SsReceive` |
| Socks5 server side | `lib/protocol/tcp_socks5.c`, `app/local.c` | connection state, `addrbuf_dest` | greeting, request, replies, ACL decision, start of the connect | `Socks5Handshake` |
| UDP relay | `app/module/module_udp.c`, `lib/protocol/udp*.c`, `app/server.c`, `app/tunnel.c` | a `udpClient` and a `udpRemote` per datagram, `remote_count`, the server connection's one `addrbuf_dest` | forward, answer, failures, timeout | `UdpRelay` |
| Event loop, I/O events | `lib/event/event.c`, `event_libev.h`, `event_ae.h` | `e->el`, libev's active and pending watchers, ae's `fe->mask` and `fe->clientData` | add, delete, free, poll, dispatch | `EventLoop` |
| Event loop, timers | the same, with `tcpRead` of `lib/protocol/tcp.c` | the due time of a watcher | add, delete, fire | `EventTimer` |
| Benchmark client | `app/benchmark_client.c` | clients, `requests_issued`, `requests_finished`, `liveclients`, `duration_list` | connect, send a piece, take an echo, finish or replace a client, abort | `BenchmarkClient` |
| Benchmark server | `app/benchmark_server.c` | one `tcpConn` per client, piped into itself, `client_count` | accept, echo, continue a short write, close, timeout | `BenchmarkServer` |
| Configuration | `lib/core/config.c` | `xsocksConfig` | defaults, JSON entries with their types, options, precedence | `Config` |
| Module lifecycle and signals | `app/module/module.c`, the hooks of the four programs, `xs_daemonize`, the signal parts of both loops | the step of `moduleMain`, pid file, handlers, stop flag, listeners | configure, fork, pid file, handlers, listen, loop, exit; signals and crashes | `ModuleLifecycle` |
| Raw connections, network helpers, logging and utilities, vendored libraries | `lib/protocol/raw.c`, `lib/core/net.c`, the rest of `lib/core`, `deps/*` | | | not modelled, see section 8 |

**How they interact.** Everything happens in callbacks of the event loop.
`tcpConn` registers a read, a write and a timer event; a handler may add and
delete events and free connections, its own included, while other events of the
same poll wait. `tcpPipe(src, dst)` runs on the source's read event and, when
the destination does not take everything, trades that event for the
destination's write event, which `tcpPipeWrite` trades back. The shadowsocks
connection puts its ciphertext in a buffer of its own between the two. The
session layer (`module_tcp.c`) owns both connections, moves the timeout from
the client to the remote when it dials, and frees both on the first close.

**What is hard.** There are no threads, but: sockets take and give any number
of bytes; callbacks of several sessions interleave; a callback frees the
objects other code of the same call chain still uses; error paths run in
constructors whose caller cleans up as well; two loops with different
semantics stand behind one interface; the encrypted length of data differs from
its plain length; a service is killed, crashes or is started a second time
between any two steps of its start and its exit, all of which share one pid file
and one port. `PROJECT.json` lists these as hazards, at their lines.

**What makes each component correct.**

- Relay: counters equal numbers of objects; a remote exists exactly while its
  client points to it; no event of a freed connection; nothing read over
  unsent bytes; an open relay always waits for something; exactly one timer;
  every set-up ends.
- Pipe: what comes out is what went in, in order, complete at the end of the
  stream; no stall; delivery.
- Receive and socks5: the destination gets exactly the data behind the
  address; a client is refused for a cause only; ACL decisions are kept.
- UDP: the same soundness of objects, the counter, the label of answers, and
  the end of every request.
- Event loop: what is polled is what was added; no freed event; handlers run only for what is
  ready now. Timers: a timeout is a silence of that length.
- Benchmark: it stops once its connects are answered, finishes all requests, and stays inside its lists; the
  echo loses no byte, and the server forgets no client.
- Configuration: the last option wins over the last entry of the file, which
  wins over the default, key by key.
- Lifecycle: a wrong command line forks nothing, and touches neither the pid file
  nor the ports (the log file is another matter: `testLogfile` creates it while the
  options are still being read); the pid file names a daemon
  that has not left; a process in its loop serves something; a signal stops it.

## 2. Modules

An action is a whole callback: a call the code makes inside it belongs to it.
The map in `PROJECT.json` gives the lines of every definition. Definitions
introduced by "Defect:" are plausible errors of the code; each is used to show
that a property fails when the definition after it is replaced by it.

- **`TcpRelay`** has a slot per session. `cconn` and `rconn` are the two
  `tcpConn`s as records: registered events (`re`, `we`, `te`), whether a
  timeout is set, `TCP_FLAG_PIPE`, whether `rbuf` holds bytes the peer has not
  taken, and the state of `wbuf`. `program` selects `server.c`, `local.c` or
  `redir.c`. `Accept` and `AcceptRedir` are `tcpServerOnAccept` with everything
  it calls; `ServerRequest`, `LocalHandshake`, `LocalReplyShort` and
  `LocalRequest` the client's first reads; `SetupFails` the error returns;
  `Connected`, `ConnectFails` and `LeftoverFails` the remote's connect
  handler; the `Pipe` actions `tcpPipe` and `tcpPipeWrite`; `Timeout` the timer.
  `fault` records accesses to freed objects and NULL that the error paths make;
  where such an access may end the process, `up` becomes false or not. It also
  records the two faults of an established relay whose destination encrypts:
  `PipeAssert`, a full read buffer that is one byte more than an AEAD chunk, and
  `PipeWriteNegative`, the memcpy of a negative `wbuf_len` (`wbuf` "over").
- **`TcpPipe`** follows one direction with the contents of its buffers. A byte
  of the stream is its position in it. Of what encryption adds only the length
  is kept: `tmp` is that length (`over`, in front) and the data behind it. `dst`
  says what a destination adds and so makes it a raw, a stream-cipher or an AEAD
  one. Every split of reads and writes is explored. `Plain` says that no encryption adds bytes to the data.
- **`ByteStream`** is the abstract specification: bytes are sent and delivered
  in order, at most once, and never before they were sent. A `lossless` stream
  delivers a prefix of what was sent and ends complete; any other may leave bytes
  out. The refinement mapping takes `Plain` for `lossless`: this is exactly how
  much of the promise survives `tcpPipe`'s comparison of plain and encrypted lengths.
- **`SsReceive`** is the server's receiving side. A chunk arrives in two parts,
  with reads between them or not: `whole` is the plaintext that can be decrypted,
  `part` that of the chunk which is not there completely. `socks5AddrInit` is modelled by the length of what it writes, which
  depends on the form of the host's text. `AddressRefused` is an address that
  cannot be parsed, that the ACL blocks or that cannot be dialled; `ConnectFails`
  and `LeftoverFails` are the ends of a session in `tcpRemoteOnConnect`, the latter
  after any part of the left data has gone out; `Cut` is every other close.
- **`Socks5Handshake`** is one client of `xs-local` over a segmented stream.
  `acl` is any combination of verdicts; `isBypass` decides from it. A message that
  is refused has been read all the same.
- **`UdpRelay`** has a slot per datagram in flight and the single address header
  of the server's connection. An answer is whatever arrives on the request's
  socket: `udpRemoteOnRead` does not look at who sent it, so the model keeps the
  address the request named (`asked`), not a sender.
- **`EventLoop`** has descriptors, which are used again after a close, and both
  APIs. `el` is what `e->el` says, `polled` what the loop was told:
  `eventAddFails` sets the one without the other (ae only; `ev_io_start` returns no
  error). Between `Poll` and the last handler any handler may add, delete, close
  and open. `RunLibev` and `RunAe` model the vendored dispatch as the code uses
  it.
- **`EventTimer`** is one connection's timer, in clock ticks. **`EventApi`** is
  what it shares with `EventLoop`: which of the two loops is built in.
- **`BenchmarkClient`** has a slot per parallel client; `Overhead` is what AEAD
  adds to a piece, which may go out in part like any other write. `ConnectTimeout`
  is not bounded by the number of faults: the code replaces a client whose connect
  timed out as often as it takes. The operators describe the client alone.
- **`BenchmarkServer`** composes it with the server: each of the client's steps
  is joined with what it does to the connection, and the server's handlers run
  in between. `up`, `held` and `down` are the bytes on the way there, in the
  server's buffer, and on the way back; `held > 0` trades the read event for the
  write event of the same connection. Connections whose client has gone are
  counted apart (`leftQueue`, `leftOpen`) until the server notices.
- **`Config`** has no state. `configParse` maps a command line (a sequence of
  options) and a file (a sequence of typed entries) to a configuration or a way
  to end; the loops of the code are recursive functions over the position.
  `TextMeant` and `NumMeant` define the same result without loops.
  `CommandLine` and `JsonFile` say what the shell and the JSON parser hand over:
  strings that are never NULL, numbers that have a numeral. `Number` gives the
  numeral a text begins with (`atoi("30s")` is 30), and `ToInt` keeps the lower half
  of a JSON integer, which has 64 bits, where the code stores it in an int.
- **`ModuleLifecycle`** has one process per start of a service. `pc` is the step
  of `moduleMain` the process is about to take; `Startup` is the order of
  `moduleInit` and `moduleRun`. `createPidFile` is two steps, because the file is
  emptied by `fopen` and written by `fclose`, and another process may unlink it
  in between (`linked`). The write may fail without being noticed: the start goes
  on, and the file stays empty. A fork that fails ends the start. `sig` is the state of the handlers: with ae sigaction and the
  entry the handler reads are two steps. `CheckStop` and `EnterPoll` separate
  aeMain's test of `stop` from its wait. `Crash` may happen before any step.
  A scenario (`sc`) is a program, a loop, a command line and a file.

`TcpRelay` abstracts the buffers that `TcpPipe` models exactly: `rbuf` "held" and
`wbuf` "unsent" are non-empty `rbuf` and `wlen # 0` of `TcpPipe`. It abstracts
the reads of `SsReceive` and `Socks5Handshake` to their outcomes. `EventLoop`
justifies that the other modules take a registered event to be one whose handler
may run: on libev that is `RunsTheReady`; on ae it is not always so
(`RunsTheAdded`, `AddedArePolled`). Safety properties are not affected, because a
handler need not run; what it means for liveness is in section 5.

## 3. Runs

Passing runs:

| Run | Module | Checks | Distinct states |
|---|---|---|---|
| Relay | MCTcpRelay | counts, links, events, buffers, stalls, timer, and the end of every set-up, in `xs-server`, `xs-local` and `xs-redir` with three sessions; freed memory is used only by a session that is being set up | 119936 |
| Pipe | MCTcpPipe | raw, stream-cipher and AEAD destinations: the pipe never waits for nothing, implements `ByteStream` (lossless where nothing is added), and then `wbuf_len` is what is still owed and, on libev, everything is delivered | 25476 |
| Receive | MCSsReceive | the data behind the address arrives in order, wherever the session ends, and on an open session all of it | 2528 |
| Socks | MCSocks5Handshake | data, refusals, bypass, relaying, for all ACL verdicts | 11664 |
| Udp | MCUdpRelay | objects, count, label of the latest answer, end of requests, in `xs-server` and `xs-tunnel` | 7066 |
| Loop | MCEventLoop | both loops poll only what counts as added, libev all of it, and never use a freed event; libev runs only the handlers of what is ready | 98509 |
| Timer | MCEventTimer | both loops end a silence in time; ae never earlier | 864 |
| Bench | MCBenchmarkServer | client and server together, kept alive or reconnecting, with short writes, broken connections and timeouts: lists, both counts, conservation of bytes; unless connects time out for ever, the end, and without faults all requests finish | 221312 |
| Life | MCModuleLifecycle | 3190 command lines and files of one start; then two overlapping starts of each program on each loop with two signals, failing forks and writes and any crashes: precedence, no trace of a refused start, pid file, listeners, shutdown | 276087 |

The program (`program`), the loop (`api`), the kind of destination (`dst`),
`keepalive` and the scenario (`sc`) are chosen in the initial state and never change, so one run covers
all of them. Each run's configuration keeps the invariants about the code only;
`TypeOK` (`TimerTypeOK` of the timer) is an invariant of every module and may be added to any of them.

Three runs end in a counterexample, where the code disagrees with its comments
or documents:

| Run | Property | What happens |
|---|---|---|
| PipeLoses | `WriteDoneIsDone` | `tcpPipe` compares ciphertext written with plaintext read; a partial write of exactly that length counts as "Write done" and the rest of the chunk stays in `tmp_buf`. It takes an AEAD method, or the first data that goes back to a client with a stream cipher, whose IV is sent with it |
| ReceiveSplit | `SplitTolerated` | a chunk that TCP splits closes the session |
| TimerEarly | `TimeoutIsSilence` | on libev deleting and adding a timer keeps the time left; an active connection is closed at a fixed age |

Further statements that a reader might expect are defined and do not hold; TLC
shows it when they are added to a configuration:

| Statement | Configuration | What happens |
|---|---|---|
| `WriteLengthNotNegative` | Pipe | `tcpPipeWrite` subtracts ciphertext from a plaintext count, below zero, past the test `wbuf_len == 0`; the next write ends in a memcpy of that size, in an established relay too (`PipeWriteNegative`) |
| `ChunkFits` | Pipe | a full buffer of 16384 bytes exceeds the largest chunk, 16383, which the cipher asserts |
| `NothingLost` | Receive with `Addresses <- DottedDomain` | a domain of digits and dots is rewritten as IPv4, and "Rewind rbuffer" skips the wrong length |
| `FreesWhatWasSet` | Socks | a connection closed before its request frees an unassigned `addrbuf_dest` |
| `RemoteCountExact` | Udp | after a failed resolve a remote is freed twice and counted out without having been counted in |
| `AddedArePolled` | Loop | on ae an add that fails ("Add Event error") leaves `e->el` set: the event counts as added, is not polled, and later adds of it do nothing |
| `RunsTheAdded` | Loop | on ae a descriptor's two events share one `clientData`, and the handler of a deleted event runs |
| `AlwaysStops` | Bench | a client whose connect times out is replaced without limit, so that `liveclients` never becomes 0 and nothing aborts the program |
| `AllFinish` | Bench with `Overhead = 1`, `MaxFaults = 0` | with AEAD the echo of a piece never equals what was counted as written; the benchmark is aborted |
| `EverySignalStops` | Life | `aeMain` starts with `stop = 0` and so forgets a signal that came before it; one between its test of `stop` and its poll takes effect only after the next traffic |
| `NamedWhileRunning` | Life | a start writes the pid file before it knows whether it can listen, and an exit closes the port before it unlinks the file: either way an overlapping start's file is lost or replaced |

`LatestAnswerLabelled`, `CountExactUntilFault`, `DataRelayed` and `SignalStops` hold
up to a limit that their comments name, and the hazards beyond it (an answer to an
older UDP request, a failed resolve, a destination that speaks first, a signal
outside ae's wait) have no property: the code does not handle them.

Two smaller differences met in reading, which no property is about: the usage
text says "Log level (default info)" (`app/module/module.c:192`), the default is
notice; and the log line for an unknown mode says "use tcp_only as fallback"
(`lib/core/config.c:242`), while the mode that was set before stays.

## 4. Bounds

- Relay: three sessions. They share only the counters, the process and the
  freed slots, so three show every interplay that counts; the proofs cover all
  numbers.
- Pipe: a buffer of 3 bytes, streams of 7. A buffer is filled partly and
  wholly, written in up to three parts, and at least two full buffers follow each
  other. Overheads of 1 or 2 give ciphertext lengths below, at and above the
  plaintext lengths of other reads. The largest AEAD chunk is one byte smaller
  than the buffer, as in the code.
- Receive: four plain addresses of different lengths, 5 data bytes in chunks
  of up to 3, so that data comes with the address, while connecting and after.
- Socks5: messages of 2 bytes (complete or split) and 3 data bytes; all ACL
  verdicts.
- UDP: two requests at a time, two clients, two destinations: an answer may
  meet another request's header. `MaxDrift` bounds how far the count falls.
- Loop: two descriptors with two events each: one handler acting on its own
  and on another's events, and reuse.
- Timer: a timeout of 12 ticks and a clock of 30, more than two timeouts.
- Benchmark: two clients that race for two requests of a buffer and a half (3
  bytes, buffers of 2), so that an echo comes in parts and the last request has
  two takers; two faults, one on each side or two in a row. Connects may time out
  any number of times. To keep the run small they do so only while at most
  `MaxIssued` requests were issued (all there are; after that a new client finds
  nothing left to do) and at most `MaxLeft` connections are left behind that the
  server has not noticed yet.
- Lifecycle: two starts, which is what an overlap needs, in every interleaving;
  two signals, so that the second meets the way out of the first. Command lines
  of up to three options, of every kind; files of up to three entries that are
  repeated, overridden, converted, ignored or refused. `IntSpan` is 2^16 in place of
  2^32, which TLC's integers would not hold; one file has numbers beyond it.

`CHECK_DEADLOCK FALSE` stands where the system may stop: a process that has
ended, a connection that is closed, a clock at its horizon, a peer that has
nothing more to send.

## 5. Fairness

- `TcpPipe`: weak fairness of `tcpPipe` and `tcpPipeWrite`, on libev: every event
  has a watcher of its own, and the loop runs the handler of a registered event
  whose socket stays ready. The destination's peer is assumed to go on reading.
  Sending and closing are never forced. On ae this is not given. A descriptor has
  one `clientData`; when the other direction of the relay has added the write event
  of the source's connection and deleted it again, `clientData` stays that event, a
  readable source runs `tcpConnWriteHandler`, and `tcpPipe` is not called.
- `SsReceive`, `Socks5Handshake`: the loop serves readable sockets, again on libev
  only; the rest of a chunk that was sent arrives; a connect ends in one way or
  another, at the latest by its timer. That it succeeds is not assumed.
- `TcpRelay`: weak fairness of a timer that expires before the remote is
  connected. At most three reads restart it (none on libev), so it does expire, on
  either loop. No fairness of the peers: `SetupEnds` rests on the timeout alone, with
  `TimeoutOn`.
- `UdpRelay`: weak fairness of a request's timer, which no read restarts, on either
  loop.
- `BenchmarkServer`: the loop serves every connection that is ready and every
  timer that is due, and the periodic report runs. This holds on ae as well: of a
  connection's two events only one is added at a time, and adding it sets
  `clientData`. Faults are never forced. A connect succeeds or times out, which is up
  to the network; `Stops`, `AllFinish` and `ServerDrains` have the premise
  `ConnectsAnswered`, that connects do not time out for ever. Without it they do not
  hold (`AlwaysStops`).
- `ModuleLifecycle`: the kernel runs a process that is not waiting (`Step`).
  Traffic, signals and crashes are never forced, so a process in its poll may
  stay there.

## 6. Proofs

**`TcpRelayProof`** (for any finite set of sessions, in each program, with
or without a timeout: `RelayAssumption`). The properties are not inductive on their
own: whether a freed session leaves an event behind depends on where the
session was. `RelayInv` says that each session is in one of four phases and
what its connections look like there:

- `Idle`: nothing exists;
- `Greeting`: a client that is read from, with its timer, and no remote;
- `Dialling`: a client without events, a remote that waits to be writable;
- `Relaying`: both directions satisfy `Direction`: the source reads into an
  empty buffer, or the destination has its bytes to write; the remote has the
  timer.

One lemma per action shows that a step keeps or changes the phase of its session
and no other (`OneSession`, `PhaseFrame`). `LinksSound`, `NoEventAfterClose`,
`NoOverwrite`, `RelayMoves`, `ConnectIsQuiet`, `OneTimerArmed` and the action
property `FreedInSetup` follow from the phases: an established relay frees both
sides in one place and returns. (It may end by an assertion or a negative length;
those faults touch no freed memory, and the property does not exclude them.) `CountsAreExact` adds the
counters: the sets of live clients and of remotes are finite, and each action
adds or removes one element and adjusts the counter by one. `TypeCorrect`
follows, counters that are natural numbers included.

**`TcpPipeProof`** (any buffer size, any length of the stream, any overhead of
the destinations: `PipeAssumption`). `NoStall` and the refinement need to know
where each byte is between two steps. `PipeInv` has, beside the type:

- `Ordered(out)`: what is out ascends; with `Plain` it is `Whole`, without a gap;
- `Buffers`: an open pipe has exactly one of its two events; `rbuf` holds the
  bytes read last; a read event means empty buffers and a write event
  `wbuf + wlen = Len(rbuf)`. `NoStall` follows from this part alone;
- `Pending`: what `tmp_buf` still holds comes behind everything that is out;
- `Rest`: so does what `rbuf` has not given away yet. Either `tmp_buf` reaches to
  the end of `rbuf`, or it is left over from an earlier read, which is what the
  comparison of plain and encrypted lengths can leave behind;
- `Exact`: with `Plain` everything read is out but for `wlen` bytes, from which
  `PipeOwesWhatIsLeft` follows.

`PipeImplementsByteStream` then maps each step to one of `ByteStream` or to a
stutter (`DeliverStep`, `FinishStep`, `StreamStep`): a write delivers a later
stretch of the stream, with `Plain` the next one, and a pipe that ends with
`Plain` has delivered all.

**`SsReceiveProof`** (any addresses, any amount of data, any chunks, split in any
way: `ReceiveAssumption`). `NothingLost` speaks of the time after the address was
read, and of a session's end wherever it comes. `ReceiveInv` adds `BeforeAddress`: the first chunk, which has the
address, is on its way or has arrived whole, so that the first plaintext that is
read is at least as long as the address; and that `rbuf` is empty unless a
connect is going on, so that a later read never overtakes it. The theorem has the
hypothesis `PlainForm`, that the text of every host has the form its type says.
It is needed: without it `NothingLost` does not hold (section 3).

**`EventLoopProof`** (any set of descriptors, either loop, no assumption).
`LoopInv` joins the type, `PollsTheAdded`, `NoFreedEvent` and `PendingSound`:
with libev an event that waits for its handler is added and ready.
From it `LibevRunsTheReady` follows; its counterpart for ae does not hold
(`RunsTheAdded`).

The same module has the proofs about `EventTimer`, which shares `api` with it (any timeout, any horizon: `TimerAssumption`). `TimerInv` relates the due time to
the last read: at most a timeout later on either loop, exactly a timeout later on
ae. `SilenceAlwaysEnds` and `AeTimesOutSilence` follow.

**`Socks5HandshakeProof`** (any lengths of greeting, request and data, any ACL
verdicts: `HandshakeAssumption`). `OutIsData` is not inductive: where a byte
belongs depends on how much was read when. `Places` ties the bytes sent and read
to the state: nothing read in "init", the greeting in "handshake", both messages
from "stream" on, and what has gone out is as long as what was read behind them. With
it `OutIsData`, `RefusedForSplit` and `ProxiedStaysProxied`
follow for every segmentation of the stream.

**`UdpRelayProof`** (any finite set of requests, any clients and destinations,
with or without a timeout: `UdpAssumption`). `UdpInv` joins `RequestSound` with
`LatestHeld`: while the latest datagram's remote waits, the server connection
holds its address. The action property `LatestAnswerLabelled` needs the latter;
`CountExactUntilFault` is a cardinality argument over `RequestSound`.

**`BenchmarkServerProof`** (any finite set of clients, any number and size of
requests, any buffers: `BenchAssumption`). `BenchInv` joins, of the client,
`LiveExact`, `MidRequest` (the buffer of a client in a request is not full yet,
and one that waits for its echo has written something) and `IssuedFirst`:
requests finished and requests under way together are at most the requests
issued, and at most those asked for, although more may be issued; so
`duration_list` is never overrun (`DurationsAlwaysFit`). Of the server it has
`EchoSlots`: it reads only when it holds nothing, and a slot without a client has
nothing on the way. With it `EchoIsConserved` follows: what a client has written
and not got back is on its way there, held, or on its way back. The counters are
cardinality arguments over finite sets of clients.

**`ModuleLifecycleProof`** (any number of starts, any scenarios, signals and
crashes: `LifeAssumption`). `LifeInv` has four parts beside the type. `Serving`:
a process has a listener from "run" to hook.exit. `PidKept`: a start whose pid is in the file
has a pid file configured, is past `createPidFile` and not past `unlink`, and will
not fork any more; this is what keeps another start's write, and a clean exit
without the option, from leaving a wrong id. `Solo`: as long as no start began
beside a living one, at most one is alive, the file it opened is still at the
path, and from "handlers" on the file names it, or is empty if the write failed. `PidFileSound`, `NamedWhenAlone` and
`ServesSomething` follow. `Configured`: a start that is past its configuration, or
that has forked, has opened the pid file, has its id in it or has a listener, has the configuration that
`configParse` makes of the command line and the file, and an acceptable one;
`RefusalLeavesNoTrace` follows.

`LastOptionWins` says what the loops of `configParse` compute for every command line
and every file: the last option for a key, else the last entry of the file for it,
else the default. The loops are recursive functions over the position
(`LoopExists` shows that such a function exists), and the induction over it is the
principle of the least number: if some position had a wrong value there would be
a first one (`LeastNumber`, `Induction`). Each loop has its lemma for text and for
numbers (`TextGathered`, `NumGathered`, `TextLoads`, `NumLoads`), which
`OptionsMean`, `FileMeans` and `ParseMeans` put together. The assumptions on the
input are `CommandLine` and `JsonFile` and that no numeral is the name of a mode
(`ConfigAssumption`).

**Only model-checked.** Every liveness property (`SetupEnds`, `Delivery`,
`DataArrives`, `DataRelayed`, `RequestEnds`, `Stops`, `AllFinish`, `ServerDrains`,
`SignalStops`), because the proof system does not handle fairness. Every safety
property that a passing run checks is a theorem.

## 7. Plan

Done: the modules above, in the order pipe, relay, UDP, receive, socks5, loop,
timer, benchmark client, configuration, lifecycle, benchmark server, and the
proofs of relay, loop, timer, socks5, UDP, lifecycle, pipe, benchmark,
configuration and receive.

Next, to prove: type correctness as a theorem of its own where it is only part of an
inductive invariant, and a weaker `NothingLost` without `PlainForm` (what is out
is a stretch of the stream, wherever it begins).

Worth modelling later: a session's pipe dispatched by ae's shared `clientData`
(`EventLoop` with `TcpRelay`), and `xs-local` and `xs-server` end to end as one
`ByteStream`.

## 8. Not modelled

- Out-of-memory returns of allocators, the contents of log messages, the crash
  handler, and the text of addresses beyond their form.
- Authentication failures and replay detection in the vendored ciphers: they
  end in the same close as the read errors that are modelled.
- Lifecycle: the contents of usage and version output, syslog, and what a second
  thread would do (there is none). Of the benchmark programs the option parsing
  is left out; their configuration is `keepalive` and the constants.
- Configuration: JSON syntax (a file parses or does not) and the splitting of
  `tunnel_address` at its colon.
- Raw connections add constructors only; `tcpRead` and `tcpWrite`, which they
  use, are part of `TcpPipe` and `TcpRelay`.
- Network helpers are wrappers of system calls, whose outcomes are choices in
  the actions that call them.
- redis `ae`, libev, libsodium and the shadowsocks-libev ciphers and ACL are not
  part of the program; the modules model what the program uses of them.
