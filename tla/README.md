# Verification of lklsocks

lklsocks is a SOCKS4 proxy whose outgoing connections go through the Linux Kernel
Library (LKL), a Linux kernel linked into the process. This directory holds TLA+
specifications of it, configurations that check small instances with TLC, and proofs
for every instance that the TLA+ proof system checks. Paths below are relative to
`src/src/` of the repository.

## Inventory

| Component | State | Operations | Interacts with |
|---|---|---|---|
| Server (`SocksServer.c++`, `lklsocks.c++`) | list of `shared_ptr<SocksConnection>`, acceptor, queue of the io_service | `startAccept`, `handleAccept`, the posted start, `stopConnection` and its posted handler, signal handler, `~SocksServer`, `halt_lkl`, `~io_service` | connections, by shared references and posted handlers |
| Connection (`SocksConnection.c++`) | host socket, remote socket, two `std::thread`s | `start`, `handshake`, `receiveHost`, `receiveRemote`, destructor | server (`stopConnection`), both socket libraries |
| LKL socket service (`asio/detail/*`) | per object: descriptor number, state flags | open, assign, move, bind, listen, modes, options, names, queries, recv, send, datagrams, connect, accept, close, destroy; the start and the attempts of asynchronous operations | LKL calls |
| LKL wrappers (`lkl_decl.c`) | `errno` | one wrapper per call, `lkl_set_errno` | LKL |
| LKL boot (`lkl_helper.c`) | the steps done, what was printed | `init_lkl`, `halt_lkl` | LKL, main |
| Service templates (`asio/stream_socket_service.hpp`, `asio/ip/tcp.hpp`) | none | forwarding | socket service |
| Configuration (`parse_config`) | a map filled at start | none later | main |

**Threads.** The main thread runs the io_service and every handler. Each connection has a
host thread (`handshake`, then `receiveHost`) and a remote thread (`receiveRemote`). The
threads work on a raw `this`; what keeps the object there is that its destructor joins
them. They make blocking calls, and only the destructor's `shutdown` and `close` wake them.

**What is hard.** Who drops the last reference and so runs the destructor; threads blocked
while another thread closes their socket; descriptor numbers reused between fetching and
using them; two stop requests for one connection; shutdown with handlers still queued and
handshakes still blocked; a socket opened behind the destructor's back; retries after
would_block; errors that are reported as success. The list with source lines is in
`PROJECT.json` under "hazards".

**What makes each component correct.**
- Server: every accepted connection is listed before its threads start, a requested stop is
  carried through and never lost, a signal ends the process.
- Connection: an object lives exactly as long as it is referenced; it is destroyed on the
  main thread; its storage is not freed under a thread; no thread uses a client's socket
  that is not its own.
- The data: what one peer sends reaches the other once, in order, after the reply; what a
  peer sent before it ended is delivered.
- Socket service: every open descriptor belongs to exactly one object; flags and kernel
  agree on the mode; a call takes effect once and never tells end of file, success or
  would_block wrongly; it ends when what it waits for has happened.
- Wrappers: an error told is that of the call, not one left in `errno`.
- Boot: a server without its network has said so.

## Modules

| Module | Content |
|---|---|
| `ConnectionRefs` | constants, shared state, and where references to a connection are held |
| `SocksConnection` | handshake, relay loops, `stopConnection` as the threads call it, destructor |
| `SocksServer` | main thread: handlers, signal, shutdown; composes the connections; `Spec`, `FairSpec` |
| `ServerProperties` | type invariant, safety and liveness properties |
| `ServerInvariant` | the inductive invariant `IInv`, in named parts, and `DescriptorInv`, which rests on it |
| `ConnectionLife` | abstract: the life of a connection, without references, queue or sockets |
| `ServerRefinement` | `SocksServer` implements `ConnectionLife` |
| `SocksServerProofs` | proofs: types, `IInv` and the properties that follow from it |
| `ServerDescriptorProofs` | proofs about the descriptor numbers of the connections |
| `ServerRefinementProofs` | proof that `SocksServer` implements `ConnectionLife` |
| `MCSocksServer` | symmetry for TLC |
| `RelayStreams` | the data of one connection, from the SOCKS4 request to the last byte |
| `RelayProperties`, `MCRelayStreams` | its properties and their TLC instance |
| `RelayInvariant`, `RelayProofs` | its inductive invariant `RelayInv`, and the proofs |
| `LklKernel` | LKL's sockets as the socket service uses them (external code) |
| `SocketOps` | the socket service: one action per system call of a waiting call |
| `BlockingSockets` | abstract: what the user of `stream_socket_service` sees |
| `SocketProperties`, `MCSocketOps` | properties of the socket service, the refinement of `BlockingSockets`, and the TLC instance |
| `SocketInvariant`, `SocketProofs` | its inductive invariant `SocketInv`, and the proofs |
| `SocketRefinementProofs` | proof that `SocketOps` implements `BlockingSockets` |
| `ReactorOps` | extends `SocketOps`: datagrams, `receive_with_flags`, `null_buffers`, the start of asynchronous operations, `non_blocking_*` |
| `ReactorProperties`, `MCReactorOps` | its properties and their TLC instance |
| `ReactorInvariant`, `ReactorProofs` | its inductive invariant `ReactorInv`, and the proofs |
| `LklCalls` | the calls that never wait, and `errno` |
| `LklBoot` | `parse_config`, `init_lkl`, `main` around the server |
| `LklProgram` | composes the two: calls are made while the program serves; their properties |
| `LklProgramProofs` | proofs about `LklProgram` |

### How the state corresponds to the code

`connections` is `SocksServer::connections` (its order does not matter to `remove`),
`acceptor` the connection the pending `async_accept` fills, `queue` the io_service's ready
handlers in FIFO order. `main` is where `main()` is: `run` (inside `io_service::run()`),
`sleep` (in the stop handler), `clear` (`~SocksServer`), `halt` (`halt_lkl`), `drain`
(`~io_service`). `life[c]` is free storage, alive, or the step of the destructor; `sock`,
`thread` and `pc` are the sockets, the `joinable()` of the threads and their places in the
code; `fd` is the number a blocked call was given. `fate` says how the process ended:
`exited`, or an uncaught exception or `std::terminate` (`threadLimit`, `badWeakPtr`,
`joinableThread`), or `danglingServer`, a call through the reference to the destroyed
server, after which nothing can be said and the behaviour stops.

A relay read or write is two steps, because the object gives its descriptor number first
and the system call uses it later. "reading" and "writing" stand both for a call not yet
made and for one that blocks; this allows more behaviours than the code has, never fewer.
In the handshake the two are one step, and so are `lkl_close()` and the `construct()` after
it (`CloseSocket`; `SocketOps` has them apart). A thread that fetches the number between the
two gets the one just given up, as if it had fetched it just before the close, which the
model has: the `shutdown` before that close has already ended what it could have waited for.
The destructor's mutex is left out: no other function takes it. The temporary `shared_ptr` of `stopConnection(shared_from_this())` lives
from `Post` to `Release`; the drop of the last reference and the start of the destructor
are one step, on whichever thread does it.

Faulty variants of some actions stand beside them, marked as such. They are used by no
specification; they are there to confirm that each property notices the mistake they make.

In `SocketOps`, `impl[o]` is `impl.socket_` and `impl.state_`. A waiting call copies the
descriptor and the flag `user_set_non_blocking`, as the code passes them by value, and takes
one step per system call. Data is counted in units (`inbox`); room in the send buffer is
open at each call. A failed call whose error number `lkl_set_errno()` does not know leaves
`errno` at 0: its result is "silent" in the model, and success for the program. A change
of mode or option that is refused, by the service or by LKL, changes nothing and is no step.
Operations that change one object do not overlap on it (Asio's rule for its users);
recv, send and the setting of modes do overlap with recv and send. `ReactorOps` adds
actions and no state: an asynchronous operation leaves the internal non-blocking mode
behind and goes to Boost's reactor, which does not know the descriptor, since its
registration is commented out (`reactive_socket_service_base.ipp:157`); an attempt of one
is one action, and "again" is its wish to wait once more. `NonBlockingConnect` polls and
asks for `SO_ERROR` in one action, since nothing but the network acts on a pending attempt in
between; its guard on the link is that there is such an attempt. Its poll, which does not
wait, is assumed not to fail: the code would take that for readiness.

In `RelayStreams` a unit is some bytes that travel together. `script` is what a peer wants
to send, `in` what arrived, `hand` the buffer of a relay thread, `got` what was written to
a peer. Reads of the loops take up to `MaxRead` units (1500 bytes), writes any part of the
buffer. `read_until` with `"\0"` searches for the empty string, so it is one read
(`ReadUserId`) of up to `MaxFirst` units (512 bytes), whatever of the user id it brings; the
history variable `whole` says whether the end was among it. A connect that fails with an
unknown error number is answered with success, and the remote loop then finds an error, or
the end of a connection that never stood (`Connect`, `Read`). A read or write that fails so
tells 0 bytes and is repeated: that loop changes nothing and is no step. A stop closes the
sockets at any later time (`SocksServer` has the way from one to the other).

In `LklCalls`, `errno` is that of one thread, which also runs other code (`HostCode`), and
LKL's host layer while a call is made (`Left`). What that layer leaves is told only with an
error number the table does not know, where `ErrorIsOwn` allows it.
`last` is the last result: the number `n` the call returned, its `error_code`, LKL's own
answer. Each number of the table of `lkl_set_errno()` has the same name on both sides, so
the table is the set of numbers it knows. `LklBoot` follows `main()` with the outcome of
each step; what a call of LKL does without a kernel is left open between failing and
ending the process.

### The two refinements

`ImplementsConnectionLife` reads the stage of a connection off its storage, the references
to it and the queue (`StageOf`), and its threads off their places. It says in one
specification what the safety properties say piece by piece: only a stop asked for by a
thread of the connection, or the end of the server, takes a served connection down; its
storage is free only after both threads; none is started after the end has begun. Run
`safety` checks it with prompt release; the proof does not need that.

`ImplementsBlockingSockets` hides modes, linger, polling and second attempts: `holds[o]` is
the descriptor of an object until `lkl_close` has freed it (`Held`), and a call is its name,
its descriptor and its result (`Seen`). Between `lkl_close` and `construct()` the object
still shows a number that is free (`reactive_socket_service_base.ipp:119`), and a transfer
another thread begins then works on whatever gets that number next. The abstract
specification says so (`Takes`): a transfer begun while its object is being closed may take
the descriptor that is given up. Everything else is promised to any number of threads.

## Runs

| Run | Instance | Shows |
|---|---|---|
| `safety` | 2 connections, 2 descriptors, signal, prompt release | eleven invariants of server and connections, and `ConnectionLife` |
| `delayed` | the same, release may be late | `IInv` and `DescriptorInv` in the larger of the two settings |
| `stop` | 2 connections, 2 descriptors, no signal, fairness | a requested stop frees the connection |
| `shutdown` | 2 connections, 1 descriptor, signal, fairness | a signal ends the process |
| `early` | late release, no signal | violated: a connection thread destroys its own connection |
| `handshake` | prompt release, signal | violated: `bad_weak_ptr` escapes `handshake()` |
| `calls` | 2 objects, 2 descriptors, 1 thread, streams | no descriptor lost, modes and truthful results of the socket service, and `BlockingSockets` |
| `threads` | 2 objects, 1 descriptor, 2 threads, streams | `StreamInv`, which holds `SocketInv`, and `OwnedOnce`, while the number is closed and reused during a call |
| `live` | 1 object, 1 descriptor, 2 threads, streams, fairness | `BlockingSockets` while one thread closes the socket under the other; receive and connect end |
| `reactor` | 1 object, 2 descriptors, 1 thread, streams and datagrams | `ReactorInv` and truthful results while blocking calls and attempts of asynchronous operations share one socket |
| `relay` | user id of up to 2 units, 2 units of payload each way, reads of 2 (of 3 in the handshake), fairness | `RelayInv`, and what becomes of the data |
| `boot` | 4 error numbers, one unknown to the table; 2 buffer sizes | start, failures of LKL, errors and options |

**Bounds.** `Conns` is the storage for connection objects; storage is reused, so a
behaviour is not bounded to two clients, only two live at once (three objects never
interact more than two do: they share only the list, the queue and descriptor numbers, and
each of these conflicts is between two). When all storage is in use the next `startAccept`
waits (`ResumeAccept`); that is an effect of the bound alone. Two descriptors let a number
be reused and let another be free; one is enough for the violations, and in `shutdown`
and `threads` makes every second socket reuse the first's number. `MaxIn = 1` is enough
to tell data from end of file, and for `Refused` calls to find data later. In `relay` the
read of the user id takes up to 3 units, the others up to 2, so user id and payload meet in
one read, are split between two, and a write is left half done; a client may be eager or
wait for the reply.
In `boot`, 9, 25 and 111 are numbers of the table (25 is the one `available` changes), 524
is ENOTSUPP, which Linux lets out of option calls and the table does not have; the host
layer may leave 4 (EINTR) in `errno`, other code of the thread 11.

Larger instances that are no run, for their time, were checked without an error before the
proofs were begun: `SocketInv` with both kinds of sockets and two threads (1.46 million
states), and `ImplementsBlockingSockets` with two threads, two objects and one descriptor
(the instance of run `threads`, 531,543 states), where the number goes to the other object
between `lkl_close` and `construct()`.

**Fairness.** `FairSpec` assumes weak fairness for the main thread, for each destructor
and for each thread of a connection as far as it is not waiting for a peer
(`ThreadRuns`): a read, a write or the read of the request may block for ever unless the
descriptor it uses is closed or shut down. The operating system's scheduler justifies
this; nothing is assumed of peers, clients, signals or the network. In `handshake()`,
connect is assumed to return in the end (TCP's own timeout). Both liveness properties
assume that from some time on no thread blocks on a number that belongs to another
connection (`NoneForeign`), from which its own connection cannot wake it. Run `stop` turns
deadlock checking off: all storage may be held by connections whose threads ended with an
error, which the code never releases. `relay` and `boot` turn it off as well: a connection
and a program end.

In `SocketOps` and `RelayStreams`, fairness is for steps that do not fail (`Calm`): LKL and
the host may report an error at any time, and a liveness property that needs such an error
would be none. The library runs each thread whose call can go on; nothing is assumed of
peers. `ReceiveEnds` and `ConnectEnds` therefore say that a call leaves `poll` because the
end, or the decision, makes the descriptor ready; `RelayDelivers` that the loops pass on
what arrives as long as nothing fails.

## Findings

1. `SocksServer.c++:45` calls the sleep of 100 ms a guarantee that other references are
   gone. It is one only if the posting thread is scheduled in that time (`PromptRelease`).
   Otherwise that thread destroys its own connection (run `early`).
2. `SocksConnection.c++:152` explains why `bad_weak_ptr` is to be ignored, and both relay
   loops do; the catch of `handshake()` does not (run `handshake`). `EscapeOnlyAtShutdown`
   shows, and is proved, that this happens only at shutdown.

What the code does in five more cases is modelled and no property denies it; `PROJECT.json`
lists each as a hazard with that note. An error other than eof ends a relay loop without a
stop (`SocksConnection.c++:148`). The rest of a user id that `read_until` leaves is relayed
(`SocksConnection.c++:100`). An error number the table does not know is told as success
(`lkl_decl.c:117`), and by `sockatmark` and `available` as an earlier error
(`socket_ops.ipp:654`). Asynchronous operations go to a reactor that does not know the
descriptor (`reactive_socket_service_base.ipp:157`).

`SignalTerminates` names two further situations in which shutdown does not end by itself:
a remote socket opened after the destructor looked at it, and connections destroyed with a
queued stop handler after LKL was halted.

## Proofs

Every theorem holds for all sets of connections, objects, descriptors and threads and all
sizes, from the ASSUMEs of the modules alone: `ConstantsAssumption` (server),
`KernelAssumption` and `KindsAssumption` (socket service), `CallsAssumption` (wrappers),
`RelayAssumption` (relay). They say that the values for "none" are no connections or
descriptors, which kinds of sockets there are, and that sizes are numbers. Each component has
an inductive invariant in named parts: it holds initially, every step keeps it, and the
properties follow from it. Those of the server, the socket service and the relay are checked
by TLC on a run as well.

### The server (`SocksServerProofs`)

For both values of `PromptRelease` and `MaySignal`: `TypeCorrect` (`TypeOK`), `Invariant`
(`IInv`, one lemma per action), `ReferencesCounted` (`RefsMatchLife`), `NoThreadLeftBehind`
(`NoUseAfterFree`), `SleepSuffices` and `JoinedBeforeDestroyed` (if `PromptRelease`, then
`DestroyedOnMain` and `NoJoinableThreadLeft`), `StopsAreNotLost` (`StopNotLost`),
`EscapesOnlyAtShutdown` (`EscapeOnlyAtShutdown`).

**Why `IInv` has the parts it has.** `RefsMatchLife` alone is not inductive:
`startAccept` takes free storage, and to know that no reference to it is left over one
needs that queued and pending connections are new ones, each referenced once
(`AcceptorFresh`, `QueueFresh`). The joins (`JoinStages`) give `NoUseAfterFree`, as far as
no thread skips one, which holds unless it destroys its own connection. For that,
`ReleaseBacked` says that a thread that posted a stop is backed by a reference of the list
or of the stop handler until the handler's sleep is over; with `PromptRelease` it is out of
`stopConnection()` by then. `StopKept` ties the end of a thread to the stop it asked for.
`EscapeOnlyAtShutdown` needs that a running handshake belongs to a listed connection and is
its only thread (`HandshakeListed`, `HandshakeAlone`). `ThreadsKnown` says more than the
joins need: before the destructor, a thread that is not joinable was never started. The
refinement needs that.

### Descriptor numbers (`ServerDescriptorProofs`)

`DescriptorsHold` (`DescriptorInv`), `ClientsAreOwn` (`HostDescriptorsOwn`, with prompt
release), `DestinationsAreOwn` (`RemoteDescriptorsOwn`), `JoinsFindClosed`
(`ClosedBeforeJoin`), `OnlyStopsOutlive` (`OutlivesServer`).

A thread fetches the number before the call it makes with it. `DescriptorInv` says that a
number belongs to one socket object (`OneSocketPerNumber`), that a call is made on the own
socket until the destructor closes that (`FetchedIsOwn`), and that a socket the destructor
has closed is not opened again while the server runs (`StaysClosed`). The steps fall into
three sorts, so that three arguments do instead of one per action: a thread fetches a number
(`Fetches`), a socket is opened (`Opens`), and the others, which begin no call and open
nothing. Prompt release is needed for the client's socket only: numbers of clients are given
out by the main thread alone, and with prompt release it runs no handler while a
destructor is under way. LKL's numbers are given out by the handshakes of other threads at
any time, which is why `RemoteDescriptorsOwn` leaves out connections past closing theirs.

### The life of a connection (`ServerRefinementProofs`)

`LivesAsPromised`: `ImplementsConnectionLife`, with and without prompt release. The stage of
a connection is determined by its storage, by whether a stop is pending or a thread holds a
reference (`Asked`), and by whether it is listed or its host thread joinable (`Started`);
`Active` are the threads between start and end. Each action is shown to change these for one
connection at most (`startAccept` also for the ones whose references it drops), and so to be
one step of `ConnectionLife`, or none. `IInv` provides that a step which removes the last
sign of a stop also ends the life of the object.

### The socket service (`SocketProofs`)

`SocketInvariantHolds` (`SocketInv`), `SocketTypes` (`SocketTypeOK`), `NoneIsLost`
(`NoDescriptorLost`), `OneOwner` (`OwnedOnce`), `ModesAreKnown` (`ModeIsKnown`),
`DestructorsDoNotWait` (`DestructorDoesNotLinger`), `CallsBlockUnlessAsked`
(`BlocksUnlessAsked`), `ConnectTellsTheTruth` (`ConnectedWhenTold`): for streams and
datagrams and any number of threads.

**Why `SocketInv` has the parts it has.** A close takes up to four system calls, and between
them the object still shows its descriptor. That it works on that one, whatever other
threads do, is `InHand`, which needs that calls that change an object exclude each other on
it (`Exclusive`, the rule for users of Asio, kept by the guards) and which calls have a second
object (`StepsKnown`). `OwnersApart` is `OwnedOnce` without the cardinality. That a
destructor does not linger needs that the flags tell the linger option (`FlagsTell`) and how
far the close has come (`CloseReady`), which also gives that the second `lkl_close()` is not
refused, and so `NoDescriptorLost`. `ConnectedWhenTold` needs the state of the attempt
behind each place of a `connect()` (`ConnectKnown`).

The actions are sorted by what they do to a call, an object and the kernel (a call that
ends, goes on or begins; an object that is given a descriptor, whose flags are adjusted, or
that loses it), one lemma for each sort shows that `Ownership` is kept, and each action is
put into its sort. The fate of a connection is treated apart.

### The promise to the user (`SocketRefinementProofs`)

`StreamsAreTold` (`StreamInv`) and `BlocksAsPromised` (`ImplementsBlockingSockets`) hold for
stream sockets (`Kinds` within `{"stream"}`, what lklsocks opens; `BlockingSockets` knows no
datagrams) and any number of threads. The mapping needs `StreamsTold` next to `SocketInv`: a
free number has nothing to read, a waiting call is one on a stream, and a close that reaches
`construct()` has released its descriptor. Every step of a thread is then shown to be a step
of the promise, or to be unseen: setting modes, polling and refused attempts are unseen, and
`lkl_close` and not `construct()` is where socket and descriptor part.

### Asynchronous operations (`ReactorProofs`)

`ReactorInvariantHolds` (`ReactorInv`), `WaitsOnlyForData` (`AgainMeansWaiting`),
`PendingConnectTruth` (`NonBlockingConnectTruth`), `EndIsAnEnd` (`EofOnlyOnStreams`).

`Ownership` was stated without the fate of connections so that it is kept by the operations
of `ReactorOps` too. An attempt leaves the objects and their descriptors alone (`Besides`);
the other operations are of a sort `SocketProofs` knows. `NoDescriptorLost` is no part of
`ReactorInv`: the descriptor `non_blocking_accept()` produces is its caller's to put into an
object or to close.

`EndIsAnEnd` has a hypothesis: there are no datagram sockets, or no two threads. Without it
the property is false, and TLC shows why: a call copies the flag `stream_oriented` with the
descriptor; if another thread closes the socket and the number goes to a datagram socket, an
empty datagram is told as the end of the stream. lklsocks opens streams only, so the
theorem covers what the program does, with any number of threads. For the other case, one
thread, `AloneCopies` says that what a call copied still holds; `Follows` sorts the
steps by what they do to a call for it.

### The data (`RelayProofs`)

`RelayInvariantHolds` (`RelayInv`), `BuffersSuffice` (`RelayTypeOK`), `StreamsStayIntact`
(`StreamsIntact`), `ReplyComesFirst` (`ReplyFirst`), `EndedSidesAreComplete`
(`EndedSideComplete`), `UserIdsStay` (`UserIdStays`): for every length of the user id, amount
of payload and size of the buffers.

`StreamsIntact` says that what was written, what a thread holds and what waits to be read
make up what was sent. It is not inductive: it says nothing before the user id is read, and
a read that overwrote a full buffer would break it. `BeforeUserId` says where the
units are until then, `BeforeRemote` that the client gets no more than the reply until the
remote thread runs, `ThreadsHold` that a thread reads only with an empty buffer and finds the
end only when nothing waits. `UserIdAlone` is for `UserIdStays`: a client that waits for
its reply has sent no payload before, so the one read of `read_until` cannot take any. The
proofs rest on a few lemmas about sequences: a unit that arrives makes the concatenation
longer, a read or a write only moves a cut within it.

### Start, errors and options (`LklProgramProofs`)

- `NeverSilent`: `ServesOrSays`, by `BootInv`, which says for each stage of `main()` what
  `init_lkl()` has done by then;
- `ErrorsAreOwn`: `ErrorIsOwn`, which is inductive: each call writes `last` afresh, and the
  lemmas treat the three ways it does so (after clearing `errno`, without, without LKL);
- `OptionsAreRead`: `OptionsReadBack`, by `OptionsKept`: the object, or the kernel, has what
  was set last with success, through failed calls and a new descriptor.

### Only model-checked

The liveness properties `StopReleases`, `SignalTerminates`, `ReceiveEnds`, `ConnectEnds` and
`RelayDelivers`: liveness under fairness is out of this prover's reach, as ENABLED is. Every
safety invariant, action property and refinement a passing run checks has a theorem.

## Not modelled

- The fields of SOCKS4: the code checks neither version nor command, so they change nothing
  (a BIND request is served as a CONNECT).
- The order of the connection list, logging, the values of the configuration.
- `cancel()`, `shutdown_service()` and the completion of asynchronous operations: they are
  calls into Boost's reactor, which the code has disconnected from LKL's descriptors.
- Flags of a transfer (peek, out of band, MSG_DONTWAIT), interrupted attempts, which the
  code repeats at once. EPROTO is not told from ECONNABORTED, since `accept` treats both alike.
- `enable_connection_aborted` in `accept` (it is an option in `LklCalls`, never set by the
  program); `listen` backlogs and addresses.
- `inet_ntop`, `getaddrinfo` and the other address and name functions of `socket_ops`: pure
  conversions the proxy does not call.
- Whether LKL serialises calls, as a comment in `receiveRemote()` says: the model lets them
  run independently. After `halt_lkl` nothing is assumed about LKL calls.

Noted and not followed further: `--help` and `--version` alone are answered with "Missing
argument", because `notify()` comes first (`ParseConfig`).

## Plan

1. Lemmas about what the liveness properties rest on and safety can say: which action is the
   one that ends a wait, and that no step of others undoes what it waits for
   (`ReceiveEnds`, `ConnectEnds`).
2. The premise `NoneForeign` of the liveness properties: theorems on when it holds.
3. A weaker premise than `PromptRelease` for single connections: a connection whose threads
   are all out of `stopConnection()` is destroyed on the main thread, whatever others do.
