# sunset in TLA+

Specifications of [sunset](../src/README.md), an SSH client and server library
with an SFTP server and client: what its state machines do, checked with TLC on
small instances; and, for the transport, authentication, the channels and the
demo, proved with TLAPS for every size.

`PROJECT.json` is the index: the components, the runs with their properties,
the mutants that each property catches, the source lines of every definition,
the hazards, and what the runs found.

    tlc -config MCTransport.cfg MCTransport       # any run: config and module
    tlapm ChannelsStepProofs.tla                  # any proof module, 4-15 minutes

## The system

Sunset does no I/O of its own in its core. A `Runner` is fed with bytes, asked
for bytes, and asked to make `progress()`, which returns at most one event. The
other crates are tasks and sockets around it.

| Part | State | Operations | Source |
|---|---|---|---|
| traffic | output buffer, deferred packets, `drain` and `sending_kex`; input packet and how much of it was read | send, defer, drain, input, read | `src/traffic.rs` |
| key exchange | `Kex` enum, cookies, strict flag | start, KexInit, DH, NewKeys, re-key | `src/kex.rs` |
| keys | sequence numbers, keys per direction, blocks since the last key | encrypt, decrypt, change keys | `src/encrypt.rs` |
| connection | phase (ident, first key exchange, before and after auth) | packet filter, dispatch | `src/conn.rs` |
| authentication | method in progress, keys tried, user name | request, probe, sign, accept, refuse | `src/cliauth.rs`, `src/servauth.rs` |
| channels | table of channels: state, windows, EOF, close, done | open, confirm, refuse, data, adjust, EOF, close, done | `src/channel.rs` |
| runner | pending event, wakers, closed flags | input, output, progress, resume, channel calls | `src/runner.rs`, `src/event.rs` |
| async wrapper | the Runner under a lock, a progress signal, reference counts per channel | progress, input and output loops, poll_read, poll_write, drop | `async/` |
| SFTP server | input queue, request buffer, handler state | read loop, process loop, replies | `sftp/src/sftphandler`, `sftpsource.rs`, `sftpserver/` |
| SFTP client | reply being assembled, outstanding count, poisoned flag | one method per request, dropped at any await | `sftp/src/sftpclient` |
| client crate | one connection per hop, queues for stdout and stderr, keys to offer, known hosts | connect a route, drive, poll, read, write, verify and record a host key | `client/` |
| stdasync | terminal, descriptors | command line client | `stdasync/` |
| demo | configuration in RAM and in flash, a serial pipe that changes owner | menus, load and save, take, copy loops | `demo/` |

What makes each part correct:

* transport: the parts of the state of a key exchange agree; each packet is
  opened with the key and number it was sealed with; nothing goes out during an
  exchange that may not; data and answers arrive once, in order, in the end.
* negotiation: both ends select the same algorithms or none, hash the same, and
  a guessed packet is used if and only if its sender means it.
* authentication: nobody is logged in but by an attempt the application
  allowed; each answer is taken for the request it answers; it ends.
* channels: a number names the same channel on both ends; credit is neither
  lost nor made; EOF is last; every open and close is answered.
* async wrapper: no wake-up is lost, so that input, output, readers, writers
  and the end of the connection move on; a channel is released when, and not
  before, its last stream is dropped.
* SFTP server: requests are taken apart where they end, each answered once;
  written data arrives exactly; no mutual waiting.
* SFTP client: the stream of replies stays in step through dropped futures; an
  operation gets its own reply; a pipelined read has no gaps.
* client crate: a host key is accepted as the configuration says, over re-keys
  and reconnections; keys are offered in order and only to a verified host; end
  of file comes after all output; the thread sleeps only when nothing can be
  done.
* demo: flash follows RAM; a restart finds a whole configuration; a pipe goes to
  the one that took it last, and to no other.

How they interact, and what is hard about it:

* Three modules keep part of the state of a key exchange (`Kex`,
  `TrafOut::sending_kex`, `TrafOut::drain`), both ends may start one at the same
  time, and data, requests and answers are on their way meanwhile.
* An answer that cannot be sent now waits in a queue of fixed size. A request of
  the application fails instead and has to be repeated. A window adjustment is
  kept in the channel and tried again.
* One packet of channel data is held until it is read; until then nothing
  behind it is looked at.
* Channel numbers are reused, and two sides plus the application must be done
  with one first.
* The SFTP server answers while it reads requests, over windows that the same
  connection carries the adjustments of.
* The SFTP client's futures may be dropped wherever they wait.
* The async wrapper shares one Runner between tasks that take its lock for one
  call at a time, and wakes them with wakers, of which it keeps one each, and
  with a signal that is not counted.
* A peer of another implementation chooses its lists, its guess, and the order
  of its authentication messages.
* The client crate nests a connection in a channel of another one, all driven
  by one thread over one socket: data can wait in any of the queues between
  when the thread goes to sleep.
* Sessions of the demo share a configuration and a pipe, are dropped at any
  await, and power fails between any two steps of a save.

## Modules

An end is a record, and each method of the code is an operator from records to
records that keeps the method's name in CamelCase; actions compose them in the
order the code calls them. For asynchronous code a step is what happens between
two awaits. Data is reduced to what the properties tell apart. Fields that only
remember what happened (for the properties and the bounds) are named as
auxiliary in the module's heading.

* **Transport** models two Runners joined by two byte streams: identification,
  first and later key exchanges, strict key exchange, keys and sequence
  numbers, the packet filter, the output buffer with its deferred queue, and
  the order of work in `progress()`. A packet is one slot of the buffer. Above
  the transport there are three kinds of payload: channel data, a request that
  must be answered, and its answer. Actions: `Progress`, `Input`, `Output`,
  `Resume` (the application answers an event), `WriteChannel`, `ReadChannel`,
  `SendRequest`.
  **TransportProofs** and **TransportOrderProofs** have the theorems about it.
* **Negotiation** models what the two KexInits decide. One end is this library,
  in either role and any build (`AlgoConfig`, `Algo_negotiation`, the name
  lists, `HandleKexInit`, `HandleKexDHInit`, `HandleKexDHReply`), the other a
  peer that follows RFC 4253 (`PeerInit`, `PeerReply`, and `Preferred`, the
  reference definition of the selection; external). Exchange values, secrets
  and H are symbolic: H is the sequence of what is hashed.
* **Auth** models `CliAuth` and `ServAuth` from the service request on, with
  the events both applications answer, agent signatures and the decoding of
  message 60. `link` chooses two ends of this library, or one and another
  implementation that sends any authentication message at any time.
  **AuthProofs** has the theorems about it.
* **Channels** models the channel tables of a client and a server over a
  transport that keeps order and is sometimes busy, which is what Transport
  shows of it. Actions: `OpenSession`, `Receive` (the dispatch of one packet),
  `ResumeOpen`, `ResumeRequest`, `Progress`, `Write`, `Read`, `SendChannelEof`,
  `ChannelDone`, `EnterBusy`, `LeaveBusy`, and `ForeignClose`, a close by
  another implementation, since this code never closes first. Such a peer may
  use a number again for another channel once it has seen both closes
  (`Reuses`, `Forget`). **ChannelsChanges** has the invariants and the changes
  its proofs reason about, **ChannelsProofs**, **ChannelsFieldProofs**,
  **ChannelsStreamProofs** and **ChannelsStepProofs** the proofs.
* **ByteStreams** is what channels promise their users: for each direction of
  each channel ever opened a stream whose reader gets bytes that were written,
  is told of the end only when the writer has ended it and every byte was read,
  and whose writer writes nothing after the end. Channels implements it: the
  mapping (`Abstract`, `Stream == INSTANCE ByteStreams WITH ...`) takes a
  stream's counts from the two applications' calls, and the end from the calls
  that send and report EOF. Several streams may step at once because the answer
  to an EOF ends the one stream while the other is being told.
* **SftpServer** models `SftpHandler::process_loop` on one channel, both of the
  loops that run in its future, and a client that pipelines. `Process` is the
  handler up to its next await (`Fill`, `Skip`, `WriteChunk`, `WriteError`,
  `Drain`, `Reply`, `ReplyData` are its parts), `ReadLoop` moves channel data
  into the queue, `HandlePacket` is the SSH layer. `MakeRequest`, `Transmit`
  and `ReadReplies` are the client.
* **SftpClient** models `SftpRunner` and the operations of `SftpClient` and
  `DirIter`. `Call` and `DirNext` start an operation, `Sent`, `Fill` and `Take`
  are the returns of its three awaits, `Cancel` drops the future. `Serve` is a
  server, external, that answers pipelined requests in any order.

* **AsyncSunset** models `AsyncSunset` around one Runner: tasks for rx, tx and
  `progress()`, and one for each stream of each channel, whose steps are polls.
  `s` is what the lock protects with the wakers, the signal and the reference
  counts; `pc` says where a task waits and `todo` what a stream has left;
  `peer` is the other side of the socket. `app` is chosen at the beginning from
  a set of small applications: role, channels, streams, amounts, and what else
  happens (streams dropped, the peer closes, hangs up, the socket breaks, a
  window change).

* **Client** models the blocking client: a route of hops, each with a
  `Connection` (Runner, queues, handle, keys left to offer) whose bytes go over
  the socket or over a channel of the hop before. The application thread is one
  sequential program: `Connect`, `Connecting` and `Resume` establish the route
  hop by hop, `Drive` and `Input` are the two halves of one step of `pump()`
  over all hops (`PumpOut` up to its output, `PumpIn` from its input on; the
  server may answer in between), `WaitReady`, `Wake` and `Timeout` are the sleep in `poll()`, `Read`,
  `ReadStderr`, `Write` and `Waited` the calls on the channel, `Reconnect`
  another attempt. On the way hosts are verified and recorded (`VerifyWith`,
  `Record`) and keys are prepared, offered and signed with. Servers, socket,
  agent and a second thread that holds a `Wake` (`Enqueue`, `NotifyFlag`,
  `NotifyPoller`) are the environment. `scen` is chosen at the beginning:
  options, files, servers, faults.
* **PicoDemo** models the Pico W demo: `BootLoad`, `BootCreate`, `BootErase` and
  `BootSave` are `load_or_create`, with read, erase and write errors; sessions and the local menu change the configuration
  (`WithConfig`) and save it in steps (`SaveLock`, `SaveErase`,
  `SaveWrite`); `Take`, `ReadPipe` and `WritePipe` are the calls of `TakePipe`,
  with its signal, counters and mutexes, inside the loops of `serial()`.
  `PowerLoss` falls between any two steps, flash
  operations may fail, and a session may be dropped at any await. Bounds are
  one of a set of budgets chosen at the beginning. **PicoDemoProofs** has the
  theorems about it.

Negotiation and Auth detail what Transport has as one step. AsyncSunset and
Client have reduced Runners of their own: packets and room, not keys. The SFTP
models and Client stand on Channels (packets in order, one packet held until it
is read, credit returned on reading), and Channels on Transport, by the
assumptions their headings name.

## What the runs show

Every passing run takes under three minutes with two workers.  They have
between 50 thousand and 2.1 million states.

| Run | Shows |
|---|---|
| transport | `KexFlagsAgree`, `PeersUnderstand`, `QuietDuringKex`, `InOrder`: over a first key exchange and re-keys started by either or both ends, the flags agree, each packet is opened with the key and number it was sealed with and accepted by the filter, nothing is sent between KexInit and NewKeys that may not be, put off answers fit, and data and answers arrive once and in order. `WritersResume`, `Delivered`: a writer that was refused can write later, what was sent arrives, requests are answered, unless both byte streams are full in a key exchange (`Choked`). |
| negotiation | `SidesAgree`, `SameHash`, `Completes`: against every peer of the configuration both ends select what RFC 4253 says or find that there is nothing, use the packet the peer means, hash the same, and end. |
| channels | `PeersAgree`, `CreditConserved`, `IsByteStreams`, `WindowReopens`, `OpenCloseAnswered`: a channel to a server of another implementation, opened, refused, given up at any time, used, ended and closed, with a window that fits two units, three units to send and a client whose transport is busy once. `IsByteStreams` is the refinement of ByteStreams. There is one slot: with two, and a server that uses numbers again, `PeersAgree` and `IsByteStreams` are false (see below). |
| auth | `AuthedByAllow`, `Understood`, `OneAtATime`, `Settles`: every order of keys, agent signatures, passwords and skips, every decision of the server's application, and another implementation at either end; nobody is logged in but as the user that was allowed. |
| async | `Usable`, `PacketsMove`, `WritersFinish`, `EndSeen`, `Released`: thirteen applications and a peer that speaks as soon as a channel is open; no wake-up is lost, no channel is released early or kept, and the errors that the code takes for impossible have four causes. |
| sftp_server | `Framed`, `OneAnswerEach`, `WritesExact`, `StuckOnlyIfFull`: every shape of request, longer than the buffer, unknown, malformed and with a handle of the wrong kind, and reads and writes that fail midway; each property names what the code does otherwise. |
| sftp_client | `InSync`, `OwnReply`, `ReadPrefix`, `OutstandingExact`, `Finishes`: every operation, short and reordered replies, partial reads, dropped futures. |
| client | `HostKeyPolicy`, `KeysInOrder`, `EofComplete`, `RunsToEnd`: the four host key policies over re-keys and two connections, keys from files and an agent, output on two streams through small queues, routes of one and two hops, and servers that refuse, hang up, fall silent, or drop or reset the connection. |
| demo | `FlashCurrent`, `Rebooted`, `OnlyTheTaker`, `TakerServed`: two sessions and the local menu change and save the configuration and take the pipe from each other, with losses of power, flash errors and dropped sessions. A third session is there in the theorem about the pipe, which is for any number. |

`TypeOK` of a module, with its capacities, is a conjunct of the first invariant
its run lists (in Transport of `PeersUnderstand`). Checked besides, without
a run of their own: the transport with `NetRoom = 20` and `Strict = FALSE`
(299,203 states), and its invariants with two requests from each end (1.4
million states, and 1.7 million with `NetRoom = 20`); and `PeersAgree` with two
slots, two opens and this library at both ends (1.6 million states).

Three runs show the code differing from what a comment in it says. They are
under `findings` in `PROJECT.json`, with the lines:

| Run | What happens |
|---|---|
| transport_async | `progress()` finishes the payload of the previous event. The server's `Authenticated` event has no payload of its own; if `input()` has taken a packet before the next `progress()`, as the async wrapper's tasks may, that packet is dropped. |
| sftp_server_queue | "a queue that size can always be drained" (`sftphandler.rs:68`): window is given back when data enters the queue, so a client that pipelines reads, and takes every reply at once, fills the queue while a reply waits for send window. The adjustment is behind data that does not fit. |
| async_hangup | The end of the input arrives together with a last packet; one signal stands for both, and `progress()` waits for ever instead of returning `Defunct`. |

Met while modelling, without a run of their own. The models do as the code
does; a property that would not hold is weakened by name where that is said.

Transport and channels:

* Input is refused while key exchange output waits (`runner.rs:433`). Two ends
  that start a re-key while both byte streams are full of data refuse for ever
  (`Choked`, which `WritersResume` and `Delivered` except).
* A packet that `input()` takes between an event without a payload of its own
  and the next `progress()` is dropped, as in transport_async. The events are
  the server's `Authenticated` and the client's `SessionOpened`, so it concerns
  the async wrapper (`lost`, which `WritersFinish` excepts) and the blocking
  client, whose `pump()` takes input in the step in which it answers
  `SessionOpened` (`Lost`, which `EofComplete` and `RunsToEnd` except): the
  first output of a command may be missing, and if it is the server's KEXINIT,
  only the deadline ends the attempt.
* `SessionOpened` is emitted once, and also when the output buffer is full; the
  command that answers it then fails with `BusySend` (`conn.rs:278`).
* EOF from the peer is answered with EOF (`channel.rs:1007`), so the
  application can no longer write although it did not call
  `send_channel_eof()`.
* `channel_done()` on a channel that is already closed or refused only marks it
  (`channel.rs:105`); its slot is not used again.
* `open_client_session()` takes a slot and then may fail with `BusySend`; the
  slot stays taken. `OpenSession` does so too.
* The credit returned for a packet includes the bytes in front of its data, so
  a receive window grows by that much per packet; `CreditConserved` states the
  exact amount (`Overhead`).
* `write_channel()` looks at the window and not at the close, so data may follow
  a close that was answered; and a writer that has no window when the close
  comes waits for good, though `channel.rs:1065` says "None on close"
  (`WritersFinish` excepts closed channels).
* After the peer's Close was answered, a request or an Eof may still be sent on
  the channel (`send` is not cleared, though `channel.rs:1065` says "None on
  close"). A server that frees the number when it has the answer, and gives it
  to the next channel, takes that packet for the new channel. `MCChannels.cfg`
  with `MaxChannels = 2` violates `PeersAgree` so, with two opens; the theorems
  exclude it by the hypothesis `NumbersOnce`, the run by its one slot.
* An application that gives up a handle before its open is answered leaves a
  channel that is not done: data that arrives for it stays unread and blocks
  what follows (`Halted`, which `WindowReopens` and `OpenCloseAnswered` except,
  with an end that has failed).

Negotiation and authentication:

* A marker in both lists ends the search (`kex.rs:490`): a client that lists
  kexguess2 before its methods finds no match. The peers here list it last.
* A server with an RSA host key agrees on rsa-sha2-512 and signs with SHA-256,
  because `can_sign()` (`sign.rs:565`) accepts both types and `sign()` is not
  told which: as an invariant of `MCNegotiation.cfg`, `SignedAsAgreed` is
  violated.
* A server whose keys do not fit the agreed type ends with `BadUsage`.
* A client that is given a user name that is too long is not asked again; one
  that has no more keys asks for a password even if the server did not offer
  it; an event of the client that is dropped unanswered ends with `BadUsage`.

Async wrapper:

* Data for a stream that was dropped is discarded only by a `progress()` that
  something else causes (`async_sunset.rs:306`; `PacketsMove` excepts it).
* `term_window_change()` and `term_break()` wake nothing (`PacketsMove` excepts
  applications that call them).
* Errors that the code takes for impossible (`Usable` names these four causes
  and excludes others): data that arrives between open or `accept()` and the
  `add_channel()` of its handle makes `discard_channels()` fail; a client that
  drops all its streams before the open is answered makes `channel_done()` fail
  with `BadChannel`; a client that reads before its session is open panics in
  `by_handle_mut()`; and the command of a session fails with `BusySend` when
  another is opened at the same time and the output buffer is full.
* A read error of the socket does not wake `progress()` (a TODO at
  `async_sunset.rs:208`).

SFTP:

* After a failed write the handler stays in `Drain` (`sftphandler.rs:711`): it
  discards the same count again from what follows, and the requests in it are
  not answered (`StuckOnlyIfFull` excepts that state, and the full queue of
  sftp_server_queue).
* A read or readdir that fails after its header was sent is answered twice: by
  what was sent, broken off, and by a status (`sftphandler.rs:316-336`,
  `376-389`; `OneAnswerEach` names it).
* A write that carries data and is refused for its handle or its fields is
  answered without its data being discarded (`sftphandler.rs:445`), so that the
  data is taken for the next header (`Framed` names it).
* A data reply of no length that `drain_replies()` reads leaves `SftpRunner` in
  `DataLen` (`MCSftpClient.cfg` with `Odd = {"empty"}` violates `InSync`), and a
  reply of unknown type counts as an answer but wakes nobody (`Odd =
  {"unknown"}` violates `Finishes`).

Client crate:

* `open_session()` waits for the deadline when the server refuses the session:
  it does not look at the finished channel as `open_forward_until()` does
  (`ssh.rs:404`, `ssh.rs:466`). `RunsToEnd` promises the output only when
  servers open what is asked for.
* When the TCP connection is lost `eof()` becomes true although output is
  missing (`EofComplete` excepts it).
* When the channel under an inner hop ends while the inner hop has output, the
  write fails with a transport error although data to read is queued; the
  scenarios in which a server hangs up end that way or with the output.
* The known-hosts file is read when a hop is set up, so two clients at the same
  time do not see each other's entries; a key both in a file and in the agent is
  offered twice.
* `Transport::buffered()` is never what decides in the modelled cases: a round
  of `drive()` leaves nothing behind that it would report.

Demo:

* "Any modifications will be saved to flash (on a future `progress()` call)"
  (`picowmenu.rs:67`): a session dropped before or during its save, a failed
  flush of the terminal or a failed save leaves the change in RAM only, and no
  later `progress()` writes it (`hist.lost`, which `FlashCurrent` excepts).
* "the existing client loses the pipe and gets EOF" (`takepipe.rs:26`): with a
  third session the one signal can reach the wrong one (`hist.crowded`, which
  `TakerServed` excepts); and a session that is blocked on its own SSH channel,
  not on the pipe, sees the end only when it comes back to the pipe.
* After a USB disconnect `join` (`usb.rs:118`) waits for the reader of the pipe
  too, which ends only with a failed write; not modelled.

### Bounds

* Transport: one data packet each way, two requests of the client and one of the
  server, re-key limits of
  three packets out and four in. The first key exchange and authentication take
  the counters past the limit, so re-keys happen with data and answers under
  way, from one end, the other, or both. Five output slots hold the answers of
  one round (assumed by name in the module; the code's buffer is larger). Byte
  streams of two packets fill, so that `Choked` happens; transport_async has
  streams that do not. `Prompt` says that the application calls `progress()`
  until it idles before it gives more input, which neither wrapper does after
  every event; transport_async drops that.
* Channels: one slot. Two opens are allowed and the second never happens: the
  code does not give the slot away again (the mutant that does so has a second
  open, and violates `PeersAgree`). The bound is not only for size: with two slots
  and a server that uses numbers again `PeersAgree` is false, as said above, so
  the run shows nothing about a number that passes from one open channel to the
  next. With two slots and `Reuses = FALSE` the invariants held for 46 million
  states, where TLC was stopped before the end. `NeverCrossed` and
  `ImplementsByteStreams` are for any number of slots, under `NumbersOnce`. The
  client's transport is busy once, and its
  queue of deferred answers holds one.
* SftpServer: three requests in flight and four in all, with
  bodies and data of up to two units and a queue, a window and a send window of
  two, so that they fill up. sftp_server_queue has reads only, five in flight, and a queue of four.
* SftpClient: a read of five units is three requests of two with a pipeline of
  two, over a file of three units, so that a full chunk, a short chunk and an
  end of file are in flight together. A reply buffer of two truncates bodies of
  three. Calls start while at most four requests have been made, which leaves
  room for a dropped operation, its draining, and a third operation.

* Negotiation: all four builds; peers with up to two of four kex methods, one
  unknown here, in any order and with each useful set of markers, lists of
  signature types with each first choice, guessing or not; and peers whose
  directions differ in cipher, MAC or compression. One exchange: nothing of a
  negotiation is kept for the next.
* Auth: a key of its own, an agent's RSA key, and an agent's key of a type the
  server does not know; three user names, one too long; up to three answers of
  the client's application, so that a key, another key and a password follow
  each other; three messages of the other implementation, a service request and
  two attempts with different names among them.
* AsyncSunset: room for one packet in each buffer and a window of one unit, so
  that every wait happens; up to two units written and one read per stream.
  Two channels are checked for a client and for a server.

* Client: queues of two and one units and a window of three, so that a full
  queue holds up the pump and the window; a budget of four rounds per `drive()`;
  31 executions with one difficulty each (see MCClient), since the
  difficulties of a route do not add up in the code: an attempt ends with its
  first error.
* PicoDemo: two sessions and the local menu; in one budget three connections,
  two changes and one fault, in another three faults one after the other, in the
  third three takers of the pipe with a line larger than its buffer, in the
  last a little of everything. A reset asked for by one session while another
  saves makes start-up create a configuration, and then the loss of power can
  break off that save too.

No run uses symmetry: the ends are not alike, slots are chosen by number, and
liveness is checked where sessions are alike.

### Fairness

Weak fairness of what the program's tasks do without being asked. In Transport
it is the weakest form: a program does not stop while one of its tasks can do
something. Elsewhere it is fairness per task: `progress()`
is called and sockets moved by loops that run for the life of a connection,
events are answered (an event that is dropped answers itself), readers read,
a key exchange ends, the future of an operation is polled. In AsyncSunset a
task that was woken is polled (the executor), the lock is given to one that
waits (embassy's mutex wakes the next), and the socket takes and gives bytes. Nothing is assumed
of what an application may leave undone: write, open, close, call, drop. In
sftp_client the server is assumed to answer. In Client the thread runs, the
other thread finishes the wake-up it has begun, and servers answer unless the
scenario has them fall silent; only then deadlines end an attempt. In PicoDemo
the executor polls tasks that were woken and flash operations end; users, SSH
clients and the serial line may stop for ever.

## What is proved

| Theorem | Module | States |
|---|---|---|
| `TypeCorrect`, `FlagsAgree` | TransportProofs | `Spec => []TypeOK`, `Spec => []KexFlagsAgree` |
| `NothingBetween` | TransportOrderProofs | `Spec => []QuietDuringKex` |
| `InOrderIfPrompt` | TransportOrderProofs | if `Prompt`, `Spec => []InOrder` |
| `OnlyAllowed`, `NoMisunderstanding`, `OneRequest` | AuthProofs | `Spec => []AuthedByAllow`, `[]Understood`, `[]OneAtATime` |
| `NeverCrossed` | ChannelsStepProofs | if `NumbersOnce`, `Spec => []PeersAgree` |
| `ImplementsByteStreams` | ChannelsStepProofs | if `NumbersOnce`, `Spec => IsByteStreams`: Channels implements ByteStreams |
| `BytesInOrder` | ChannelsStepProofs | if `NumbersOnce`, `Spec => []NextInOrder` |
| `ConfigurationSaved`, `ConfigurationKept`, `PipeOwned` | PicoDemoProofs | `Spec => []FlashCurrent`, `Spec => Rebooted`, `Spec => OnlyTheTaker` |

They hold for every value of the constants that the module's named assumption
admits (`TransportAssumption` and so on): any capacity, window, number of
slots, opens, users, keys, sessions and budget. Those assumptions give types
and the least sizes the code has. Four theorems have one more hypothesis:

* `InOrderIfPrompt` assumes `Prompt`: the application calls `progress()` until
  it idles before it gives more input. Without it the property is false, which
  is what the run transport_async shows.
* `NeverCrossed`, `ImplementsByteStreams` and `BytesInOrder` assume
  `NumbersOnce`: a peer that uses a channel number again opens at most one
  channel (`Reuses => MaxOpen <= 1`). With this library at both ends, or a peer
  that does not use numbers again, any number of channels is covered. Without
  it `PeersAgree` and `IsByteStreams` are false: TLC refutes both with
  `MaxChannels = 2`, `MaxOpen = 2` and a foreign server with `Reuses`. A Close
  is answered at once, but a request or an Eof may still be sent on the channel
  afterwards (`send` is not cleared, though `channel.rs:1065` says "None on
  close"), and finds its number in use for another channel. In `MCChannels.cfg`
  such a server and `MaxOpen = 2` meet, but there is one slot and no second open
  happens.

### Along which argument

The properties are proved from stronger, inductive invariants. In each module
every method of the code has a lemma that says which fields it changes, and the
proof that a step keeps the invariant has one case per action.

* Transport. `Inv`: both Runners satisfy `PeerInv`, which is `Typed` (types and
  capacities) and `KexOK` (`sending_kex`, `drain` and `Kex` agree in a Runner
  that has not failed). `progress()` is a chain of a dozen methods, each of
  which may fail, and the flags agree only after some of them; sending is where
  they change (`TrackSendPacket`), so `SendPacketFacts` carries most of it. No
  method leaves `Kex` taken out of its place, and while an event about the host
  key waits for the application, `Kex` stays where the answer expects it.
* Transport, the streams. `QuietInv` adds, of the whole stream from one Runner
  to the other (packets in flight and output buffer together, so that moving
  one changes nothing), that an open KexInit in it means `sending_kex`
  (`Lawful`) and that only answers are deferred. `OrderInv` adds that the
  numbers of what was received, what is held, what is on the stream and what is
  deferred continue each other, for data, requests and answers (`OrderOf`).
* Auth. `Inv`: the two ends are consistent (`CliOK`, `SrvOK`); all events the
  application was shown name one user, and a server that has authenticated was
  allowed to (`HistInv`). With this library at both ends (`Linked`), what is
  under way fits what the client waits for, and there is at most one request or
  answer, in one of six places: under way to the server, being handled there,
  under way back, being handled at the client, an event its application has to
  answer, or the next event to come (`TokenInv`).
* Channels, addresses. `Route`: for each conversation, where its Open or the
  answer to it is, which slot it has at either end, and that everything under
  way is addressed to that slot.
* Channels, bytes. `Streaming`: the packets under way lead from the bytes that
  have arrived to the bytes that were written, each saying how many came before
  it (`Leads`); an Eof comes after all data, and so does a Close, unless the
  other end has closed first without waiting (`StreamOf`); slots, handles and
  what has been read and written agree at each end (`Neat`). A step of an end
  is shown to be one of a dozen changes (`Quiet`, `Wrote`, `Reading`,
  `EndHeard` and so on); each keeps `Streaming` and is, for each stream at the
  same time, a step of ByteStreams or none (`Flows`). `ImplementsByteStreams`
  follows with `Abstract` as the mapping. ByteStreams counts bytes; that they
  arrive in the order in which they were written is `BytesInOrder`, from the
  position in each packet.
* PicoDemo. `Inv`: only a task that saves holds the mutex (`TaskInv`); the
  sector has what was last saved until it is erased, and a torn one is not
  loadable (`FlashInv`); while the demo runs, RAM and flash differ only when a
  task still has to save, or a save failed or was cut short (`CurrentInv`); a
  session whose counter is that of the pipe is its owner (`PipeInv`).

TLC finds these invariants true of the configurations of their modules:
`OrderInv` of `MCTransport.cfg` with `NetRoom = 20` (299,203 states; the
quantifiers over `Nat` in `OrderOf` bounded by 9), `QuietInv` of
`MCTransportAsync.cfg`, `Inv` of those of Auth and PicoDemo, and `StreamInv`
and `NextInOrder` of `MCChannels.cfg`.

### Only model-checked

* Liveness properties (`WritersResume`, `Delivered`, `WindowReopens`,
  `OpenCloseAnswered`, `Settles`, `Completes`, `PacketsMove`, `WritersFinish`,
  `EndSeen`, `Released`, `StuckOnlyIfFull`, `Finishes`, `RunsToEnd`,
  `TakerServed`): fairness and ENABLED are out of the prover's reach.
* `CreditConserved` is a sum over the packets under way, and `SidesAgree` and
  `SameHash` of Negotiation rest on a search in a list (`SelectInSeq`): what
  such a definition computes needs induction over data, which the prover does
  not have. Client declares a RECURSIVE operator, with which the prover loses
  its SMT backend.
* Not attempted, though nothing is known to put them out of reach: the safety
  properties of SftpServer and SftpClient, `PeersUnderstand` of Transport,
  which follows keys and sequence numbers through the streams, and `Usable` of
  AsyncSunset, which is about tasks that wait on each other.

## Plan

Next, in this order:

1. Proofs: `PeersUnderstand` of Transport; `OutstandingExact` and `InSync` of
   SftpClient; `SidesAgree` of Negotiation, given what the searches return
   (client and server search in opposite nesting).
2. An abstract wake-up (a condition that is signalled is seen) that AsyncSunset
   implements.
3. Pure operators with reference definitions: packet padding and the largest
   payload, the identification line, derived key material.

## Not modelled

* Ciphers, MACs, signatures and key agreement: a packet carries the key it was
  sealed with, a secret is the pair of values it comes from. Padding.
* The wire encoding and its derive macro, errors and logging: no state.
* The text of configuration and key files, and the line parser of the
  identification: parsers of text, for which unit tests are the better tool.
* stdasync: terminal modes, descriptors and the interactive client around the
  async wrapper, which is modelled.
* In Client, `NoRoom`, the first key exchange up to the host key, send windows
  (a server grants more than the input of the run), `Interrupted`, which only
  makes `pump()` go round again, and a known-hosts line that was written in
  part: its Runner takes and gives one packet at a time.
* Of the demo, menus as text, hardware and network set-up, the USB serial task,
  the build option that ignores the saved configuration (`main.rs:83`), and the
  SFTP demo server.
* Fuzz targets.

The reasons are with the components in `PROJECT.json`.
