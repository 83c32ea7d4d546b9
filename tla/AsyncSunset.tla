---------------------------- MODULE AsyncSunset ----------------------------
(***************************************************************************)
(* The async wrapper around a Runner: async_sunset.rs, async_channel.rs    *)
(* and the wakers inside runner.rs and channel.rs.  Tasks share the Runner *)
(* behind a mutex:                                                         *)
(*   prog    the application's loop around progress(), which keeps the     *)
(*           mutex in its ProgressHolder while it handles an event;        *)
(*   rx, tx  the two halves of run();                                      *)
(*   in      reads a channel through a ChanIn;                             *)
(*   out     writes a channel through a ChanOut, then sends EOF;           *)
(*   ext     a client's stderr ChanIn, or a server's stderr ChanOut;       *)
(*   shut    awaits until_closed() on a clone of the ChanOut.              *)
(* A task that is waiting runs again only when its waker is woken; a step  *)
(* is one poll.  A packet is one slot of a buffer, and channel data is     *)
(* counted in units, so that a read may take part of a packet.             *)
(***************************************************************************)
EXTENDS Naturals, Sequences, FiniteSets
LOCAL INSTANCE SequencesExt

CONSTANTS
  Chans,       \* channel numbers, 0 .. MAX_CHANNELS - 1
  OutRoom,     \* packets that fit in TrafOut::buf
  DeferCount,  \* DEFER_COUNT, capacity of TrafOut::deferred_packets
  NetRoom,     \* packets of the peer that are under way
  SockRoom,    \* packets the socket takes before a write is Pending
  DataLen,     \* units of a data packet
  Window,      \* data packets the peer's initial window allows
  Apps         \* the applications that are looked at, a set of App

Habits ==
  {"drop",      \* a reader may be dropped before it has read everything
   "winch",     \* the application reports window changes
   "close",     \* the peer may close a channel
   "refuse",    \* the peer may refuse to open a channel
   "hasty",     \* a client uses its streams before the session is open
   "hangup",    \* the network connection ends
   "broken"}    \* a socket fails

\* An application and what happens to it
App ==
  [client: BOOLEAN,                                \* CS::is_client()
   chans: SUBSET Chans,                            \* the channels it uses
   roles: SUBSET {"in", "out", "ext", "shut"},     \* its streams of each
   does: SUBSET Habits,
   writes: Nat,         \* bound: packets a writer writes
   data: Nat,           \* bound: data packets the peer sends on a channel
   req: Nat]            \* bound: requests the peer sends on a channel

ASSUME AsyncAssumption ==
  /\ Chans \subseteq Nat /\ IsFiniteSet(Chans)
  /\ OutRoom \in Nat \ {0} /\ DeferCount \in Nat \ {0}
  /\ NetRoom \in Nat \ {0}
  /\ SockRoom \in Nat \ {0} /\ DataLen \in Nat \ {0}
  /\ Window \in Nat
  /\ Apps \subseteq App /\ \A a \in Apps : "in" \in a.roles

VARIABLES
  app,    \* the application, fixed
  s,      \* AsyncSunset, its Runner included
  pc,     \* pc[t]: where task t is
  todo,   \* todo[t]: packets writer t has still to write
  peer    \* the peer and the sockets

vars == <<app, s, pc, todo, peer>>

isClient == app.client

Data == {"Normal", "Stderr"}

Prog == <<"prog", 0>>
Rx   == <<"rx", 0>>
Tx   == <<"tx", 0>>
Streams == app.roles \X app.chans
Tasks   == {Prog, Rx, Tx} \cup Streams

\* The places a waker is kept in
Slots == {<<"lock", 0>>, <<"input", 0>>, <<"output", 0>>}
           \cup ({"read", "write", "ext"} \X Chans)
NoTask == <<"none", 0>>

\* The ChanData of a stream, and whether it is a ChanIn
DtOf(t)    == IF t[1] = "ext" THEN "Stderr" ELSE "Normal"
Reads(t)   == t[1] = "in" \/ (t[1] = "ext" /\ isClient)
Writes(t)  == t[1] = "out" \/ (t[1] = "ext" /\ ~isClient)

Packet == [t: {"Open", "Confirm", "Refuse", "Req", "Data", "Adjust", "Eof", "Close"},
           c: Chans, dt: Data]
NoPacket == [t |-> "None", c |-> 0, dt |-> "Normal"]

ChanStates == {"Unused", "Opening", "Normal", "RecvEof", "RecvClose",
               "PendingDone"}
Channel == [st: ChanStates, sentEof: BOOLEAN, sentClose: BOOLEAN,
            window: Nat, owed: BOOLEAN, confirmed: BOOLEAN, done: BOOLEAN]

State ==
  [rxs: {"Idle", "InPayload", "InChannelData"},   \* TrafIn
   pkt: Packet \cup {NoPacket}, left: 0..DataLen,
   out: 0..OutRoom, used: 0..OutRoom,             \* TrafOut, unsent and used
   deferred: 0..DeferCount,
   closedIn: BOOLEAN, closedOut: BOOLEAN,
   ch: [Chans -> Channel],
   ev: {"None", "Open", "Req", "Opened", "Defunct"},  \* resume_event
   evc: Chans \cup {0},
   wk: [Slots -> Tasks \cup {NoTask}],            \* the wakers
   woken: SUBSET Tasks,                           \* tasks to be polled
   notify: BOOLEAN,                               \* progress_notify
   idled: BOOLEAN,                                \* last_progress_idled
   locked: BOOLEAN,                               \* the mutex of inner
   handles: SUBSET Chans,                         \* Inner::chan_handles
   refs: [Chans -> Nat],                          \* chan_refcounts
   reads: [Chans \X Data -> Nat],                 \* chan_*_readcounts
   lost: BOOLEAN,              \* progress() has dropped a packet unseen
   err: {"ok", "Bug", "NoHandle", "BadChannel", "BusySend", "NoRoom",
         "Panic"}]

NewChannel ==
  [st |-> "Unused", sentEof |-> FALSE, sentClose |-> FALSE, window |-> 0,
   owed |-> FALSE, confirmed |-> FALSE, done |-> FALSE]

NewState ==
  [rxs |-> "Idle", pkt |-> NoPacket, left |-> 0, out |-> 0, used |-> 0,
   deferred |-> 0, closedIn |-> FALSE, closedOut |-> FALSE,
   ch |-> [c \in Chans |-> NewChannel],
   ev |-> "None", evc |-> 0, wk |-> [w \in Slots |-> NoTask],
   woken |-> {Tx}, notify |-> FALSE, idled |-> FALSE, locked |-> FALSE,
   handles |-> {}, refs |-> [c \in Chans |-> 0],
   reads |-> [x \in Chans \X Data |-> 0], lost |-> FALSE, err |-> "ok"]

\* Op(r), with r evaluated once: a step of the code after another
Then(r, Op(_)) == CHOOSE next \in {Op(x) : x \in {r}} : TRUE

Fail(r, e) == IF r.err = "ok" THEN [r EXCEPT !.err = e] ELSE r

-----------------------------------------------------------------------------
(* Wakers.                                                                 *)

\* w.take() and wake()
Wake(r, slot) ==
  IF r.wk[slot] = NoTask THEN r
  ELSE [r EXCEPT !.woken = @ \cup {r.wk[slot]}, !.wk[slot] = NoTask]

WakeAll(r, slots) ==
  [r EXCEPT !.woken = @ \cup ({r.wk[w] : w \in slots} \ {NoTask}),
            !.wk = [w \in Slots |-> IF w \in slots THEN NoTask ELSE @[w]]]

\* Mutant: the waker that was there is forgotten
SetWakerForgetful(r, slot, t) ==
  [r EXCEPT !.woken = @ \ {t}, !.wk[slot] = t]

\* Task t waits in slot; another task that waited there is woken
SetWaker(r, slot, t) ==
  IF r.wk[slot] \in {t, NoTask} THEN [r EXCEPT !.woken = @ \ {t}, !.wk[slot] = t]
  ELSE [r EXCEPT !.woken = (@ \ {t}) \cup {r.wk[slot]}, !.wk[slot] = t]

WakeProgress(r) == [r EXCEPT !.notify = TRUE]

IsInputReady(r)    == r.closedIn \/ r.rxs = "Idle"
IsOutputPending(r) == r.out > 0

\* Runner::wake: the socket tasks, as required
WakeSockets(r) ==
  WakeAll(r, (IF IsInputReady(r) THEN {<<"input", 0>>} ELSE {})
               \cup (IF IsOutputPending(r) THEN {<<"output", 0>>} ELSE {}))

\* Channel::wake_read and wake_write: the ext stream is a client's reader and a
\* server's writer
ReadSlots(c, dt) ==
  IF dt = "Normal" THEN {<<"read", c>>}
  ELSE IF isClient THEN {<<"ext", c>>} ELSE {}
WriteSlots(c) ==
  {<<"write", c>>} \cup (IF isClient THEN {} ELSE {<<"ext", c>>})

\* Channels::wake_write
WakeWriters(r) == WakeAll(r, UNION {WriteSlots(c) : c \in Chans})

-----------------------------------------------------------------------------
(* The Runner, as far as the wrapper can tell its steps apart.             *)

HasRoom(r) == r.closedOut \/ (r.deferred = 0 /\ r.used < OutRoom)

\* A packet is put in the output buffer; after close() it is dropped
Emit(r) ==
  IF r.closedOut THEN r ELSE [r EXCEPT !.out = @ + 1, !.used = @ + 1]

\* An answer goes out, or waits in deferred_packets
Reply(r) ==
  IF HasRoom(r) THEN Emit(r)
  ELSE IF r.deferred < DeferCount THEN [r EXCEPT !.deferred = @ + 1]
  ELSE Fail(r, "BusySend")

\* A packet that cannot be deferred: the call fails with BusySend, too
Send(r) == IF HasRoom(r) THEN Emit(r) ELSE Fail(r, "NoRoom")

\* send_deferred_packets
SendDeferred(r) ==
  LET room == OutRoom - r.used
      n    == IF r.deferred < room THEN r.deferred ELSE room
  IN  IF r.closedOut THEN [r EXCEPT !.deferred = 0]
      ELSE [r EXCEPT !.deferred = @ - n, !.out = @ + n, !.used = @ + n]

\* check_send_window_adjust: an adjustment that finds no room stays owed
CheckAdjust(r, c) ==
  IF r.ch[c].owed /\ HasRoom(r) THEN [Emit(r) EXCEPT !.ch[c].owed = FALSE]
  ELSE r

\* finished_read_channel
FinishedRead(r, c) ==
  LET Adjust(x) == CheckAdjust(x, c)
  IN  Then(Then([r EXCEPT !.ch[c].owed = TRUE], Adjust), WakeSockets)

DonePayload(r) ==
  IF r.rxs = "InPayload" THEN [r EXCEPT !.rxs = "Idle", !.pkt = NoPacket]
  ELSE r

\* The data of channel c is dropped
DropData(r, c) ==
  IF r.rxs = "InChannelData" /\ r.pkt.c = c
  THEN [r EXCEPT !.rxs = "Idle", !.pkt = NoPacket, !.left = 0]
  ELSE r

\* Runner::channel_done: get_mut() finds no channel that is being opened
ChannelDone(r, c) ==
  LET Drop(x) == DropData(x, c)
  IN  IF r.ch[c].st \in {"Unused", "Opening"} THEN Fail(r, "BadChannel")
      ELSE Then(Then([r EXCEPT !.ch[c].done = TRUE], Drop), WakeSockets)

SendEof(r, c) ==
  IF r.ch[c].sentEof THEN r
  ELSE Then([r EXCEPT !.ch[c].sentEof = TRUE], Reply)

\* Mutant: readers are not told of an EOF
HandleEofSilent(r, c) ==
  [SendEof(r, c) EXCEPT !.ch[c].st = "RecvEof"]

HandleEof(r, c) ==
  LET Told(x) == [WakeAll(x, ReadSlots(c, "Normal") \cup ReadSlots(c, "Stderr"))
                    EXCEPT !.ch[c].st = "RecvEof"]
  IN  Then(SendEof(r, c), Told)

HandleClose(r, c) ==
  LET sent == IF r.ch[c].sentClose THEN r
              ELSE Then([r EXCEPT !.ch[c].sentClose = TRUE], Reply)
      Told(x) == [WakeAll(x, ReadSlots(c, "Normal") \cup ReadSlots(c, "Stderr")
                               \cup WriteSlots(c))
                    EXCEPT !.ch[c].st = "RecvClose"]
  IN  Then(sent, Told)

\* dispatch_inner: the packet of the current payload, for a channel that is
\* known, and whose payload is done with unless it is data or an event
DispatchKnown(r, p) ==
  LET c == p.c
      k == r.ch[c]
  IN  CASE p.t = "Req" ->
             IF isClient \/ ~k.done THEN r ELSE Reply(r)
        [] p.t = "Data" ->
             IF p.dt = "Stderr" /\ ~isClient /\ ~k.done
             THEN [r EXCEPT !.ch[c].owed = TRUE] ELSE r
        [] p.t = "Adjust" ->
             WakeAll([r EXCEPT !.ch[c].window = @ + 1], WriteSlots(c))
        [] p.t = "Eof"   -> HandleEof(r, c)
        [] p.t = "Close" -> HandleClose(r, c)
        [] OTHER -> r

Dispatch(r) ==
  LET p == r.pkt
      c == p.c
      k == r.ch[c]
      Known(x) == DispatchKnown(x, p)
  IN  IF p.t = "Open"
      THEN [r EXCEPT !.ch[c].st = "Opening", !.ch[c].window = Window,
                     !.ev = "Open", !.evc = c]
      ELSE IF p.t = "Confirm"
      THEN [DonePayload(r) EXCEPT !.ch[c].st = "Normal",
                                  !.ch[c].window = Window,
                                  !.ch[c].confirmed = TRUE]
      ELSE IF p.t = "Refuse"
      THEN IF k.done THEN [DonePayload(r) EXCEPT !.ch[c] = NewChannel]
           ELSE [DonePayload(r) EXCEPT !.ch[c].st = "PendingDone"]
      ELSE IF k.st \in {"Unused", "Opening"} THEN DonePayload(r)
      ELSE IF p.t = "Req" /\ ~k.done THEN [r EXCEPT !.ev = "Req", !.evc = c]
      ELSE IF p.t = "Data" /\ ~k.done /\ (p.dt = "Normal" \/ isClient)
      THEN WakeAll([r EXCEPT !.rxs = "InChannelData", !.left = DataLen],
                   ReadSlots(c, p.dt))
      ELSE Then(DonePayload(r), Known)

\* Channels::ch, by number
ChanSeq == SetToSortSeq(Chans, LAMBDA x, y : x < y)

\* Channels::progress: one channel, unless an earlier one has an event
ChannelProgress(r, c) ==
  LET a == CheckAdjust(r, c)
  IN  IF r.ev # "None" THEN r
      ELSE IF a.ch[c].confirmed
      THEN [a EXCEPT !.ch[c].confirmed = FALSE, !.ev = "Opened", !.evc = c]
      ELSE a

ChannelsProgress(r) ==
  LET Step(x, c) == Then(x, LAMBDA y : ChannelProgress(y, c))
  IN  FoldLeft(Step, r, ChanSeq)

\* Runner::progress, once the deferred packets have been seen to
HandlePayload(r) ==
  LET Rest(x) == IF x.ev = "None" THEN ChannelsProgress(x) ELSE x
      End(x)  == IF x.err = "ok" THEN WakeSockets(x) ELSE x
      disp    == IF r.rxs = "InPayload" THEN Dispatch(r) ELSE r
  IN  IF r.rxs # "InPayload" /\ r.closedIn THEN [r EXCEPT !.ev = "Defunct"]
      ELSE Then(Then(disp, Rest), End)

\* The payload of the previous event is done with.  An Opened event has none:
\* a payload that is there came in since, and nobody sees it.
RunnerProgress(r) ==
  LET prev == IF r.ev = "None" THEN r
              ELSE [DonePayload(r) EXCEPT
                      !.ev = "None",
                      !.lost = @ \/ (r.ev = "Opened" /\ r.rxs = "InPayload")]
  IN  Then(Then(prev, SendDeferred), HandlePayload)

-----------------------------------------------------------------------------
(* The mutex, the notification and the reference counts.                   *)

\* A poll of task t that finds the mutex taken
Blocked(t) == s' = SetWaker(s, <<"lock", 0>>, t)

\* The mutex is released at the end of a poll
Unlock(r) == Wake([r EXCEPT !.locked = FALSE], <<"lock", 0>>)

\* Mutant: progress() is not told
DecChanQuiet(r, c) == [r EXCEPT !.refs[c] = @ - 1]

\* One count of channel c less; progress() is told of the last one
DecChan(r, c) ==
  LET d == [r EXCEPT !.refs[c] = @ - 1]
  IN  IF d.refs[c] = 0 THEN WakeProgress(d) ELSE d

DecReadChan(r, c, dt) ==
  LET d == [r EXCEPT !.reads[c, dt] = @ - 1]
  IN  IF d.reads[c, dt] = 0 THEN WakeProgress(d) ELSE d

\* Mutant: the count is not looked at
ClearRefcountsAlways(r) ==
  LET Clear(x, c) == IF c \in x.handles
                     THEN ChannelDone([x EXCEPT !.handles = @ \ {c}], c) ELSE x
  IN  FoldLeft(Clear, r, ChanSeq)

\* Channels whose last stream is gone are given back to the Runner, up to the
\* first that fails
ClearRefcounts(r) ==
  LET Clear(x, c) == IF x.err = "ok" /\ c \in x.handles /\ x.refs[c] = 0
                     THEN ChannelDone([x EXCEPT !.handles = @ \ {c}], c) ELSE x
  IN  FoldLeft(Clear, r, ChanSeq)

\* Data that no stream is going to read is dropped
DiscardChannels(r) ==
  LET c == r.pkt.c
      Finished(x) == FinishedRead(x, c)
  IN  IF r.rxs = "InChannelData" /\ r.reads[c, r.pkt.dt] = 0
      THEN IF c \in r.handles THEN Then(DropData(r, c), Finished)
           ELSE Fail(r, "NoHandle")
      ELSE r

-----------------------------------------------------------------------------
(* The application's progress() loop.                                      *)

\* The previous guard is dropped; after an idle progress() there is a wait
ProgCall ==
  /\ pc[Prog] = "Call"
  /\ s' = [Unlock(s) EXCEPT !.idled = FALSE]
  /\ pc' = [pc EXCEPT ![Prog] = IF s.idled THEN "Wait" ELSE "Lock"]
  /\ UNCHANGED <<app, todo, peer>>

\* progress_notify.wait()
ProgWait ==
  /\ pc[Prog] = "Wait" /\ s.notify
  /\ s' = [s EXCEPT !.notify = FALSE]
  /\ pc' = [pc EXCEPT ![Prog] = "Lock"]
  /\ UNCHANGED <<app, todo, peer>>

\* Under the mutex: released channels, discarded data, Runner::progress
Progress(r) ==
  LET Discard(x) == IF x.err = "ok" THEN DiscardChannels(x) ELSE x
      Run(x)     == IF x.err = "ok" THEN RunnerProgress(x) ELSE x
      Idle(x)    == [x EXCEPT !.idled = (x.ev = "None")]
  IN  Then(Then(Then(Then([r EXCEPT !.locked = TRUE],
                          ClearRefcounts), Discard), Run), Idle)

ProgRun ==
  /\ pc[Prog] = "Lock"
  /\ \E r \in {Progress(s)} :
       /\ s' = IF r.err = "ok" /\ r.ev # "Defunct" THEN r ELSE Unlock(r)
       /\ pc' = [pc EXCEPT ![Prog] = IF r.err # "ok" THEN "Failed"
                                     ELSE IF r.ev = "Defunct" THEN "Defunct"
                                     ELSE IF r.ev = "None" THEN "Call"
                                     ELSE "Event"]
  /\ UNCHANGED <<app, todo, peer>>

\* The loop goes on after an event, unless the answer failed
Answered(r) ==
  /\ s' = r
  /\ UNCHANGED <<app, todo, peer>>

NextCall(f, r) == [f EXCEPT ![Prog] = IF r.err = "ok" THEN "Call" ELSE "Failed"]

\* ServOpenSession::accept; the handle is kept for stdio()
AcceptOpen ==
  /\ pc[Prog] = "Event" /\ s.ev = "Open"
  /\ \E r \in {Reply([DonePayload(s) EXCEPT !.ev = "None",
                                             !.ch[s.evc].st = "Normal"])} :
       /\ pc' = NextCall([pc EXCEPT ![<<"in", s.evc>>] = "Handle"], r)
       /\ Answered(r)

\* ServOpenSession::reject, also when the event is dropped
RejectOpen ==
  /\ pc[Prog] = "Event" /\ s.ev = "Open"
  /\ \E r \in {Reply([DonePayload(s) EXCEPT !.ev = "None",
                                             !.ch[s.evc] = NewChannel])} :
       /\ pc' = NextCall(pc, r)
       /\ Answered(r)

\* A server answers a request; a client looks at the exit status
AnswerRequest ==
  /\ pc[Prog] = "Event" /\ s.ev = "Req"
  /\ \E r \in {IF isClient THEN s
                ELSE Reply([DonePayload(s) EXCEPT !.ev = "None"])} :
       /\ pc' = NextCall(pc, r)
       /\ Answered(r)

\* CliSessionOpener: the command is requested and the streams are started
StartSession ==
  /\ pc[Prog] = "Event" /\ s.ev = "Opened"
  /\ \E r \in {Send(s)}, held \in {{t \in Streams : t[2] = s.evc
                                                  /\ pc[t] = "Held"}} :
       /\ pc' = NextCall([t \in Tasks |-> IF t \in held THEN "Run" ELSE pc[t]],
                         r)
       /\ Answered([r EXCEPT !.woken = @ \cup held])

-----------------------------------------------------------------------------
(* run(): the socket tasks.                                                *)

\* A packet has been read from the socket, now or before the last wait
IsRxPolled == \/ pc[Rx] = "Read" /\ peer.net # <<>>
              \/ pc[Rx] = "Input" /\ Rx \in s.woken

\* input(): the packet is taken when the Runner is ready for it, and progress()
\* is told, by input() and by run()
RxPoll ==
  /\ IsRxPolled
  /\ IF s.locked \/ ~IsInputReady(s)
     THEN /\ s' = SetWaker(s, <<IF s.locked THEN "lock" ELSE "input", 0>>, Rx)
          /\ pc' = [pc EXCEPT ![Rx] = "Input"]
          /\ UNCHANGED peer
     ELSE /\ s' = WakeProgress([s EXCEPT !.rxs = "InPayload",
                                         !.pkt = Head(peer.net),
                                         !.woken = @ \ {Rx}])
          /\ peer' = [peer EXCEPT !.net = Tail(@)]
          /\ pc' = [pc EXCEPT ![Rx] = "Read"]
  /\ UNCHANGED <<app, todo>>

\* The end of rx stops tx
RxEnds(how) == pc' = [pc EXCEPT ![Rx] = how, ![Tx] = "Stopped"]

\* close_input(), and progress() is told.  "Late": a packet is still waiting.
RxEof ==
  /\ pc[Rx] = "Read" /\ peer.net = <<>> /\ ~peer.up /\ ~s.locked
  /\ s' = WakeProgress([s EXCEPT !.closedIn = TRUE])
  /\ RxEnds(IF s.rxs = "Idle" THEN "Eof" ELSE "Late")
  /\ UNCHANGED <<app, todo, peer>>

\* A read error closes the input, a bad packet does not
RxError ==
  /\ "broken" \in app.does
  /\ pc[Rx] \in {"Read", "Input"} /\ ~s.locked
  /\ s' = IF pc[Rx] = "Read" THEN [s EXCEPT !.closedIn = TRUE]
          ELSE WakeProgress(s)
  /\ RxEnds("Broken")
  /\ UNCHANGED <<app, todo, peer>>

\* Mutant: writers are not told of the room
ConsumedQuietly(r) == WakeSockets([r EXCEPT !.out = 0, !.used = 0])

\* consume_output of all of the buffer
Consumed(r) ==
  Then(Then([r EXCEPT !.out = 0, !.used = 0], WakeWriters), WakeSockets)

\* output_loop: writes until the buffer is empty or the socket is full
TxPoll ==
  /\ pc[Tx] = "Run" /\ Tx \in s.woken
  /\ IF s.locked THEN Blocked(Tx) /\ UNCHANGED peer
     ELSE IF s.out = 0
     THEN s' = SetWaker(s, <<"output", 0>>, Tx) /\ UNCHANGED peer
     ELSE IF peer.sock + s.out <= SockRoom
     THEN /\ s' = Then(Then(Consumed(s), LAMBDA x : SetWaker(x, <<"output", 0>>, Tx)),
                    WakeProgress)
          /\ peer' = [peer EXCEPT !.sock = @ + s.out]
     ELSE /\ s' = [s EXCEPT !.out = @ - (SockRoom - peer.sock),
                            !.woken = @ \ {Tx}]
          /\ peer' = [peer EXCEPT !.sock = SockRoom, !.full = TRUE]
  /\ UNCHANGED <<app, pc, todo>>

TxError ==
  /\ "broken" \in app.does
  /\ pc[Tx] = "Run" /\ Tx \in s.woken /\ ~s.locked /\ s.out > 0
  /\ s' = WakeSockets([s EXCEPT !.closedOut = TRUE, !.out = 0, !.used = 0])
  /\ pc' = [pc EXCEPT ![Tx] = "Broken"]
  /\ UNCHANGED <<app, todo, peer>>

\* The network takes a packet; a write that was Pending is woken
SockDrain ==
  /\ peer.sock > 0
  /\ peer' = [peer EXCEPT !.sock = @ - 1, !.full = FALSE]
  /\ s' = IF peer.full THEN [s EXCEPT !.woken = @ \cup {Tx}] ELSE s
  /\ UNCHANGED <<app, pc, todo>>

-----------------------------------------------------------------------------
(* Channels and their streams.                                             *)

\* Channels::unused_chan gives out the lowest number
IsNextChan(c) ==
  /\ c \in app.chans /\ s.ch[c].st = "Unused" /\ pc[<<"in", c>>] = "Off"
  /\ \A d \in Chans : d < c => s.ch[d].st # "Unused"

\* open_client_session()
OpenSession(c) ==
  /\ isClient /\ IsNextChan(c) /\ ~s.locked /\ HasRoom(s)
  /\ s' = WakeSockets(Emit([s EXCEPT !.ch[c].st = "Opening"]))
  /\ pc' = [pc EXCEPT ![<<"in", c>>] = "Handle"]
  /\ UNCHANGED <<app, todo, peer>>

\* add_channel()
AddChannel(c) ==
  /\ c \in app.chans /\ pc[<<"in", c>>] = "Handle" /\ ~s.locked
  /\ s' = IF c \in s.handles THEN Fail(s, "Bug")
          ELSE [s EXCEPT !.handles = @ \cup {c}, !.refs[c] = 1]
  /\ pc' = [pc EXCEPT ![<<"in", c>>] = "Added"]
  /\ UNCHANGED <<app, todo, peer>>

\* The streams of a channel: stdio_stderr() or open_session_nopty(), split()
\* and a clone for until_closed().  A client that is not hasty starts them once
\* it is told that the session is open.
NewStreams(c) ==
  /\ c \in app.chans /\ pc[<<"in", c>>] = "Added"
  /\ \E all \in {{t \in Streams : t[2] = c}},
        go \in {IF s.ch[c].st = "Opening" /\ "hasty" \notin app.does
                THEN "Held" ELSE "Run"} :
       /\ s' = [s EXCEPT
                 !.refs[c] = Cardinality(all),
                 !.reads = [x \in DOMAIN @ |->
                              @[x] + Cardinality({t \in all : Reads(t)
                                                    /\ x = <<c, DtOf(t)>>})],
                 !.woken = @ \cup all]
       /\ pc' = [t \in Tasks |-> IF t \in all THEN go ELSE pc[t]]
  /\ UNCHANGED <<app, todo, peer>>

\* fetch(): a stream in use has its handle
Fetch(t, r) == IF t[2] \in s.handles THEN r ELSE Fail(s, "Bug")

\* A waker is set through by_handle_mut(), which unwraps
Wait(t, slot) ==
  /\ s' = Fetch(t, IF s.ch[t[2]].st \in {"Unused", "Opening"}
                   THEN Fail(s, "Panic") ELSE SetWaker(s, slot, t))
  /\ UNCHANGED <<pc, todo>>

\* The stream's method returns r and the task ends with it
Finish(t, r) ==
  /\ s' = Fetch(t, [r EXCEPT !.woken = @ \ {t}])
  /\ pc' = [pc EXCEPT ![t] = "Drop"]
  /\ UNCHANGED todo

Polled(t) == t \in Streams /\ pc[t] = "Run" /\ t \in s.woken

\* Any stream, while prog holds the mutex
PollBlocked(t) ==
  /\ Polled(t) /\ s.locked
  /\ Blocked(t)
  /\ UNCHANGED <<app, pc, todo, peer>>

HasDataFor(r, t) ==
  r.rxs = "InChannelData" /\ r.pkt.c = t[2] /\ r.pkt.dt = DtOf(t)

\* have_recv_eof() or closed_input
IsEof(r, c) == r.ch[c].st \in {"RecvEof", "RecvClose"} \/ r.closedIn

\* Runner::read_channel of n units
TakeData(r, t, n) ==
  IF n < r.left THEN [r EXCEPT !.left = @ - n]
  ELSE Then(DropData(r, t[2]), LAMBDA x : FinishedRead(x, t[2]))

\* poll_read_channel()
PollRead(t) ==
  /\ Polled(t) /\ Reads(t) /\ ~s.locked
  /\ \/ /\ HasDataFor(s, t)
        /\ \E n \in 1..s.left : s' = Fetch(t, Then(TakeData(s, t, n), WakeProgress))
        /\ UNCHANGED <<pc, todo>>
     \/ /\ ~HasDataFor(s, t) /\ IsEof(s, t[2])
        /\ Finish(t, WakeProgress(s))
     \/ /\ ~HasDataFor(s, t) /\ ~IsEof(s, t[2])
        /\ Wait(t, <<IF t[1] = "in" THEN "read" ELSE "ext", t[2]>>)
  /\ UNCHANGED <<app, peer>>

\* poll_write_channel()
PollWrite(t) ==
  /\ Polled(t) /\ Writes(t) /\ ~s.locked /\ todo[t] > 0
  /\ \E c \in {t[2]} :
       \/ /\ s.closedOut \/ s.ch[c].sentEof
          /\ Finish(t, WakeProgress(s))
       \/ /\ ~s.closedOut /\ ~s.ch[c].sentEof
          /\ HasRoom(s) /\ s.ch[c].window > 0
          /\ s' = Fetch(t, Then(Then(Emit([s EXCEPT !.ch[c].window = @ - 1]),
                                    WakeSockets), WakeProgress))
          /\ todo' = [todo EXCEPT ![t] = @ - 1]
          /\ UNCHANGED pc
       \/ /\ ~s.closedOut /\ ~s.ch[c].sentEof
          /\ ~(HasRoom(s) /\ s.ch[c].window > 0)
          /\ Wait(t, <<IF t[1] = "out" THEN "write" ELSE "ext", c>>)
  /\ UNCHANGED <<app, peer>>

\* poll_send_eof(), when everything has been written
PollSendEof(t) ==
  /\ Polled(t) /\ Writes(t) /\ ~s.locked /\ todo[t] = 0
  /\ Finish(t, IF s.closedOut \/ t[1] = "ext" THEN s
               ELSE Then(Then(SendEof(s, t[2]), WakeSockets), WakeProgress))
  /\ UNCHANGED <<app, peer>>

\* poll_until_channel_closed()
PollClosed(t) ==
  /\ Polled(t) /\ t[1] = "shut" /\ ~s.locked
  /\ IF s.ch[t[2]].st = "RecvClose" \/ s.closedIn THEN Finish(t, s)
     ELSE Wait(t, <<"read", t[2]>>)
  /\ UNCHANGED <<app, peer>>

\* poll_term_window_change(): neither rx, tx nor prog is woken
TermWindowChange(t) ==
  /\ "winch" \in app.does /\ isClient
  /\ t \in Streams /\ t[1] = "shut" /\ pc[t] = "Run" /\ todo[t] > 0
  /\ ~s.locked /\ HasRoom(s)
  /\ s' = Fetch(t, Emit(s))
  /\ todo' = [todo EXCEPT ![t] = @ - 1]
  /\ UNCHANGED <<app, pc, peer>>

\* The application drops a reader it is no longer interested in, also before
\* the session is open
Cancel(t) ==
  /\ "drop" \in app.does /\ t \in Streams /\ Reads(t)
  /\ pc[t] \in {"Held", "Run"}
  /\ pc' = [pc EXCEPT ![t] = "Drop"]
  /\ UNCHANGED <<app, s, todo, peer>>

\* ChanIn::drop() runs before the drop() of the ChanIO inside it
DropReader(t) ==
  /\ t \in Streams /\ pc[t] = "Drop" /\ Reads(t)
  /\ s' = DecReadChan(s, t[2], DtOf(t))
  /\ pc' = [pc EXCEPT ![t] = "Half"]
  /\ UNCHANGED <<app, todo, peer>>

\* ChanIO::drop()
DropStream(t) ==
  /\ t \in Streams /\ pc[t] = (IF Reads(t) THEN "Half" ELSE "Drop")
  /\ s' = DecChan(s, t[2])
  /\ pc' = [pc EXCEPT ![t] = "Gone"]
  /\ UNCHANGED <<app, todo, peer>>

-----------------------------------------------------------------------------
(* The peer.  It speaks on a channel as soon as it knows that the channel  *)
(* is open, whatever the application has done with it by then.  It sends   *)
(* stderr data to a client that asked for it.                              *)

PeerState ==
  [net: Seq(Packet), up: BOOLEAN,
   sock: 0..SockRoom, full: BOOLEAN,   \* the socket tx writes to
   asked: [Chans -> BOOLEAN],          \* opened or confirmed the channel
   data: [Chans -> 0..app.data], req: [Chans -> 0..app.req],
   adj: [Chans -> Nat],
   said: [Chans -> {"Wait", "Data", "Eof", "Close"}]]

PeerSend(p, f) ==
  /\ peer.up /\ Len(peer.net) < NetRoom
  /\ peer' = [f EXCEPT !.net = Append(@, p)]
  /\ UNCHANGED <<app, s, pc, todo>>

Pkt(t, c, dt) == [t |-> t, c |-> c, dt |-> dt]

\* A server's peer opens a channel
PeerOpen(c) ==
  /\ ~isClient /\ ~peer.asked[c] /\ IsNextChan(c)
  /\ \A d \in Chans : d < c => peer.asked[d]
  /\ PeerSend(Pkt("Open", c, "Normal"), [peer EXCEPT !.asked[c] = TRUE])

\* It has the confirmation
PeerOpened(c) ==
  /\ ~isClient /\ peer.said[c] = "Wait"
  /\ s.ch[c].st = "Normal" /\ s.out = 0 /\ s.deferred = 0 /\ peer.sock = 0
  /\ peer' = [peer EXCEPT !.said[c] = "Data"]
  /\ UNCHANGED <<app, s, pc, todo>>

\* A client's peer answers an open
PeerAnswer(c) ==
  /\ isClient /\ c \in app.chans /\ ~peer.asked[c]
  /\ s.ch[c].st = "Opening" /\ s.out = 0
  /\ \/ PeerSend(Pkt("Confirm", c, "Normal"),
                  [peer EXCEPT !.asked[c] = TRUE, !.said[c] = "Data"])
     \/ /\ "refuse" \in app.does
        /\ PeerSend(Pkt("Refuse", c, "Normal"), [peer EXCEPT !.asked[c] = TRUE])

PeerData(c, dt) ==
  /\ peer.said[c] = "Data" /\ peer.data[c] < app.data
  /\ dt = "Normal" \/ "ext" \in app.roles \/ ~isClient
  /\ PeerSend(Pkt("Data", c, dt), [peer EXCEPT !.data[c] = @ + 1])

PeerRequest(c) ==
  /\ peer.said[c] \in {"Data", "Eof"} /\ peer.req[c] < app.req
  /\ PeerSend(Pkt("Req", c, "Normal"), [peer EXCEPT !.req[c] = @ + 1])

\* One slot of the window is given back for each data packet
PeerAdjust(c) ==
  /\ peer.said[c] \in {"Data", "Eof"}
  /\ \E t \in Streams : t[2] = c /\ Writes(t) /\ todo[t] + peer.adj[c] < app.writes
  /\ PeerSend(Pkt("Adjust", c, "Normal"), [peer EXCEPT !.adj[c] = @ + 1])

PeerEof(c) ==
  /\ peer.said[c] = "Data"
  /\ PeerSend(Pkt("Eof", c, "Normal"), [peer EXCEPT !.said[c] = "Eof"])

PeerClose(c) ==
  /\ "close" \in app.does /\ peer.said[c] \in {"Data", "Eof"}
  /\ PeerSend(Pkt("Close", c, "Normal"), [peer EXCEPT !.said[c] = "Close"])

PeerHangup ==
  /\ "hangup" \in app.does /\ peer.up
  /\ peer' = [peer EXCEPT !.up = FALSE]
  /\ UNCHANGED <<app, s, pc, todo>>

-----------------------------------------------------------------------------

Init ==
  /\ app \in Apps
  /\ s = NewState
  /\ pc = [t \in Tasks |-> IF t = Prog THEN "Call" ELSE IF t = Rx THEN "Read"
                           ELSE IF t = Tx THEN "Run" ELSE "Off"]
  /\ todo = [t \in Streams |-> IF Writes(t) THEN app.writes
                               ELSE IF t[1] = "shut" /\ "winch" \in app.does
                               THEN 1 ELSE 0]
  /\ peer = [net |-> <<>>, up |-> TRUE, sock |-> 0, full |-> FALSE,
             asked |-> [c \in Chans |-> FALSE],
             data |-> [c \in Chans |-> 0],
             req |-> [c \in Chans |-> 0], adj |-> [c \in Chans |-> 0],
             said |-> [c \in Chans |-> "Wait"]]

Stream(t) ==
  \/ PollBlocked(t) \/ PollRead(t) \/ PollWrite(t)
  \/ PollSendEof(t) \/ PollClosed(t)
  \/ DropReader(t) \/ DropStream(t)

ProgStep == \/ ProgCall \/ ProgWait \/ ProgRun
            \/ AcceptOpen \/ RejectOpen \/ AnswerRequest \/ StartSession

RxStep == RxPoll \/ RxEof

Next ==
  \/ ProgStep \/ RxStep \/ RxError \/ TxPoll \/ TxError \/ SockDrain
  \/ \E t \in Streams : Stream(t) \/ TermWindowChange(t) \/ Cancel(t)
  \/ \E c \in Chans :
       \/ OpenSession(c) \/ AddChannel(c) \/ NewStreams(c)
       \/ PeerOpen(c) \/ PeerOpened(c) \/ PeerAnswer(c)
       \/ PeerRequest(c) \/ PeerAdjust(c)
       \/ PeerEof(c) \/ PeerClose(c)
       \/ \E dt \in Data : PeerData(c, dt)
  \/ PeerHangup

Spec == Init /\ [][Next]_vars

\* An executor polls every task that has been woken, the network moves, and
\* a peer gives back window; what else the peer and the application start is
\* up to them.
Fairness ==
  /\ WF_vars(ProgStep) /\ WF_vars(RxStep) /\ WF_vars(TxPoll)
  /\ WF_vars(SockDrain)
  /\ \A t \in {"in", "out", "ext", "shut"} \X Chans : WF_vars(Stream(t))
  /\ \A c \in Chans : WF_vars(AddChannel(c) \/ NewStreams(c))
                      /\ WF_vars(PeerAdjust(c))

FairSpec == Spec /\ Fairness

-----------------------------------------------------------------------------
(* Properties.                                                             *)

\* The connection is over, or one of its tasks has stopped with an error
Ended == \/ s.err # "ok" \/ pc[Prog] \in {"Defunct", "Failed"}
         \/ pc[Rx] \in {"Eof", "Late", "Broken"} \/ pc[Tx] = "Broken"

\* A stream that has not been dropped
Live(t) == t \in Streams /\ pc[t] \in {"Held", "Run", "Drop", "Half"}

\* The types of the wrapper's state, with the capacities of the buffers and of
\* the queue of deferred packets.
TypeOK ==
  /\ app \in Apps
  /\ s \in State
  /\ pc \in [Tasks -> {"Off", "Handle", "Added", "Held", "Run", "Drop", "Half",
                       "Gone", "Call", "Wait", "Lock", "Event", "Defunct",
                       "Failed", "Read", "Input", "Eof", "Late", "Broken",
                       "Stopped"}]
  /\ todo \in [Streams -> Nat]
  /\ peer \in PeerState

\* As long as a stream of a channel exists, clear_refcounts() has not given the
\* channel back: fetch() finds the handle and the channel is not done.  The
\* errors that the code takes for impossible have four causes and no other:
\*   - discard_channels() traps on a missing handle only for data that came
\*     between open or accept() and the add_channel() of the handle;
\*   - channel_done() fails in clear_refcounts() only for a client's channel
\*     whose streams were all dropped before the open was answered;
\*   - a waker is set on a channel that is not open, where by_handle_mut()
\*     panics, only by a client that does not wait for the session to be open;
\*   - the command of an Opened event fails when the output buffer is full, as
\*     it may be when another session is opened meanwhile.
\* An answer never finds deferred_packets full.
Usable ==
  /\ TypeOK
  /\ s.err \in {"ok", "NoHandle", "BadChannel", "Panic", "NoRoom"}
  /\ s.err = "NoRoom" => isClient /\ Cardinality(app.chans) > 1
  /\ s.err = "Panic" => isClient /\ "hasty" \in app.does
  /\ pc[Prog] = "Lock" /\ s.err = "ok" =>
       LET e == Progress(s).err
       IN  /\ e = "NoHandle" => pc[<<"in", s.pkt.c>>] = "Handle"
           /\ e = "BadChannel" =>
                isClient /\ \E c \in s.handles : /\ s.ch[c].st = "Opening"
                                                /\ ~\E t \in Streams :
                                                      t[2] = c /\ Live(t)
  /\ \A t \in Streams : Live(t) => t[2] \in s.handles /\ ~s.ch[t[2]].done

\* Channel data that has no reader
IsUnread == s.rxs = "InChannelData" /\ s.reads[s.pkt.c, s.pkt.dt] = 0

\* The peer and the application start a bounded number of things, so each of
\* the following must come true again and again, and in the end for good.

\* Input moves: rx does not stay in input(), and every packet taken from the
\* socket is finished with: handled, answered by the application, or read to
\* its end by a stream.  Data that arrives after its reader was dropped is
\* excepted: progress() only discards it when something else wakes it.
\* Output moves: what is in the output buffer is written, answers that were
\* deferred and window adjustments that found no room are sent.  A packet of
\* term_window_change() is not among them: nothing is woken for it.
PacketsMove ==
  /\ []<>((s.rxs = "Idle" /\ pc[Rx] # "Input") \/ IsUnread \/ Ended)
  /\ []<>(\/ s.out = 0 /\ s.deferred = 0 /\ \A c \in Chans : ~s.ch[c].owed
          \/ "winch" \in app.does \/ Ended)

\* A writer that waits, for room in the output buffer, for deferred packets to
\* leave, or for window, is woken and finishes, unless the channel is closed.
\* Excepted is a connection on which Runner::progress() dropped a packet that
\* came after an Opened event: it may have been the window adjustment.
WritersFinish ==
  []<>(\/ \A t \in Streams :
            Writes(t) /\ s.ch[t[2]].st # "RecvClose" => pc[t] # "Run"
       \/ s.lost \/ Ended)

\* After the peer's EOF readers are woken and see it, and after its CLOSE
\* until_closed() returns.  The end of the connection is reported to the
\* application as Defunct, when no packet was waiting to be handled then.
EndSeen ==
  /\ []<>(\/ \A t \in Streams : pc[t] = "Run" =>
               /\ Reads(t) => ~IsEof(s, t[2])
               /\ t[1] = "shut" => s.ch[t[2]].st # "RecvClose"
          \/ Ended)
  /\ []<>(pc[Rx] = "Eof" => pc[Prog] \in {"Defunct", "Failed"})

\* When the last stream of a channel is dropped, also while progress() is
\* waiting or running, the channel is given back with channel_done(), which
\* fails if the open is not answered yet.
Released == []<>((\A c \in s.handles : s.refs[c] > 0) \/ Ended)

\* The end of the connection is reported in any case: Runner::progress() gives
\* Defunct when "all incoming packets have been consumed, and we're closed for
\* input".
HangupSeen == pc[Rx] \in {"Eof", "Late"} ~> pc[Prog] \in {"Defunct", "Failed"}
=============================================================================
