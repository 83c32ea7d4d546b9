------------------------------ MODULE Channels ------------------------------
(***************************************************************************)
(* The channel layer (channel.rs) of a client and a server, with the       *)
(* Runner methods an application uses on a channel (runner.rs) and the     *)
(* packet of channel data that TrafIn holds until it is read (traffic.rs). *)
(*                                                                         *)
(* The transport is reduced to what the channel layer can see of it:       *)
(* packets arrive in the order they were sent, and while the transport is  *)
(* busy (key exchange, drain, a full output buffer) a send is deferred or  *)
(* fails with BusySend.  Module Transport shows that the transport behaves *)
(* so.                                                                     *)
(*                                                                         *)
(* An end is a record, and every method an operator from ends to ends.     *)
(* Data is a number of bytes.  The fields id, at, packets and log are      *)
(* auxiliary: they remember which conversation a channel or a packet       *)
(* belongs to and what became of it; no step depends on them but for the   *)
(* bounds.  With them every conversation is seen to implement two of the   *)
(* streams of module ByteStreams.                                          *)
(***************************************************************************)
EXTENDS Naturals, Sequences, FiniteSetsExt

CONSTANTS
  MaxChannels,  \* MAX_CHANNELS
  Window,       \* DEFAULT_WINDOW
  MaxPacket,    \* DEFAULT_MAX_PACKET
  Overhead,     \* SSH_PAYLOAD_START + DATA_OFFSET, ahead of data in TrafIn
  DeferCount,   \* DEFER_COUNT
  Foreign,      \* ends that are another implementation, which may close
  Reuses,       \* those give the number of a closed channel to a new one
  MaxOpen,      \* bound: channels the client opens
  MaxBytes,     \* bound: MaxBytes[e], bytes e writes to a channel
  MaxBusy       \* bound: MaxBusy[e], times the transport of e becomes busy

Ends == {"client", "server"}

ASSUME ChannelsAssumption ==
  /\ MaxChannels \in Nat \ {0} /\ Window \in Nat \ {0}
  /\ MaxPacket \in Nat \ {0} /\ Overhead \in Nat
  /\ DeferCount \in Nat \ {0}
  /\ Foreign \subseteq Ends /\ Reuses \in BOOLEAN
  /\ MaxOpen \in Nat
  /\ MaxBytes \in [Ends -> Nat] /\ MaxBusy \in [Ends -> Nat]

VARIABLE end    \* end[e]: the channel layer of e

vars == end

Peer(e) == IF e = "client" THEN "server" ELSE "client"

Slots == 1 .. MaxChannels

\* conversations, numbered in the order the client opens them
Ids == 1 .. MaxOpen

-----------------------------------------------------------------------------
(* State.                                                                  *)

\* an unused slot is None in the code, here a channel in state "Free"
ChanStates == {"Free", "InOpen", "Opening", "Normal", "RecvEof", "RecvClose",
               "PendingDone"}

\* num = 0: Channel::send is None
Channel == [state: ChanStates, num: 0 .. MaxChannels, window: Nat,
            pending: Nat, sentEof: BOOLEAN, sentClose: BOOLEAN,
            confirmed: BOOLEAN, done: BOOLEAN,
            id: Nat, packets: Nat]

NewChannel == [state |-> "Opening", num |-> 0, window |-> 0, pending |-> 0,
               sentEof |-> FALSE, sentClose |-> FALSE, confirmed |-> FALSE,
               done |-> FALSE, id |-> 0, packets |-> 0]

NoChannel == [NewChannel EXCEPT !.state = "Free"]

PacketTypes == {"Open", "Confirm", "Refuse", "Adjust", "Data", "Eof", "Close",
                "Request"}

\* DeferredPacket
Deferrable == {"Confirm", "Refuse", "Eof", "Close"}

\* num: the receiver's channel, from: the sender's; len: bytes or adjustment;
\* at: bytes that were written to the channel before
Packet == [t: PacketTypes, num: 0 .. MaxChannels, from: 0 .. MaxChannels,
           len: Nat, id: Nat, at: Nat]

\* TrafIn's InChannelData, num = 0 when there is none
DataIn == [num: 0 .. MaxChannels, len: Nat, left: Nat]
NoData == [num |-> 0, len |-> 0, left |-> 0]

\* an event the application has yet to answer
ServEvent == [k: {"None", "OpenSession", "Session"}, num: 0 .. MaxChannels]
NoEvent == [k |-> "None", num |-> 0]

\* what an end has done in a conversation: bytes written and read; EOF, or the
\* foreign close that takes its place, sent; EOF seen while reading; reading
\* given up
Log == [wrote: Nat, got: Nat, ended: BOOLEAN, eof: BOOLEAN, left: BOOLEAN]

NewLog == [wrote |-> 0, got |-> 0, ended |-> FALSE, eof |-> FALSE,
           left |-> FALSE]

Errors == {"ok", "BusySend", "SSHProto", "Bug"}

\* out: packets sent and not yet handled by the peer, the last `deferred' of
\* them still in TrafOut::deferred_packets
EndState == [ch: [Slots -> Channel], rx: DataIn, ev: ServEvent,
             busy: BOOLEAN, deferred: 0 .. DeferCount, handles: SUBSET Slots,
             err: Errors, out: Seq(Packet), nOpen: Nat, nBusy: Nat,
             log: [Ids -> Log]]

New == [ch |-> [n \in Slots |-> NoChannel], rx |-> NoData, ev |-> NoEvent,
        busy |-> FALSE, deferred |-> 0, handles |-> {}, err |-> "ok",
        out |-> <<>>, nOpen |-> 0, nBusy |-> 0, log |-> [i \in Ids |-> NewLog]]

\* get_any() and get(): the numbers that do not give BadChannel
InUse(s, n) == n \in Slots /\ s.ch[n].state # "Free"
Usable(s, n) == InUse(s, n) /\ s.ch[n].state \notin {"InOpen", "Opening"}

\* the first of a set of slots, if it has one
FirstOf(S) == {n \in S : \A m \in 1 .. n - 1 : m \notin S}

\* unused_chan()
Unused(s) == FirstOf({n \in Slots : s.ch[n].state = "Free"})

-----------------------------------------------------------------------------
(* Sending.                                                                *)

\* a packet to the other end of channel n
To(s, n, t, len) == [t |-> t, num |-> s.ch[n].num, from |-> n, len |-> len,
                     id |-> s.ch[n].id, at |-> s.log[s.ch[n].id].wrote]

Sendable(s, t) ==
  ~ s.busy \/ (t \in Deferrable /\ s.deferred < DeferCount)

\* s.send(p)?, in a handler whose error ends the session
Send(s, p) ==
  IF Sendable(s, p.t)
    THEN [s EXCEPT !.out = Append(@, p),
                   !.deferred = IF s.busy THEN @ + 1 ELSE @]
    ELSE [s EXCEPT !.err = "BusySend"]

Fail(s, e) == [s EXCEPT !.err = e]

AdjustDue(s, n) ==
  s.ch[n].num # 0 /\ s.ch[n].pending > Window \div 2

\* mutant: an adjustment refused with BusySend is forgotten
CheckSendWindowAdjustForgets(s, n) ==
  LET cleared == [s EXCEPT !.ch[n].pending = 0] IN
  IF ~ AdjustDue(s, n) THEN s
  ELSE IF Sendable(s, "Adjust")
    THEN Send(cleared, To(s, n, "Adjust", s.ch[n].pending))
    ELSE cleared

CheckSendWindowAdjust(s, n) ==
  IF AdjustDue(s, n) /\ Sendable(s, "Adjust")
    THEN [Send(s, To(s, n, "Adjust", s.ch[n].pending))
            EXCEPT !.ch[n].pending = 0]
    ELSE s

FinishedInput(s, n, len) == [s EXCEPT !.ch[n].pending = @ + len]

FinishedRead(s, n, len) ==
  CheckSendWindowAdjust(FinishedInput(s, n, len), n)

SendEof(s, n) ==
  IF s.ch[n].sentEof THEN s
  ELSE IF s.ch[n].num = 0 THEN Fail(s, "Bug")
  ELSE LET r == Send(s, To(s, n, "Eof", 0)) IN
       IF r.err = "ok" THEN [r EXCEPT !.ch[n].sentEof = TRUE,
                                      !.log[s.ch[n].id].ended = TRUE]
       ELSE r

-----------------------------------------------------------------------------
(* Channels::dispatch, packet by packet.                                   *)

DispatchOpen(s, e, p) ==
  IF e = "client" THEN Fail(s, "SSHProto")
  ELSE IF Unused(s) = {}
    THEN Send(s, [t |-> "Refuse", num |-> p.from, from |-> 0, len |-> 0,
                  id |-> p.id, at |-> 0])
  ELSE LET n == CHOOSE m \in Unused(s) : TRUE IN
       [s EXCEPT !.ch[n] = [NewChannel EXCEPT !.state = "InOpen",
                              !.num = p.from, !.window = p.len, !.id = p.id],
                 !.ev = [k |-> "OpenSession", num |-> n]]

DispatchOpenConfirmation(s, p) ==
  IF ~ InUse(s, p.num) THEN s
  ELSE IF s.ch[p.num].state # "Opening" THEN Fail(s, "SSHProto")
  ELSE IF s.ch[p.num].done THEN s
  ELSE [s EXCEPT !.ch[p.num] = [@ EXCEPT !.num = p.from, !.window = p.len,
                                  !.confirmed = TRUE, !.state = "Normal"]]

\* with Channels::remove
DispatchOpenFailure(s, p) ==
  IF ~ InUse(s, p.num) THEN s
  ELSE IF s.ch[p.num].num # 0 THEN Fail(s, "SSHProto")
  ELSE IF s.ch[p.num].done THEN [s EXCEPT !.ch[p.num] = NoChannel]
  ELSE [s EXCEPT !.ch[p.num].state = "PendingDone"]

DispatchWindowAdjust(s, p) ==
  IF ~ Usable(s, p.num) THEN s
  ELSE IF s.ch[p.num].num = 0 THEN Fail(s, "Bug")
  ELSE [s EXCEPT !.ch[p.num].window = @ + p.len]

\* with Runner's set_read_channel_data; data of a done channel is dropped
DispatchData(s, p) ==
  IF ~ Usable(s, p.num) \/ s.ch[p.num].done \/ p.len = 0 THEN s
  ELSE [s EXCEPT !.rx = [num |-> p.num, len |-> p.len, left |-> p.len]]

\* the reader of channel n, if there still is one, is told of the end
Told(s, n) ==
  [s EXCEPT !.log[s.ch[n].id].eof = @ \/ ~ s.log[s.ch[n].id].left]

HandleEof(s, n) ==
  LET r == SendEof(s, n) IN
  IF r.err = "ok" THEN Told([r EXCEPT !.ch[n].state = "RecvEof"], n) ELSE r

\* mutant: a channel at EOF is taken to be closed already
HandleCloseAtEof(s, n) ==
  LET r == IF s.ch[n].sentClose \/ s.ch[n].sentEof THEN s
           ELSE IF s.ch[n].num = 0 THEN Fail(s, "Bug")
           ELSE Send(s, To(s, n, "Close", 0))
  IN IF r.err = "ok" THEN [r EXCEPT !.ch[n].state = "RecvClose"] ELSE r

HandleClose(s, n) ==
  LET r == IF s.ch[n].sentClose THEN s
           ELSE IF s.ch[n].num = 0 THEN Fail(s, "Bug")
           ELSE Send(s, To(s, n, "Close", 0))
  IN IF r.err = "ok"
       THEN Told([r EXCEPT !.ch[n].sentClose = TRUE,
                           !.ch[n].state = "RecvClose"], n)
       ELSE r

\* another implementation frees a channel that both ends have closed
Forget(s, e, n) ==
  IF s.err = "ok" /\ s.ch[n].state = "RecvClose" /\ e \in Foreign /\ Reuses
    THEN [s EXCEPT !.ch[n] = [@ EXCEPT !.state = "Free", !.pending = 0,
                                       !.confirmed = FALSE],
                   !.handles = @ \ {n}]
    ELSE s

\* requests do not ask for a reply (Req::send); a client ignores them
DispatchRequest(s, e, p) ==
  IF ~ Usable(s, p.num) \/ s.ch[p.num].done \/ e = "client" THEN s
  ELSE [s EXCEPT !.ev = [k |-> "Session", num |-> p.num]]

Dispatch(s, e, p) ==
  CASE p.t = "Open"    -> DispatchOpen(s, e, p)
    [] p.t = "Confirm" -> DispatchOpenConfirmation(s, p)
    [] p.t = "Refuse"  -> DispatchOpenFailure(s, p)
    [] p.t = "Adjust"  -> DispatchWindowAdjust(s, p)
    [] p.t = "Data"    -> DispatchData(s, p)
    [] p.t = "Eof"     -> IF Usable(s, p.num) THEN HandleEof(s, p.num) ELSE s
    [] p.t = "Close"   -> IF Usable(s, p.num)
                            THEN Forget(HandleClose(s, p.num), e, p.num)
                            ELSE s
    [] p.t = "Request" -> DispatchRequest(s, e, p)

-----------------------------------------------------------------------------
(* Steps.  An end that has failed takes no more.                           *)

Put(e, s) == end' = [end EXCEPT ![e] = s]

Alive(e) == end[e].err = "ok"

\* open_client_session(): the slot is taken before the packet is sent
OpenSession(e) ==
  LET s == end[e]
      n == CHOOSE m \in Unused(s) : TRUE
      new == [NewChannel EXCEPT !.id = s.nOpen + 1]
      p == [t |-> "Open", num |-> 0, from |-> n, len |-> Window,
            id |-> s.nOpen + 1, at |-> 0]
  IN /\ Alive(e) /\ e = "client" /\ s.nOpen < MaxOpen /\ Unused(s) # {}
     /\ Put(e, [(IF Sendable(s, "Open")
                   THEN [Send(s, p) EXCEPT !.handles = @ \cup {n}]
                   ELSE s)
                EXCEPT !.ch[n] = new, !.nOpen = @ + 1])

\* a packet is handled once TrafIn is done with the one before it
Receive(e) ==
  LET s == end[e]
      q == end[Peer(e)]
  IN /\ Alive(e) /\ s.rx = NoData /\ s.ev = NoEvent
     /\ Len(q.out) > q.deferred
     /\ end' = [end EXCEPT ![e] = Dispatch(s, e, Head(q.out)),
                           ![Peer(e)].out = Tail(@)]

\* resume_chanopen() with resume_open() and open_done()
ResumeOpen(e, accept) ==
  LET s == [end[e] EXCEPT !.ev = NoEvent]
      n == end[e].ev.num
      ok == [To(s, n, "Confirm", Window) EXCEPT !.from = n]
      no == [To(s, n, "Refuse", 0) EXCEPT !.from = 0]
  IN /\ Alive(e) /\ end[e].ev.k = "OpenSession"
     /\ Put(e, IF accept
                 THEN Send([s EXCEPT !.ch[n].state = "Normal",
                                     !.handles = @ \cup {n}], ok)
                 ELSE Send([s EXCEPT !.ch[n] = NoChannel], no))

\* resume_chanreq(): no reply was asked for
ResumeRequest(e) ==
  /\ Alive(e) /\ end[e].ev.k = "Session"
  /\ Put(e, [end[e] EXCEPT !.ev = NoEvent])

\* mutant: only new channels are reported, adjustments are not retried
ProgressNoRetry(e) ==
  LET s == end[e]
      fresh == FirstOf({n \in Slots : s.ch[n].confirmed})
      n == CHOOSE m \in fresh : TRUE
  IN /\ Alive(e) /\ ~ s.busy /\ fresh # {}
     /\ Put(e, [Send(s, To(s, n, "Request", 0))
                  EXCEPT !.ch[n].confirmed = FALSE])

\* the members of a set of channels, one after the other
InTurn(S) ==
  {q \in UNION {[1 .. k -> S] : k \in 0 .. MaxChannels} :
     /\ \A n \in S : \E i \in DOMAIN q : q[i] = n
     /\ \A i, j \in DOMAIN q : i < j => q[i] < q[j]}

\* Channels::progress: the adjustments due, up to a channel just confirmed.
\* The application answers SessionOpened with its command (CliSessionOpener).
\* When the output buffer is full the event is emitted all the same, once: the
\* command is refused with BusySend, the adjustments wait.
Progress(e) ==
  LET s == end[e]
      fresh == FirstOf({n \in Slots : s.ch[n].confirmed})
      last == IF fresh = {} THEN MaxChannels
              ELSE CHOOSE n \in fresh : TRUE
      due == {n \in 1 .. last : ~ s.busy /\ AdjustDue(s, n)}
  IN /\ Alive(e) /\ due \cup fresh # {}
     /\ \E inTurn \in InTurn(due) :
        Put(e, [s EXCEPT
          !.out = @ \o [i \in 1 .. Len(inTurn) |->
                     To(s, inTurn[i], "Adjust", s.ch[inTurn[i]].pending)]
                   \o IF fresh = {} \/ s.busy THEN <<>>
                      ELSE <<To(s, last, "Request", 0)>>,
          !.ch = [n \in Slots |->
                    [s.ch[n] EXCEPT !.pending = IF n \in due THEN 0 ELSE @,
                                    !.confirmed = @ /\ n # last]]])

\* mutant: writes are accepted after EOF
WriteAfterEof(e, n, k) ==
  LET s == end[e] IN
  /\ Alive(e) /\ n \in s.handles /\ Usable(s, n)
  /\ ~ s.busy /\ s.deferred = 0
  /\ s.ch[n].num # 0 /\ k <= s.ch[n].window /\ k <= MaxPacket
  /\ s.log[s.ch[n].id].wrote + k <= MaxBytes[e]
  /\ Put(e, [Send(s, To(s, n, "Data", k))
               EXCEPT !.ch[n].window = @ - k,
                      !.log[s.ch[n].id].wrote = @ + k])

\* write_channel(), for a write of k bytes that is not refused or pending
Write(e, n, k) ==
  LET s == end[e] IN
  /\ Alive(e) /\ n \in s.handles /\ Usable(s, n)
  /\ ~ s.ch[n].sentEof
  /\ ~ s.busy /\ s.deferred = 0
  /\ s.ch[n].num # 0 /\ k <= s.ch[n].window /\ k <= MaxPacket
  /\ s.log[s.ch[n].id].wrote + k <= MaxBytes[e]
  /\ Put(e, [Send(s, To(s, n, "Data", k))
               EXCEPT !.ch[n].window = @ - k,
                      !.log[s.ch[n].id].wrote = @ + k])

\* read_channel() of k bytes; the last byte completes the packet, as
\* discard_read_channel() does with all that is left
Read(e, n, k) ==
  LET s == end[e]
      r == [s EXCEPT !.rx.left = @ - k, !.log[s.ch[n].id].got = @ + k]
      done == [r EXCEPT !.rx = NoData, !.ch[n].packets = @ + 1]
  IN /\ Alive(e) /\ n \in s.handles /\ s.rx.num = n /\ k <= s.rx.left
     /\ Put(e, IF k < s.rx.left THEN r
               ELSE FinishedRead(done, n, Overhead + s.rx.len))

\* send_channel_eof()
SendChannelEof(e, n) ==
  LET s == end[e] IN
  /\ Alive(e) /\ n \in s.handles /\ Usable(s, n) /\ s.ch[n].num # 0
  /\ ~ s.ch[n].sentEof /\ Sendable(s, "Eof")
  /\ Put(e, SendEof(s, n))

\* mutant: the slot is free as soon as the application is done
ChannelDoneFrees(e, n) ==
  LET s == [end[e] EXCEPT !.handles = @ \ {n}] IN
  /\ Alive(e) /\ n \in end[e].handles
  /\ Put(e, IF ~ Usable(s, n) THEN s
            ELSE [s EXCEPT !.ch[n] = NoChannel,
                           !.rx = IF s.rx.num = n THEN NoData ELSE @])

\* channel_done(): the handle is given up even when it fails
ChannelDone(e, n) ==
  LET s == [end[e] EXCEPT !.handles = @ \ {n}] IN
  /\ Alive(e) /\ n \in end[e].handles
  /\ Put(e, IF ~ Usable(s, n) THEN s
            ELSE [s EXCEPT !.ch[n].done = TRUE,
                           !.log[s.ch[n].id].left = TRUE,
                           !.rx = IF s.rx.num = n THEN NoData ELSE @])

\* EnterBusy, LeaveBusy: the transport stops and resumes taking packets
EnterBusy(e) ==
  /\ Alive(e) /\ ~ end[e].busy /\ end[e].nBusy < MaxBusy[e]
  /\ Put(e, [end[e] EXCEPT !.busy = TRUE, !.nBusy = @ + 1])

LeaveBusy(e) ==
  /\ Alive(e) /\ end[e].busy
  /\ Put(e, [end[e] EXCEPT !.busy = FALSE, !.deferred = 0])

\* another implementation closes a channel, after which it sends no data and
\* no EOF and reads nothing
ForeignClose(e, n) ==
  LET s == end[e] IN
  /\ Alive(e) /\ e \in Foreign /\ n \in s.handles /\ Usable(s, n)
  /\ s.ch[n].num # 0 /\ ~ s.ch[n].sentClose /\ Sendable(s, "Close")
  /\ Put(e, [Send(s, To(s, n, "Close", 0))
               EXCEPT !.ch[n] = [@ EXCEPT !.sentClose = TRUE,
                                          !.sentEof = TRUE, !.done = TRUE],
                      !.handles = @ \ {n},
                      !.rx = IF @.num = n THEN NoData ELSE @,
                      !.log[s.ch[n].id] = [@ EXCEPT !.ended = TRUE,
                                                    !.left = TRUE]])

Init == end = [e \in Ends |-> New]

Next ==
  \E e \in Ends :
    \/ OpenSession(e)
    \/ Receive(e)
    \/ \E accept \in BOOLEAN : ResumeOpen(e, accept)
    \/ ResumeRequest(e)
    \/ Progress(e)
    \/ EnterBusy(e)
    \/ LeaveBusy(e)
    \/ \E n \in Slots :
         \/ \E k \in 1 .. MaxPacket : Write(e, n, k) \/ Read(e, n, k)
         \/ SendChannelEof(e, n)
         \/ ChannelDone(e, n)
         \/ ForeignClose(e, n)

Spec == Init /\ [][Next]_vars

\* progress() is called until it idles, events are answered, data is read and
\* a key exchange ends
Fairness ==
  \A e \in Ends :
    /\ WF_vars(Receive(e))
    /\ WF_vars(\E accept \in BOOLEAN : ResumeOpen(e, accept))
    /\ WF_vars(ResumeRequest(e))
    /\ WF_vars(Progress(e))
    /\ WF_vars(LeaveBusy(e))
    /\ WF_vars(\E n \in Slots, k \in 1 .. MaxPacket : Read(e, n, k))

FairSpec == Spec /\ Fairness

-----------------------------------------------------------------------------
(* Properties.                                                             *)

\* Every field of both ends keeps its type.  A number or a length that left
\* its range (channel.rs ChanDir, DeferredPacket queue) would break it.
TypeOK == end \in [Ends -> EndState]

\* The channel of the peer that channel n of e is connected to
Mate(e, n) == end[Peer(e)].ch[end[e].ch[n].num]

Paired(e, n) ==
  /\ end[e].ch[n].state # "Free" /\ end[e].ch[n].num # 0
  /\ Mate(e, n).state # "Free" /\ Mate(e, n).id = end[e].ch[n].id

\* what packets of type t sent by e for its channel n and not yet handled carry
UnderWay(e, n, t) ==
  LET out == end[e].out
      mine == {i \in 1 .. Len(out) :
                 out[i].t = t /\ out[i].id = end[e].ch[n].id}
  IN MapThenSumSet(LAMBDA i : out[i].len, mine)

\* what the packet in TrafIn of e holds of channel n
Held(e, n) == IF end[e].rx.num = n THEN end[e].rx.len ELSE 0

\* No credit is lost or given twice.  Window is what the sender may still
\* send, what is under way, what the receiver holds or has yet to give back,
\* and the adjustments under way: check_send_window_adjust keeps
\* pending_adjust when a send is refused and clears it when it is not.  The
\* code gives Overhead back with every packet read.  A receiver that is done
\* with the channel gives nothing back for what it ignores.
CreditConserved ==
  \A e \in Ends, n \in Slots :
    Paired(e, n) /\ end[e].ch[n].state # "InOpen" =>
      LET c == end[e].ch[n]
          m == Mate(e, n)
          all == c.window + UnderWay(e, n, "Data") + Held(Peer(e), c.num)
                 + m.pending + UnderWay(Peer(e), c.num, "Adjust")
          due == Window + Overhead * m.packets
      IN IF m.done THEN all <= due ELSE all = due

\* Two ends that both follow this code never take each other's packets for a
\* protocol error, nor reach a Bug trap: whatever is refused, released or
\* delayed, every packet finds its channel in a state that expects it.  And it
\* is the conversation it was sent for: a slot is not given to a new channel
\* while packets for the old one may arrive (Channels::remove, remove_any,
\* unused_chan).  A peer that uses a number again as soon as its Close is
\* answered is covered for one channel only: with two, a request or an Eof that
\* this code sends after the answer finds the number in use for the next one.
PeersAgree ==
  /\ TypeOK
  /\ \A e \in Ends :
       /\ end[e].err \notin {"SSHProto", "Bug"}
       /\ \A i \in 1 .. Len(end[Peer(e)].out) :
            LET p == end[Peer(e)].out[i] IN
            p.t # "Open" /\ InUse(end[e], p.num) => end[e].ch[p.num].id = p.id

\* The stream that end e writes in conversation i, as the log of e and that
\* of its reader show it.
Streams == Ends \X Ids

Abstract(s) ==
  LET writer == end[s[1]].log[s[2]]
      reader == end[Peer(s[1])].log[s[2]]
  IN [wrote |-> writer.wrote, ended |-> writer.ended, got |-> reader.got,
      told |-> reader.eof, left |-> reader.left]

Stream == INSTANCE ByteStreams
            WITH stream <- [s \in Streams |-> Abstract(s)]

\* Every conversation implements two byte streams, one each way: through
\* packets of any size, partial reads, deferred EOFs, windows and closes by
\* the peer, a reader gets bytes that were written and not read before, is
\* told of the end when it has had all of them, and nothing is written after
\* the end or read after it was told (write_channel, read_channel, send_eof,
\* handle_eof, handle_close).
IsByteStreams == Stream!Spec

\* End e has failed, or TrafIn of e holds data that nobody reads: the
\* application gave its handle up while the open was unanswered, so that
\* channel_done() failed with BadChannel and the channel is not done.
Halted(e) ==
  ~ Alive(e) \/ (end[e].rx.num # 0 /\ end[e].rx.num \notin end[e].handles)

\* A writer whose window is used up can write again, so long as neither side
\* gives the channel up or is halted: adjustments refused while the transport
\* is busy are retried by Channels::progress.
WindowReopens ==
  \A e \in Ends, n \in Slots :
    LET c == end[e].ch[n] IN
    (c.state = "Normal" /\ c.num # 0 /\ c.window = 0)
      ~> (\/ end[e].ch[n].state # "Normal" \/ end[e].ch[n].window > 0
          \/ end[e].ch[n].done \/ Mate(e, n).done
          \/ \E f \in Ends : Halted(f))

\* Every Close is answered by a Close, however the application at this end has
\* left the channel: reading, writing, at EOF or done (handle_close).  An open
\* whose handle the application holds is answered too: the event is not lost,
\* and the answer is not lost when the transport is busy.  Only an end that is
\* halted does not answer.
OpenCloseAnswered ==
  \A e \in Ends, n \in Slots :
    /\ end[e].ch[n].sentClose
         ~> (\/ end[e].ch[n].state \in {"RecvClose", "Free"}
             \/ \E f \in Ends : Halted(f))
    /\ (end[e].ch[n].state = "Opening" /\ n \in end[e].handles)
         ~> (\/ end[e].ch[n].state # "Opening" \/ n \notin end[e].handles
             \/ \E f \in Ends : Halted(f))
=============================================================================
