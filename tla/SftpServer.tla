----------------------------- MODULE SftpServer -----------------------------
(***************************************************************************)
(* The SFTP server (sftphandler.rs, sftpsource.rs) on one SSH channel, and *)
(* the client it serves.  Handler::process_loop runs two loops in one      *)
(* future: read_loop moves channel data into a queue, process takes        *)
(* requests from the queue and writes replies.  Both stop where the code   *)
(* awaits, and a step of the model is what happens between two awaits.     *)
(*                                                                         *)
(* The SSH layer under the server is reduced to what module Channels shows *)
(* of it: the client's packets are handled in order, a packet of channel   *)
(* data has to be read before the next packet is looked at, reading it     *)
(* gives the client its send window back, and replies need send window.    *)
(*                                                                         *)
(* Lengths are in units of the smallest packet, the nine bytes of length,  *)
(* type and request id: the header of a request is one unit.  A unit of    *)
(* the stream is a pair of a request's number and a position in it.        *)
(***************************************************************************)
EXTENDS Naturals, Sequences, FiniteSets

CONSTANTS
  QueueLen,    \* INPUT_BUF
  Window,      \* DEFAULT_WINDOW, the window the client sends into
  ReqBuf,      \* REQ_BUF
  CliWindow,   \* the window the server sends into
  Announced,   \* units of data that follow the header of a Data or Name reply
  Requests,    \* the requests the client may make after Init
  Depth,       \* requests the client keeps outstanding
  Eager,       \* whether the client reads replies while it sends a request
  Fails,       \* whether write(), read() and readdir() of SftpServer may fail
               \* when part of the data has gone through
  MaxReqs      \* bound: requests the client makes, Init included

\* SftpNum, by the shape of handler and reply; Other is an unknown number,
\* Bad a request whose fields do not decode: with data, a Write
Ops == {"Init", "Open", "OpenDir", "Stat", "PathInfo", "Remove", "Read",
        "ReadDir", "Close", "FStat", "FSetStat", "Write", "Bad", "Other"}

\* body: units after the header, without write data; data: of a Write, which
\* may be a Bad one;
\* utf8: whether its path is valid text
Request == [op: Ops, body: Nat, data: Nat,
            handle: {"none", "file", "dir"}, utf8: BOOLEAN]

ASSUME SftpServerAssumption ==
  /\ QueueLen \in Nat \ {0} /\ Window \in Nat \ {0}
  /\ ReqBuf \in Nat \ {0} /\ CliWindow \in Nat \ {0}
  /\ Announced \in Nat \ {0}
  /\ Requests \subseteq Request
  /\ Depth \in Nat \ {0} /\ MaxReqs \in Nat \ {0}
  /\ Fails \in BOOLEAN /\ Eager \in BOOLEAN

VARIABLES
  srv,      \* the future of process()
  queue,    \* in_queue
  rx,       \* channel data the SSH layer holds, and credit not yet given back
  toSrv,    \* the client's packets on their way to the server
  credit,   \* what the client may send
  room,     \* what the server may send
  cli       \* the client

vars == <<srv, queue, rx, toSrv, credit, room, cli>>

Init0 == [op |-> "Init", body |-> 0, data |-> 0, handle |-> "none",
          utf8 |-> TRUE]

Least(a, b) == IF a < b THEN a ELSE b

Units == Nat \X Nat

Total(r) == 1 + r.body + r.data

\* the units of request number i
Encode(i, r) == [k \in 1 .. Total(r) |-> <<i, k>>]

-----------------------------------------------------------------------------
(* State.                                                                  *)

\* Fill: SftpSource::fill; Skip: SftpSource::drain; Reply: write_all of a
\* reply or of its header; ReplyData: of the data announced in the header;
\* Write: process_write; Drain: Handler::drain; End: an error return; Lost: a
\* header is read from the middle of a request
Places == {"Fill", "Skip", "Reply", "ReplyData", "Write", "Drain", "End", "Lost"}

Replies == {"Version", "Status", "Handle", "Attrs", "Name", "Data"}

\* HandlerState, kept apart from the place so that the order of its
\* assignments is visible
States == {"First", "Normal", "ProcessWriteRequest", "Drain"}

Server == [state: States, at: Places,
           cur: Nat,         \* the request being handled
           len: Nat,         \* SftpSource::len
           left: Nat,        \* units the place still waits for
           remaining: Nat,   \* of ProcessWriteRequest, of Drain, or of the
                             \* Drain that is set when a status has gone
           offset: Nat,
           reply: [kind: Replies, ok: BOOLEAN]]

NewServer == [state |-> "First", at |-> "Fill", cur |-> 0, len |-> 0,
              left |-> 1, remaining |-> 0, offset |-> 0,
              reply |-> [kind |-> "Status", ok |-> TRUE]]

Unread == [units: Seq(Units), len: Nat, pending: Nat]

\* made: its requests, by number; unsent: encoded and not yet sent; answers:
\* replies sent whole, and those broken off, which are not ok; unread: units
\* of replies not yet read; written: what SftpServer::write was given
Client == [made: Seq(Request), unsent: Seq(Units), unread: Nat,
           answers: Seq([id: Nat, kind: Replies, ok: BOOLEAN]),
           written: Seq([id: Nat, offset: Nat, unit: Nat])]

NewClient == [made |-> <<Init0>>, unsent |-> Encode(1, Init0), unread |-> 0,
              answers |-> <<>>, written |-> <<>>]

-----------------------------------------------------------------------------
(* Handler.                                                                *)

\* Top of the loop in process(): what the state asks for next
NextTurn(s) ==
  CASE s.state \in {"First", "Normal"} ->
         [s EXCEPT !.at = "Fill", !.cur = 0, !.len = 0, !.left = 1]
    [] s.state = "ProcessWriteRequest" /\ s.remaining = 0 ->
         [s EXCEPT !.state = "Normal", !.at = "Reply", !.left = 1,
                   !.reply = [kind |-> "Status", ok |-> TRUE]]
    [] s.state = "ProcessWriteRequest" ->
         [s EXCEPT !.state = "Normal", !.at = "Write", !.left = s.remaining,
                   !.remaining = 0]
    [] s.state = "Drain" ->
         [s EXCEPT !.at = "Drain", !.left = s.remaining]

SendPacket(s, kind, ok) ==
  [s EXCEPT !.at = "Reply", !.left = 1, !.reply = [kind |-> kind, ok |-> ok]]

SendStatus(s, ok) == SendPacket(s, "Status", ok)

\* send_header(), of a Data and of a Name reply
ReadHeaderReply(s) == SendPacket(s, "Data", TRUE)

DirReadHeaderReply(s) == SendPacket(s, "Name", TRUE)

\* what follows when write_all() of a packet or a header is done; the status
\* of a failed write is followed by the change to Drain
Sent(s) ==
  IF s.reply.kind \in {"Data", "Name"}
    THEN [s EXCEPT !.at = "ReplyData", !.left = Announced]
  ELSE IF s.state = "Normal" /\ s.remaining > 0
    THEN NextTurn([s EXCEPT !.state = "Drain"])
  ELSE NextTurn(s)

ProcessFirstPacket(s, r) ==
  IF r.op = "Init" THEN SendPacket([s EXCEPT !.state = "Normal"], "Version", TRUE)
  ELSE [s EXCEPT !.at = "End"]

\* what a request is answered with when it succeeds
Answer(op) ==
  CASE op = "Init"                  -> "Version"
    [] op = "Read"                  -> "Data"
    [] op \in {"Stat", "FStat"}     -> "Attrs"
    [] op \in {"Open", "OpenDir"}   -> "Handle"
    [] op \in {"PathInfo", "ReadDir"} -> "Name"
    [] OTHER                        -> "Status"

\* FileHandle::try_from, DirHandle::try_from, decode_opaque_handle
HandleFits(r) ==
  CASE r.op \in {"Read", "Write", "FStat", "FSetStat"} -> r.handle = "file"
    [] r.op = "ReadDir" -> r.handle = "dir"
    [] OTHER -> TRUE

\* ok: whether the application's SftpServer method succeeds.  A Write whose
\* handle is not a file's is answered, and its data left where it is.
ProcessPacket(s, r, ok) ==
  IF r.op = "Init" \/ ~ r.utf8 THEN [s EXCEPT !.at = "End"]
  ELSE IF ~ HandleFits(r) THEN SendStatus(s, FALSE)
  ELSE IF r.op = "Write"
    THEN NextTurn([s EXCEPT !.state = "ProcessWriteRequest",
                            !.remaining = r.data, !.offset = 0])
  ELSE IF ~ ok THEN SendStatus(s, FALSE)
  ELSE CASE Answer(r.op) = "Data" -> ReadHeaderReply(s)
         [] Answer(r.op) = "Name" -> DirReadHeaderReply(s)
         [] OTHER                 -> SendPacket(s, Answer(r.op), TRUE)

\* SftpSource::drain() of n units, and the status that follows
SkipPacket(s, n) ==
  IF n = 0 THEN SendStatus(s, FALSE) ELSE [s EXCEPT !.at = "Skip", !.left = n]

\* SftpSource::needed(), once the header is there: write data stays in the
\* queue, also when decode() then finds that the Write is a bad one
Needed(s, r) ==
  CASE r.op \in {"Write", "Bad"} -> 1 + r.body - s.len
    [] r.op = "Other"            -> 0
    [] OTHER                     -> Total(r) - s.len

\* mutant: an unknown packet is answered and not drained
FilledNoDrain(s, r, ok) ==
  LET need == Needed(s, r) IN
  IF need > 0
    THEN IF s.len + need > ReqBuf THEN SkipPacket(s, Total(r) - s.len)
         ELSE [s EXCEPT !.left = need]
  ELSE IF r.op \in {"Other", "Bad"} THEN SendStatus(s, FALSE)
  ELSE IF s.state = "First" THEN ProcessFirstPacket(s, r)
  ELSE ProcessPacket(s, r, ok)

\* fill() when what it waited for has arrived: more is needed, or does not
\* fit, or process_one() has its packet
Filled(s, r, ok) ==
  LET need == Needed(s, r) IN
  IF need > 0
    THEN IF s.len + need > ReqBuf THEN SkipPacket(s, Total(r) - s.len)
         ELSE [s EXCEPT !.left = need]
  ELSE IF r.op = "Other" THEN SkipPacket(s, Total(r) - s.len)
  ELSE IF r.op = "Bad" THEN SendStatus(s, FALSE)
  ELSE IF s.state = "First" THEN ProcessFirstPacket(s, r)
  ELSE ProcessPacket(s, r, ok)

-----------------------------------------------------------------------------
(* Steps of the future of process().                                       *)

\* wait_read() gives what is there, and never nothing
Available == Least(srv.left, Len(queue))

Release(n) == queue' = SubSeq(queue, n + 1, Len(queue))

Fill(ok) ==
  /\ srv.at = "Fill" /\ queue # <<>>
  /\ LET n == Available
         header == srv.len = 0
         cur == IF header THEN Head(queue)[1] ELSE srv.cur
         s == [srv EXCEPT !.cur = cur, !.len = @ + n, !.left = @ - n]
     IN /\ srv' = IF header /\ Head(queue)[2] # 1
                    THEN [srv EXCEPT !.at = "Lost", !.cur = cur]
                  ELSE IF s.left > 0 THEN s
                  ELSE Filled(s, cli.made[cur], ok)
        /\ Release(n)
  /\ UNCHANGED <<rx, toSrv, credit, room, cli>>

Skip ==
  /\ srv.at = "Skip" /\ queue # <<>>
  /\ srv' = SkipPacket(srv, srv.left - Available)
  /\ Release(Available)
  /\ UNCHANGED <<rx, toSrv, credit, room, cli>>

\* mutant: the offset is not advanced between two pieces of a write
WriteChunkSameOffset ==
  /\ srv.at = "Write" /\ queue # <<>>
  /\ LET n == Available
         s == [srv EXCEPT !.left = @ - n]
         piece == [k \in 1 .. n |-> [id |-> srv.cur, offset |-> srv.offset + k,
                                     unit |-> queue[k][2]]]
     IN /\ srv' = IF s.left = 0 THEN SendStatus(s, TRUE) ELSE s
        /\ cli' = [cli EXCEPT !.written = @ \o piece]
        /\ Release(n)
  /\ UNCHANGED <<rx, toSrv, credit, room>>

\* process_write(): a piece of the data is written
WriteChunk ==
  /\ srv.at = "Write" /\ queue # <<>>
  /\ LET n == Available
         s == [srv EXCEPT !.left = @ - n, !.offset = @ + n]
         piece == [k \in 1 .. n |-> [id |-> srv.cur, offset |-> srv.offset + k,
                                     unit |-> queue[k][2]]]
     IN /\ srv' = IF s.left = 0 THEN SendStatus(s, TRUE) ELSE s
        /\ cli' = [cli EXCEPT !.written = @ \o piece]
        /\ Release(n)
  /\ UNCHANGED <<rx, toSrv, credit, room>>

\* process_write(): SftpServer::write fails, the rest is to be drained once
\* the status has been sent
WriteError ==
  /\ srv.at = "Write" /\ queue # <<>> /\ Fails
  /\ srv' = SendStatus([srv EXCEPT !.remaining = srv.left], FALSE)
  /\ UNCHANGED <<queue, rx, toSrv, credit, room, cli>>

\* Handler::drain(): the state is left as it was
Drain ==
  /\ srv.at = "Drain" /\ queue # <<>>
  /\ LET n == Available IN
     /\ srv' = IF n = srv.left THEN NextTurn(srv)
               ELSE [srv EXCEPT !.left = @ - n]
     /\ Release(n)
  /\ UNCHANGED <<rx, toSrv, credit, room, cli>>

\* n units of a reply are sent, and the reply is complete when whole says so
Deliver(n, whole) ==
  /\ room' = room - n
  /\ cli' = [cli EXCEPT !.unread = @ + n,
                        !.answers = IF whole
                          THEN Append(@, [id |-> srv.cur, kind |-> srv.reply.kind,
                                          ok |-> srv.reply.ok])
                          ELSE @]
  /\ UNCHANGED <<queue, rx, toSrv, credit>>

\* write_all() of a packet, as the send window allows
Reply ==
  /\ srv.at = "Reply" /\ room > 0
  /\ srv' = Sent(srv)
  /\ Deliver(1, srv.reply.kind \notin {"Data", "Name"})

\* mutant: a status follows the data
ReplyDataTwice ==
  /\ srv.at = "ReplyData" /\ room > 0
  /\ \E n \in {Least(room, srv.left)} :
       /\ srv' = IF n = srv.left THEN SendStatus(srv, FALSE)
                 ELSE [srv EXCEPT !.left = @ - n]
       /\ Deliver(n, n = srv.left)

\* LimitedSender::send_data(), LimitedDirSender::send_item(): the application
\* sends what its header has announced
ReplyData ==
  /\ srv.at = "ReplyData" /\ room > 0
  /\ \E n \in {Least(room, srv.left)} :
       /\ srv' = IF n = srv.left THEN NextTurn(srv)
                 ELSE [srv EXCEPT !.left = @ - n]
       /\ Deliver(n, n = srv.left)

\* SftpServer::read() or readdir() fails when its header, or part of its data,
\* has been sent: process_packet() sends a status all the same
ReplyError ==
  /\ srv.at = "ReplyData" /\ Fails
  /\ cli.made[srv.cur].op \in {"Read", "ReadDir"}
  /\ srv' = SendStatus(srv, FALSE)
  /\ cli' = [cli EXCEPT !.answers = Append(@, [id |-> srv.cur, ok |-> FALSE,
                                               kind |-> srv.reply.kind])]
  /\ UNCHANGED <<queue, rx, toSrv, credit, room>>

Process ==
  \/ \E ok \in BOOLEAN : Fill(ok)
  \/ Skip \/ WriteChunk \/ WriteError \/ Drain \/ Reply \/ ReplyData
  \/ ReplyError

-----------------------------------------------------------------------------
(* The read loop, and the SSH layer under it.                              *)

Running == srv.at \notin {"End", "Lost"}

\* the window adjustment that reading n more units of the packet brings about
Credited(n) ==
  LET done == n = Len(rx.units)
      pending == rx.pending + IF done THEN rx.len ELSE 0
      give == IF pending > Window \div 2 THEN pending ELSE 0
  IN /\ rx' = [units |-> SubSeq(rx.units, n + 1, Len(rx.units)),
               len |-> IF done THEN 0 ELSE rx.len, pending |-> pending - give]
     /\ credit' = credit + give

\* mutant: the loop waits until the queue is empty
ReadLoopWhenEmpty ==
  /\ Running /\ rx.units # <<>> /\ queue = <<>>
  /\ \E n \in 1 .. Least(Len(rx.units), QueueLen) :
       /\ queue' = queue \o SubSeq(rx.units, 1, n)
       /\ Credited(n)
  /\ UNCHANGED <<srv, toSrv, room, cli>>

\* wait_grant_max_remaining() gives a part of the free space, read() fills what
\* the packet has for it
ReadLoop ==
  /\ Running /\ rx.units # <<>> /\ Len(queue) < QueueLen
  /\ \E n \in 1 .. Least(Len(rx.units), QueueLen - Len(queue)) :
       /\ queue' = queue \o SubSeq(rx.units, 1, n)
       /\ Credited(n)
  /\ UNCHANGED <<srv, toSrv, room, cli>>

\* a packet of the client, data as a sequence of units and a window
\* adjustment as a number, is handled when no channel data is unread
HandlePacket ==
  /\ Running /\ toSrv # <<>> /\ rx.units = <<>>
  /\ LET p == Head(toSrv) IN
     /\ rx' = [rx EXCEPT !.units = p.data, !.len = Len(p.data)]
     /\ room' = room + p.adjust
  /\ toSrv' = Tail(toSrv)
  /\ UNCHANGED <<srv, queue, credit, cli>>

-----------------------------------------------------------------------------
(* The client.                                                             *)

\* A status that follows a broken reply is no answer of its own
Answered(i) == \E j \in DOMAIN cli.answers : cli.answers[j].id = i

Outstanding == Cardinality({i \in DOMAIN cli.made : ~ Answered(i)})

MakeRequest(r) ==
  /\ Len(cli.made) < MaxReqs /\ Outstanding < Depth
  /\ cli.answers # <<>> /\ cli.unsent = <<>>
  /\ cli' = [cli EXCEPT !.made = Append(@, r),
                        !.unsent = Encode(Len(cli.made) + 1, r)]
  /\ UNCHANGED <<srv, queue, rx, toSrv, credit, room>>

Transmit ==
  /\ cli.unsent # <<>> /\ credit > 0
  /\ LET n == Least(credit, Len(cli.unsent)) IN
     /\ toSrv' = Append(toSrv, [data |-> SubSeq(cli.unsent, 1, n), adjust |-> 0])
     /\ cli' = [cli EXCEPT !.unsent = SubSeq(@, n + 1, Len(@))]
     /\ credit' = credit - n
  /\ UNCHANGED <<srv, queue, rx, room>>

ReadReplies ==
  /\ cli.unread > 0 /\ (Eager \/ cli.unsent = <<>>)
  /\ toSrv' = Append(toSrv, [data |-> <<>>, adjust |-> cli.unread])
  /\ cli' = [cli EXCEPT !.unread = 0]
  /\ UNCHANGED <<srv, queue, rx, credit, room>>

Init ==
  /\ srv = NewServer /\ queue = <<>>
  /\ rx = [units |-> <<>>, len |-> 0, pending |-> 0]
  /\ toSrv = <<>> /\ credit = Window /\ room = CliWindow /\ cli = NewClient

Next ==
  \/ Process \/ ReadLoop \/ HandlePacket
  \/ Transmit \/ ReadReplies
  \/ \E r \in Requests : MakeRequest(r)

Spec == Init /\ [][Next]_vars

\* The future of process_loop is polled when either half of it can go on, the
\* SSH layer is progressed, and the client sends what it has begun and reads.
Fairness ==
  /\ WF_vars(Process) /\ WF_vars(ReadLoop) /\ WF_vars(HandlePacket)
  /\ WF_vars(Transmit) /\ WF_vars(ReadReplies)

FairSpec == Spec /\ Fairness

-----------------------------------------------------------------------------
(* Properties.                                                             *)

\* The types, and the capacity of the input queue and of the request buffer
TypeOK ==
  /\ srv \in Server /\ cli \in Client /\ rx \in Unread
  /\ queue \in Seq(Units) /\ Len(queue) <= QueueLen
  /\ srv.len <= ReqBuf
  /\ toSrv \in Seq([data: Seq(Units), adjust: Nat])
  /\ credit \in 0 .. Window /\ room \in 0 .. CliWindow

\* The data of a Write that decode() or FileHandle::try_from refuses
LeavesData(r) == r.data > 0 /\ (r.op = "Bad" \/ ~ HandleFits(r))

\* Every packet is taken from the queue to its last unit, whatever becomes of
\* it: known or unknown, too long for REQ_BUF, refused, or a write whose data
\* goes to the application or is drained after an error.  SftpSource::fill
\* starts in the middle of a packet in one case, which the code does have: the
\* packet is a Write that carries data and was refused for its handle or its
\* fields (sftphandler.rs:445-453, sftpsource.rs:270-288), and what is taken
\* for a header is its data.
Framed == TypeOK /\ (srv.at = "Lost" => LeavesData(cli.made[srv.cur]))

Broken(a) == a.kind \in {"Data", "Name"} /\ ~ a.ok

\* Requests are answered in order and once each, by the reply their operation
\* calls for or by a status.  The one exception is that of the code: a read()
\* or readdir() that fails after its header has been sent is answered by what
\* it sent, broken off, and by a status after that (sftphandler.rs:316-336,
\* 376-389).
OneAnswerEach ==
  LET as == cli.answers IN
  \A j \in DOMAIN as :
    /\ as[j].kind \in {"Status", Answer(cli.made[as[j].id].op)}
    /\ IF j > 1 /\ Broken(as[j - 1])
         THEN as[j].id = as[j - 1].id /\ as[j].kind = "Status" /\ ~ as[j].ok
       ELSE as[j].id = IF j = 1 THEN 1 ELSE as[j - 1].id + 1

\* The application is given every unit of the data of a write once, in order
\* and at its offset, though it arrives in pieces; a write that was answered
\* with success is complete.
WritesExact ==
  /\ \A i \in 1 .. Len(cli.written) :
       LET w == cli.written[i] IN
       /\ w.unit = 1 + cli.made[w.id].body + w.offset
       /\ w.offset = 1 \/ (cli.written[i - 1].id = w.id
                            /\ cli.written[i - 1].offset = w.offset - 1)
  /\ \A a \in {cli.answers[i] : i \in DOMAIN cli.answers} :
       (cli.made[a.id].op = "Write" /\ a.ok) =>
         \A k \in 1 .. cli.made[a.id].data :
           \E j \in 1 .. Len(cli.written) :
             cli.written[j].id = a.id /\ cli.written[j].offset = k

Waiting(i) == Len(cli.made) >= i /\ ~ Answered(i) /\ Running

\* The server waits for send window, its queue is full, and the channel data
\* that does not fit keeps the adjustment behind it from being handled
Wedged ==
  /\ srv.at \in {"Reply", "ReplyData"} /\ room = 0
  /\ Len(queue) = QueueLen /\ rx.units # <<>>

\* However requests, replies and window adjustments wait for each other, a
\* request of a session that goes on is answered: read_loop keeps the SSH layer
\* going while a reply waits for window.  It waits for ever in two cases, both
\* of which the code has: the queue has filled up (Wedged), and a write has
\* failed, after which process() discards whatever comes (HandlerState::Drain
\* is never left).
StuckOnlyIfFull ==
  \A i \in 1 .. MaxReqs :
    []<>(~ Waiting(i) \/ srv.state = "Drain") \/ <>[]Wedged

\* Every request of a session that goes on is answered: "A peer can't send
\* more than the channel's receive window before waiting for an adjustment, so
\* a queue that size can always be drained" (sftphandler.rs:68-70).
AllAnswered == \A i \in 1 .. MaxReqs : []<>~ Waiting(i)
=============================================================================
