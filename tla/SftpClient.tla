----------------------------- MODULE SftpClient -----------------------------
(***************************************************************************)
(* The SFTP client: SftpRunner (runner.rs), which assembles replies from a *)
(* byte stream, and SftpClient (sftpclient.rs, dir.rs), whose async        *)
(* operations make requests and wait for their replies.  An application    *)
(* may drop the future of an operation wherever it awaits.  A step of the  *)
(* model is what happens between two awaits.                               *)
(*                                                                         *)
(* Lengths are in units: the length, type and id of a reply are one unit,  *)
(* so are the length of a data reply and the count of a name reply, and a  *)
(* name entry is two.  A unit of the stream carries the reply it is part   *)
(* of and its position there.  The server answers every request with a     *)
(* well formed reply, pipelined ones in any order.                         *)
(***************************************************************************)
EXTENDS Naturals, Sequences, FiniteSets

CONSTANTS
  RespBuf,    \* RESP_BUF
  Chunk,      \* MAX_READ_LEN and MAX_WRITE_LEN
  Pipeline,   \* PIPELINE_DEPTH
  FileLen,    \* length of the file the server has
  Lens,       \* lengths the application reads and writes
  Calls,      \* operations the application uses, a subset of Ops
  Bodies,     \* lengths of the replies that are not streamed
  MaxTrail,   \* bound: unexplained units at the end of a streamed reply
  Odd,        \* odd replies: "empty", a read answered with no data, and
              \* "unknown", a reply of a type the client does not know
  MaxOps      \* bound: requests the client makes

\* operations by the reply they expect; Status is close, remove, fsync ...
Ops == {"Init", "Status", "Handle", "Attrs", "Name", "Read", "Write", "ReadDir"}

ASSUME SftpClientAssumption ==
  /\ RespBuf \in Nat \ {0, 1} /\ Chunk \in Nat \ {0}
  /\ Pipeline \in Nat \ {0} /\ FileLen \in Nat
  /\ Lens \subseteq Nat /\ Lens # {} /\ Calls \subseteq Ops
  /\ Bodies \subseteq Nat /\ MaxTrail \in Nat
  /\ Odd \subseteq {"empty", "unknown"} /\ MaxOps \in Nat

VARIABLES
  cl,      \* SftpClient, its SftpRunner, and the operation in progress
  inbox,   \* requests on their way to the server or waiting there
  wire     \* units on their way to the client

vars == <<cl, inbox, wire>>

Least(a, b) == IF a < b THEN a ELSE b

\* saturating_sub(1)
Decremented(n) == IF n = 0 THEN 0 ELSE n - 1

EntryLen == 2

-----------------------------------------------------------------------------
(* Messages.                                                               *)

Requests == [op: Ops, id: Nat, off: Nat, len: Nat]

Kinds == {"Version", "Status", "Handle", "Attrs", "Data", "Name",
          "Unknown"}

\* len: of the data, of the names or of the body; code: of a status; from:
\* the place in the file where the data is
Reply == [kind: Kinds, id: Nat, len: Nat, trail: Nat,
          code: {"ok", "eof", "fail"}, from: Nat]

\* units after the header
Rest(p) ==
  p.trail + CASE p.kind = "Data" -> 1 + p.len
              [] p.kind = "Name" -> 1 + EntryLen * p.len
              [] OTHER           -> p.len

Encode(p) == [k \in 1 .. 1 + Rest(p) |-> [reply |-> p, k |-> k]]

-----------------------------------------------------------------------------
(* SftpRunner, input.                                                      *)

InStates == {"Header", "Body", "DataLen", "NameCount", "NameEntry", "Drain",
             "Lost"}

Runner == [inState: InStates, pos: Nat, need: Nat, recvData: Nat,
           pktRemaining: Nat, pkt: Reply, namesLeft: Nat, ready: BOOLEAN,
           advance: {"None", "Packet", "Name"}, outstanding: Nat,
           nextId: Nat, version: BOOLEAN]

NoReply == [kind |-> "Status", id |-> 0, len |-> 0, trail |-> 0,
            code |-> "ok", from |-> 0]

NewRunner == [inState |-> "Header", pos |-> 0, need |-> 1, recvData |-> 0,
              pktRemaining |-> 0, pkt |-> NoReply, namesLeft |-> 0,
              ready |-> FALSE, advance |-> "None", outstanding |-> 0,
              nextId |-> 1, version |-> FALSE]

Want(r) ==
  IF r.ready \/ r.recvData > 0 THEN 0 ELSE Least(r.need - r.pos, RespBuf)

StartPacket(r) ==
  [r EXCEPT !.inState = "Header", !.need = 1, !.pos = 0, !.namesLeft = 0]

\* mutant: what was not decoded of a reply is not discarded
EndPacketNoDrain(r) == StartPacket(r)

EndPacket(r) ==
  IF r.pktRemaining > 0
    THEN [r EXCEPT !.inState = "Drain", !.need = r.pktRemaining, !.pos = 0]
    ELSE StartPacket(r)

NextName(r) ==
  IF r.namesLeft = 0
    THEN [r EXCEPT !.inState = "Body", !.need = 0, !.pos = 0, !.ready = TRUE]
    ELSE [r EXCEPT !.inState = "NameEntry", !.need = 1, !.pos = 0]

ApplyAdvance(r) ==
  LET q == [r EXCEPT !.advance = "None"] IN
  CASE r.advance = "Packet" -> EndPacket(q)
    [] r.advance = "Name"   -> NextName(q)
    [] r.advance = "None"   -> q

StepBody(r) == [r EXCEPT !.pktRemaining = @ - r.pos, !.ready = TRUE]

StepHeader(r, p) ==
  LET q == [r EXCEPT !.pkt = p, !.pktRemaining = Rest(p), !.pos = 0,
                     !.version = @ \/ p.kind = "Version"]
      need == Least(Rest(p), RespBuf)
  IN CASE p.kind = "Data" -> [q EXCEPT !.inState = "DataLen", !.need = 1]
       [] p.kind = "Name" -> [q EXCEPT !.inState = "NameCount", !.need = 1]
       [] p.kind = "Unknown" ->
            EndPacket([q EXCEPT !.outstanding = Decremented(@)])
       [] OTHER ->
            LET b == [q EXCEPT !.inState = "Body", !.need = need]
            IN IF need = 0 THEN StepBody(b) ELSE b

\* step(), when the units it waited for are there; p is what they say
Step(r, p) ==
  CASE r.inState = "Header"    -> StepHeader(r, p)
    [] r.inState = "Body"      -> StepBody(r)
    [] r.inState = "DataLen"   ->
         [r EXCEPT !.pktRemaining = @ - 1, !.recvData = p.len, !.pos = 0,
                   !.ready = TRUE]
    [] r.inState = "NameCount" ->
         [r EXCEPT !.pktRemaining = @ - 1, !.namesLeft = p.len, !.ready = TRUE]
    [] r.inState = "NameEntry" ->
         IF r.pos < EntryLen THEN [r EXCEPT !.need = EntryLen]
         ELSE [r EXCEPT !.pktRemaining = @ - r.pos, !.namesLeft = @ - 1,
                        !.ready = TRUE]
    [] r.inState = "Drain"     -> StartPacket(r)

\* input_done() of n units, the first of them u; a header is taken from the
\* middle of a reply, or the reverse, when the client has lost its place
InputDone(r, n, u) ==
  LET q == [r EXCEPT !.pos = @ + n] IN
  IF (r.inState = "Header") # (u.k = 1) THEN [r EXCEPT !.inState = "Lost"]
  ELSE IF q.pos >= q.need THEN Step(q, u.reply) ELSE q

DataTaken(r, n) ==
  LET q == [r EXCEPT !.recvData = @ - n, !.pktRemaining = @ - n]
  IN IF q.recvData = 0 THEN EndPacket(q) ELSE q

InNames(r) == r.pkt.kind = "Name" /\ r.inState \in {"NameCount", "NameEntry"}

EventOf(r) ==
  CASE r.pkt.kind # "Name"       -> r.pkt.kind
    [] r.inState = "NameCount"   -> "NameStart"
    [] r.inState = "NameEntry"   -> "Name"
    [] OTHER                     -> "NameEnd"

\* event(): a reply is answered when its last event is handed out
Collect(r) ==
  [r EXCEPT !.ready = FALSE,
            !.advance = CASE r.pkt.kind = "Data" -> "None"
                          [] InNames(r)          -> "Name"
                          [] OTHER               -> "Packet",
            !.outstanding = IF InNames(r) THEN @ ELSE Decremented(@)]

-----------------------------------------------------------------------------
(* SftpClient, and the future of the operation in progress.                *)

\* Idle: no operation; Send: in send_out(); Wait: in wait_event(); Take: in
\* take_data(); Iter: the application holds a DirIter and has not called it
Places == {"Idle", "Send", "Wait", "Take", "Iter"}

\* what the operation does with the next event
Phases == {"Drain", "Init", "Reply", "NameEntry", "NameEnd", "Read", "Write",
           "DirNext"}

MaxLen == CHOOSE n \in Lens : \A m \in Lens : m <= n

NoShort == [idx |-> 0, len |-> 0]   \* chunks count from one

Client == [run: Runner, poisoned: BOOLEAN, at: Places, phase: Phases,
           op: Ops, len: Nat, out: Requests, id: Nat,
           inflight: SUBSET [id: Nat, idx: Nat], next: Nat,
           short: [idx: Nat, len: Nat], failed: BOOLEAN,
           left: Nat, to: Nat, buf: [1 .. MaxLen -> Nat],
           dirDone: BOOLEAN, res: [kind: {"None", "Ok", "Failed", "Stale", "Bad",
             "Interrupted", "NotInitialized", "AlreadyInitialized"}, n: Nat]]

NoRequest == [op |-> "Init", id |-> 0, off |-> 0, len |-> 0]

NewClient == [run |-> NewRunner, poisoned |-> FALSE, at |-> "Idle",
              phase |-> "Init", op |-> "Init", len |-> 0, out |-> NoRequest,
              id |-> 0, inflight |-> {}, next |-> 1, short |-> NoShort,
              failed |-> FALSE, left |-> 0, to |-> 0,
              buf |-> [k \in 1 .. MaxLen |-> 0], dirDone |-> FALSE,
              res |-> [kind |-> "None", n |-> 0]]

Finish(c, kind, n) ==
  [c EXCEPT !.at = "Idle", !.res = [kind |-> kind, n |-> n]]

\* mutant: a pipelined read is not counted
QueueUncounted(c, op, off, len) ==
  LET id == IF op = "Init" THEN 0 ELSE c.run.nextId IN
  [c EXCEPT !.run.nextId = IF op = "Init" THEN @ ELSE @ + 1,
            !.run.outstanding = IF op = "Read" THEN @ ELSE @ + 1,
            !.out = [op |-> op, id |-> id, off |-> off, len |-> len],
            !.id = id, !.at = "Send", !.poisoned = TRUE]

\* SftpRunner::one(), write() or init(), and the start of send_out()
Queue(c, op, off, len) ==
  LET id == IF op = "Init" THEN 0 ELSE c.run.nextId IN
  [c EXCEPT !.run.nextId = IF op = "Init" THEN @ ELSE @ + 1,
            !.run.outstanding = @ + 1,
            !.out = [op |-> op, id |-> id, off |-> off, len |-> len],
            !.id = id, !.at = "Send", !.poisoned = TRUE]

TakeData(c, to) ==
  [c EXCEPT !.at = "Take", !.left = c.run.recvData, !.to = to,
            !.poisoned = TRUE]

\* a zero length write is still a request; a read is never of zero length
Chunks(c) == IF c.len = 0 THEN 1 ELSE (c.len + Chunk - 1) \div Chunk

ChunkLen(c, idx) == Least(c.len - (idx - 1) * Chunk, Chunk)

\* mutant: after a short chunk the loop waits though nothing is in flight
ReadTopWaits(c) ==
  IF /\ Cardinality(c.inflight) < Pipeline /\ c.next <= Chunks(c)
     /\ c.short = NoShort /\ ~ c.failed
    THEN Queue(c, "Read", (c.next - 1) * Chunk, ChunkLen(c, c.next))
  ELSE IF c.inflight # {} \/ c.short # NoShort THEN [c EXCEPT !.at = "Wait"]
  ELSE Finish(c, IF c.failed THEN "Failed" ELSE "Ok", c.len)

\* the top of the loop of read_chunks()
ReadTop(c) ==
  IF /\ Cardinality(c.inflight) < Pipeline /\ c.next <= Chunks(c)
     /\ c.short = NoShort /\ ~ c.failed
    THEN Queue(c, "Read", (c.next - 1) * Chunk, ChunkLen(c, c.next))
  ELSE IF c.inflight # {} THEN [c EXCEPT !.at = "Wait"]
  ELSE IF c.failed THEN Finish(c, "Failed", 0)
  ELSE Finish(c, "Ok", IF c.short = NoShort THEN c.len
                       ELSE (c.short.idx - 1) * Chunk + c.short.len)

\* a turn of the loop of write()
WriteTop(c) ==
  IF c.next > Chunks(c) THEN Finish(c, "Ok", c.len)
  ELSE Queue(c, "Write", (c.next - 1) * Chunk, ChunkLen(c, c.next))

\* an operation once begin() has returned
Start(c) ==
  CASE c.op = "Read"  -> ReadTop([c EXCEPT !.phase = "Read"])
    [] c.op = "Write" -> WriteTop([c EXCEPT !.phase = "Write"])
    [] OTHER          -> Queue([c EXCEPT !.phase = "Reply"], c.op, 0, 0)

\* mutant: replies to dropped requests are left on the stream
DrainRepliesNone(c) == Start(c)

\* the loop of drain_replies(), with discard_data()
DrainReplies(c) ==
  IF c.run.recvData > 0 THEN TakeData(c, 0)
  ELSE IF c.run.outstanding > 0 THEN [c EXCEPT !.at = "Wait"]
  ELSE Start(c)

\* mutant: the latest short chunk is kept
NoteShortLatest(c, i, n) == [c EXCEPT !.short = [idx |-> i, len |-> n]]

NoteShort(c, i, n) ==
  IF c.short = NoShort \/ i < c.short.idx
    THEN [c EXCEPT !.short = [idx |-> i, len |-> n]] ELSE c

\* the body of the loop of read_chunks(), with the reply p; the short chunk is
\* noted before its data is taken, which nobody sees
ReadReply(c, p) ==
  IF \A s \in c.inflight : s.id # p.id THEN Finish(c, "Stale", 0)
  ELSE
  LET slot == CHOOSE s \in c.inflight : s.id = p.id
      d == [c EXCEPT !.inflight = @ \ {slot}]
      want == ChunkLen(c, slot.idx)
      noted == IF p.len < want THEN NoteShort(d, slot.idx, p.len) ELSE d
  IN CASE p.kind = "Data" /\ p.len > want ->
            TakeData([d EXCEPT !.failed = TRUE], 0)
       [] p.kind = "Data" /\ p.len = 0 ->
            ReadTop([noted EXCEPT !.run = DataTaken(@, 0)])
       [] p.kind = "Data" ->
            TakeData(noted, (slot.idx - 1) * Chunk + 1)
       [] p.kind = "Status" /\ p.code = "eof" ->
            ReadTop(NoteShort(d, slot.idx, 0))
       [] OTHER -> ReadTop([d EXCEPT !.failed = TRUE])

\* do_status(), do_handle(), do_attrs(), do_name() and readdir(): the first
\* event of the reply
SingleReply(c, ev, p) ==
  CASE p.id # c.id -> Finish(c, "Stale", 0)
    [] p.id = c.id /\ ev = "NameStart" /\ c.op = "ReadDir" ->
         [c EXCEPT !.at = "Iter", !.dirDone = FALSE]
    [] p.id = c.id /\ ev = "NameStart" /\ c.op = "Name" /\ p.len >= 1 ->
         [c EXCEPT !.phase = "NameEntry"]
    [] p.id = c.id /\ ev = c.op /\ (ev = "Status" => p.code = "ok") ->
         Finish(c, "Ok", 0)
    [] p.id = c.id /\ ev = "Status" /\ c.op = "ReadDir" /\ p.code = "eof" ->
         Finish(c, "Ok", 0)
    [] p.id = c.id /\ ev = "Status" /\ p.code = "fail" ->
         Finish(c, "Failed", 0)
    [] OTHER -> Finish(c, "Bad", 0)

WriteReply(c, ev, p) ==
  IF p.id # c.id THEN Finish(c, "Stale", 0)
  ELSE IF ev # "Status" THEN Finish(c, "Bad", 0)
  ELSE IF p.code # "ok" THEN Finish(c, "Failed", 0)
  ELSE WriteTop([c EXCEPT !.next = @ + 1])

\* do_name() and end_name(), after the first event
NameReply(c, ev, p) ==
  IF p.id # c.id THEN Finish(c, "Stale", 0)
  ELSE CASE c.phase = "NameEntry" /\ ev = "Name" -> [c EXCEPT !.phase = "NameEnd"]
         [] c.phase = "NameEnd" /\ ev = "NameEnd" -> Finish(c, "Ok", 0)
         [] c.phase = "NameEnd" -> c
         [] OTHER -> Finish(c, "Bad", 0)

\* DirIter::next()
DirReply(c, ev, p) ==
  IF p.id = c.id /\ ev \in {"Name", "NameEnd"}
    THEN [c EXCEPT !.at = "Iter", !.dirDone = ev = "NameEnd"]
    ELSE Finish(c, "Stale", 0)

\* next_reply() and what its caller does with the reply
HandleEvent(c) ==
  LET r == ApplyAdvance(c.run)
      ev == EventOf(r)
      d == [c EXCEPT !.run = Collect(r)]
  IN CASE c.phase = "Drain"   -> DrainReplies(d)
       [] c.phase = "Init"    ->
            Finish(d, IF ev = "Version" THEN "Ok" ELSE "Bad", 0)
       [] c.phase = "Reply"   -> SingleReply(d, ev, r.pkt)
       [] c.phase = "Write"   -> WriteReply(d, ev, r.pkt)
       [] c.phase = "Read"    -> ReadReply(d, r.pkt)
       [] c.phase = "DirNext" -> DirReply(d, ev, r.pkt)
       [] OTHER               -> NameReply(d, ev, r.pkt)

\* wait_event(): has_event() applies what the last event decided
HasEvent(c) == c.at = "Wait" /\ ApplyAdvance(c.run).ready

\* the future runs until it has to wait: at most the end of a name reply
\* follows an event without more input
Run(c) ==
  LET d == IF HasEvent(c) THEN HandleEvent(c) ELSE c
  IN IF HasEvent(d) THEN HandleEvent(d) ELSE d

-----------------------------------------------------------------------------
(* The application.                                                        *)

\* an operation is called: the checks of begin() or init() and what follows
Begin(c, op, len) ==
  LET d == [c EXCEPT !.op = op, !.len = len, !.inflight = {}, !.next = 1,
                     !.short = NoShort, !.failed = FALSE,
                     !.buf = [k \in 1 .. MaxLen |-> 0],
                     !.res = [kind |-> "None", n |-> 0]]
      empty == op = "Read" /\ len = 0
  IN IF empty THEN Finish(c, "Ok", 0)
     ELSE IF c.poisoned THEN Finish(c, "Interrupted", 0)
     ELSE IF op = "Init" /\ c.run.version THEN Finish(c, "AlreadyInitialized", 0)
     ELSE IF op = "Init" THEN Queue([d EXCEPT !.phase = "Init"], "Init", 0, 0)
     ELSE IF ~ c.run.version THEN Finish(c, "NotInitialized", 0)
     ELSE DrainReplies([d EXCEPT !.phase = "Drain"])

\* init() is called once; the bound is on the requests made
Call(op, len) ==
  /\ cl.at \in {"Idle", "Iter"}
  /\ op = "Init" => cl.run.outstanding = 0 \/ cl.run.version
  /\ cl.run.nextId <= MaxOps
  /\ \E d \in {Begin(cl, op, len)} : cl' = Run(d)
  /\ UNCHANGED <<inbox, wire>>

\* DirIter::next() is called and the batch has not ended
DirNext ==
  /\ cl.at = "Iter" /\ ~ cl.dirDone
  /\ \E d \in {[cl EXCEPT !.at = "Wait", !.phase = "DirNext"]} : cl' = Run(d)
  /\ UNCHANGED <<inbox, wire>>

\* the future is dropped; that of a DirIter leaves the DirIter
Cancel ==
  /\ cl.at \in {"Send", "Wait", "Take"}
  /\ cl' = [cl EXCEPT !.at = IF cl.at = "Wait" /\ cl.phase = "DirNext"
                               THEN "Iter" ELSE "Idle"]
  /\ UNCHANGED <<inbox, wire>>

-----------------------------------------------------------------------------
(* The future of the operation in progress.                                *)

\* send_out() has written the request and its data
Sent ==
  /\ cl.at = "Send"
  /\ inbox' = inbox \cup {cl.out}
  /\ \E c \in {[cl EXCEPT !.poisoned = FALSE]} :
       cl' = IF cl.op = "Read"
               THEN ReadTop([c EXCEPT !.next = @ + 1,
                      !.inflight = @ \cup {[id |-> c.out.id, idx |-> c.next]}])
               ELSE [c EXCEPT !.at = "Wait"]
  /\ UNCHANGED wire

\* fill(): the read in wait_event() returned n units
Fill(n) ==
  /\ cl.at = "Wait"
  /\ \E r \in {ApplyAdvance(cl.run)} :
       /\ n <= Least(Want(r), Len(wire))
       /\ \E d \in {[cl EXCEPT !.run = InputDone(r, n, Head(wire))]} : cl' = Run(d)
  /\ wire' = SubSeq(wire, n + 1, Len(wire))
  /\ UNCHANGED inbox

\* the operation goes on when its data has been taken
AfterTake(c) ==
  LET d == [c EXCEPT !.run = DataTaken(@, @.recvData), !.poisoned = FALSE]
  IN Run(IF c.phase = "Drain" THEN DrainReplies(d) ELSE ReadTop(d))

\* the place in the file of a unit of a data reply, counted from one
PlaceOf(u) == u.reply.from + u.k - 2

\* the read in take_data() returned n units
Take(n) ==
  /\ cl.at = "Take"
  /\ n <= Least(cl.left, Len(wire))
  /\ \E c \in {[cl EXCEPT
       !.left = @ - n, !.to = IF @ = 0 THEN 0 ELSE @ + n,
       !.buf = [k \in DOMAIN @ |->
                  IF cl.to > 0 /\ k \in cl.to .. cl.to + n - 1
                    THEN PlaceOf(wire[k - cl.to + 1]) ELSE @[k]]]} :
       cl' = IF c.left = 0 THEN AfterTake(c) ELSE c
  /\ wire' = SubSeq(wire, n + 1, Len(wire))
  /\ UNCHANGED inbox

-----------------------------------------------------------------------------
(* The server.                                                             *)

\* the replies a server may give to a request
Answers(q) ==
  LET Small(kind, code) ==
        {[kind |-> kind, id |-> q.id, len |-> n, trail |-> 0, code |-> code,
          from |-> 0] : n \in Bodies}
      Streamed(kind, ns) ==
        {[kind |-> kind, id |-> q.id, len |-> n, trail |-> t, code |-> "ok",
          from |-> q.off] : n \in ns, t \in 0 .. MaxTrail}
      left == IF q.off < FileLen THEN Least(q.len, FileLen - q.off) ELSE 0
      least == IF "empty" \in Odd THEN 0 ELSE 1
      unknown == IF "unknown" \in Odd THEN Small("Unknown", "ok") ELSE {}
  IN unknown \cup
     CASE q.op = "Init" -> Small("Version", "ok")
       [] q.op \in {"Status", "Write"} ->
            Small("Status", "ok") \cup Small("Status", "fail")
       [] q.op \in {"Handle", "Attrs"} ->
            Small(q.op, "ok") \cup Small("Status", "fail")
       [] q.op = "Name" -> Streamed("Name", {1}) \cup Small("Status", "fail")
       [] q.op = "ReadDir" -> Streamed("Name", 0 .. 2) \cup Small("Status", "eof")
       [] q.op = "Read" -> IF left = 0 THEN Small("Status", "eof")
                           ELSE Streamed("Data", least .. left)
                                  \cup Small("Status", "fail")

\* requests made one after the other are answered in any order
Serve ==
  /\ \E q \in inbox : \E p \in Answers(q) :
       /\ inbox' = inbox \ {q}
       /\ wire' = wire \o Encode(p)
  /\ UNCHANGED cl

Init == cl = NewClient /\ inbox = {} /\ wire = <<>>

Sizes == 1 .. Chunk + RespBuf

FillAny == \E n \in Sizes : Fill(n)

TakeAny == \E n \in Sizes : Take(n)

CallAny == \E op \in Calls : \E len \in (IF op \in {"Read", "Write"} THEN Lens ELSE {0}) :
             Call(op, len)

Next == CallAny \/ DirNext \/ Cancel \/ Sent \/ FillAny \/ TakeAny \/ Serve

Spec == Init /\ [][Next]_vars

\* the channel carries what is written to it, the executor polls the future,
\* the server answers; the application need not call or drop anything
FairSpec == /\ Spec /\ WF_vars(Sent) /\ WF_vars(FillAny) /\ WF_vars(TakeAny)
            /\ WF_vars(Serve)

-----------------------------------------------------------------------------
(* Properties.                                                             *)

\* The state keeps its types and the pipeline its bound: read_chunks() finds a
\* free slot for every request it sends (the unwrap of inflight.find()).
TypeOK ==
  /\ cl \in Client
  /\ Cardinality(cl.inflight) <= Pipeline
  /\ inbox \subseteq Requests
  /\ \A i \in 1 .. Len(wire) : wire[i].reply \in Reply

\* The client never takes a header from the middle of a reply, or the middle of
\* one for a header: whatever was dropped, truncated or padded, end_packet(),
\* data_taken() and drain_replies() find the next reply.
InSync == TypeOK /\ cl.run.inState # "Lost"

\* No operation is given the reply to another: after a dropped future the next
\* operation reads its own reply, of the kind it asked for (drain_replies()).
OwnReply == cl.res.kind \notin {"Stale", "Bad"}

\* A read that returns n has the first n units of the file in the first n
\* places of the buffer, whatever order the replies came in and whichever of
\* them were short (read_chunks(), note_short()).
ReadPrefix ==
  cl.at = "Idle" /\ cl.op = "Read" /\ cl.res.kind = "Ok" =>
    \A k \in 1 .. cl.res.n : cl.buf[k] = k

\* The reply being read has an event to come that will count it as answered.
Unanswered(r) ==
  /\ r.inState \notin {"Header", "Drain"}
  /\ r.advance # "Packet"
  /\ r.recvData > 0 => r.ready

\* outstanding counts exactly the replies that are still to come, over dropped
\* futures and half listed directories, unless the position in the stream was
\* given up: drain_replies() neither stops early nor waits for a reply that
\* nobody will send.
OutstandingExact ==
  ~ cl.poisoned =>
    cl.run.outstanding = Cardinality(inbox)
      + Cardinality({i \in 1 .. Len(wire) : wire[i].k = 1})
      + (IF Unanswered(cl.run) THEN 1 ELSE 0)

\* An operation that is not dropped ends: nothing waits for a reply that has
\* already been read or was never asked for.
Finishes == []<>(cl.at \in {"Idle", "Iter"})
=============================================================================
