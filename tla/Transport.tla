------------------------------ MODULE Transport ------------------------------
(***************************************************************************)
(* Two sunset Runners, a client and a server, joined by a byte stream in   *)
(* each direction.  The module covers the transport layer: identification, *)
(* key exchange and re-keying (kex.rs), the output buffer with its drain   *)
(* flag and its queue of deferred packets (traffic.rs), the packet filter  *)
(* and the connection states (conn.rs), the keys and sequence numbers      *)
(* (encrypt.rs), and the order in which Runner::progress runs all of them  *)
(* (runner.rs).                                                            *)
(*                                                                         *)
(* A Runner is a record, and every method of the code is an operator from  *)
(* records to records; an error return sets the field err, after which the *)
(* application no longer calls the Runner.  A packet is one slot of the    *)
(* output buffer, whatever its length.  Above the transport there are only *)
(* three kinds of payload: channel data, a request that must be answered,  *)
(* and its answer.                                                         *)
(***************************************************************************)
EXTENDS Naturals, Sequences

CONSTANTS
  OutRoom,      \* packets that fit in TrafOut::buf
  DeferCount,   \* DEFER_COUNT, capacity of TrafOut::deferred_packets
  NetRoom,      \* packets the byte stream holds in one direction
  RekeyOut,     \* REKEY_BLOCKS_OUT_LIMIT, in packets
  RekeyIn,      \* REKEY_BLOCKS_IN_LIMIT, in packets
  Strict,       \* whether both sides offer strict kex
  Prompt,       \* the application runs progress() to idle before input()
  MaxData,      \* bound: channel data packets each application sends
  MaxReq        \* bound: requests each application sends

Peers == {"client", "server"}

ASSUME TransportAssumption ==
  \* the answers of one round of key exchange and authentication fit
  /\ OutRoom \in Nat /\ OutRoom >= 5
  /\ DeferCount \in Nat /\ DeferCount >= 1
  /\ NetRoom \in Nat /\ NetRoom >= 1
  \* authentication is over long before 2^31 blocks have been sent
  /\ RekeyOut \in Nat /\ RekeyOut >= 3
  /\ RekeyIn \in Nat /\ RekeyIn >= RekeyOut
  /\ Strict \in BOOLEAN /\ Prompt \in BOOLEAN
  /\ MaxData \in [Peers -> Nat] /\ MaxReq \in [Peers -> Nat]

VARIABLES
  peer,   \* peer[p]: the Runner of p
  net     \* net[p]: packets on their way to p

vars == <<peer, net>>

Other(p) == IF p = "client" THEN "server" ELSE "client"

-----------------------------------------------------------------------------
(* Packets.                                                                *)

\* Category::All, Kex, Auth and Sess, for the packets the model sends
CatAll  == {"KexInit", "ExtInfo"}
CatKex  == {"NewKeys", "KexDHInit", "KexDHReply"}
CatAuth == {"ServiceRequest", "ServiceAccept", "UserauthRequest",
            "UserauthSuccess"}
CatSess == {"Data", "Req", "Reply"}

\* DeferredPacket: answers can wait, packets the application starts cannot
Deferrable == {"Reply"}

PacketTypes == {"Ident"} \cup CatAll \cup CatKex \cup CatAuth \cup CatSess

\* what a packet carries: a cookie, an exchange hash, or a number
Values == Nat \X Nat
NoValue == <<0, 0>>

\* A key is named by the cookies that were hashed into it, client first
Cleartext == <<0, 0>>

Packet == [t: PacketTypes, v: Values, k: Values, n: Nat]

Nothing == [t |-> "Ident", v |-> NoValue, k |-> Cleartext, n |-> 0]

-----------------------------------------------------------------------------
(* The state of one Runner.                                                *)

ConnStates == {"SendIdent", "ReceiveIdent", "FirstKex", "PreAuth", "Authed"}
KexStates  == {"Idle", "StartKexInit", "KexInit", "StartKexDH", "KexDH",
               "NewKeys", "Taken"}
RxStates   == {"Idle", "InPayload", "InChannelData"}
Resumable  == {"Hostkey", "Hostkeys", "Username", "FirstAuth"}
Events     == Resumable \cup {"None", "Authenticated"}
Errors     == {"ok", "PacketWrong", "SSHProto", "BusySend", "Bug", "Assert",
               "BadDecrypt", "BadSig", "Rejected"}

PeerState ==
  [cli: BOOLEAN,             \* CS::is_client()
   conn: ConnStates,         \* Conn::state
   ver: BOOLEAN,             \* Conn::remote_version is known
   sess: BOOLEAN,            \* Conn::sess_id is set
   auth: BOOLEAN,            \* CliAuth has left Unstarted
   kex: KexStates,           \* Conn::kex
   cookies: Nat,             \* cookies generated so far
   mine: Nat, theirs: Nat,   \* the cookies of this exchange
   drain: BOOLEAN,           \* TrafOut::drain
   sendingKex: BOOLEAN,      \* TrafOut::sending_kex
   out: Seq(Packet),         \* unsent part of TrafOut::buf
   used: Nat,                \* slots of TrafOut::buf in use since Idle
   deferred: Seq(PacketTypes \X Values),   \* oldest first
   rx: Packet, rxs: RxStates,              \* TrafIn
   enc: Values, dec: Values,               \* KeyState
   seqE: Nat, seqD: Nat, strict: BOOLEAN,
   blkOut: Nat, blkIn: Nat,
   ev: Events,                             \* resume_event
   extra: {"None", "Authenticated"},       \* extra_resume_event
   idled: BOOLEAN,              \* the last progress() returned Event::None
   nData: Nat, nReq: Nat,       \* what the application has sent
   got: Seq(Nat), rep: Seq(Nat),   \* data and answers it has received
   err: Errors]

NewRunner(cli) ==
  [cli |-> cli, conn |-> "SendIdent", ver |-> FALSE, sess |-> FALSE,
   auth |-> FALSE, kex |-> "Idle", cookies |-> 0, mine |-> 0, theirs |-> 0,
   drain |-> FALSE, sendingKex |-> FALSE, out |-> <<>>, used |-> 0,
   deferred |-> <<>>, rx |-> Nothing, rxs |-> "Idle",
   enc |-> Cleartext, dec |-> Cleartext, seqE |-> 0, seqD |-> 0,
   strict |-> FALSE, blkOut |-> 0, blkIn |-> 0,
   ev |-> "None", extra |-> "None", idled |-> FALSE,
   nData |-> 0, nReq |-> 0, got |-> <<>>, rep |-> <<>>, err |-> "ok"]

Fail(s, e) == [s EXCEPT !.err = e]

\* An assignment to Conn::kex that an earlier `?` would have skipped
Become(s, kex) == IF s.err = "ok" THEN [s EXCEPT !.kex = kex] ELSE s

IsSending(s)   == s.kex \in {"KexInit", "KexDH"}
IsReceiving(s) == s.kex \in {"KexDH", "StartKexDH", "NewKeys"}
IsStrict(s)    == IsReceiving(s) /\ Strict
IsFirstKex(s)  == ~s.sess
IsDrained(s)   == s.out = <<>> /\ s.deferred = <<>>
IsRekeyNeeded(s) == s.blkIn > RekeyIn \/ s.blkOut > RekeyOut

-----------------------------------------------------------------------------
(* TrafOut and KeyState.                                                   *)

\* Encrypts a packet into the output buffer
Encrypt(s, t, v) ==
  [s EXCEPT !.out = Append(@, [t |-> t, v |-> v, k |-> s.enc, n |-> s.seqE]),
            !.used = @ + 1, !.seqE = @ + 1, !.blkOut = @ + 1]

\* Mutant: sending_kex is not set when a KexInit is sent
TrackSendPacketNoFlag(s, t) ==
  IF t \in CatAuth \cup CatSess /\ s.enc = Cleartext THEN Fail(s, "Bug")
  ELSE s

\* The assertions on every packet sent, and the sending_kex flag
TrackSendPacket(s, t) ==
  IF t \in CatAuth \cup CatSess /\ s.enc = Cleartext THEN Fail(s, "Bug")
  ELSE IF s.sendingKex /\ t \notin CatAll \cup CatKex THEN Fail(s, "Assert")
  ELSE IF t = "KexInit"
    THEN IF s.sendingKex THEN Fail(s, "Assert")
         ELSE [s EXCEPT !.sendingKex = TRUE]
  ELSE IF t = "NewKeys"
    THEN IF ~s.sendingKex THEN Fail(s, "Assert")
         ELSE [s EXCEPT !.sendingKex = FALSE]
  ELSE s

Defer(s, t, v) ==
  IF t \in Deferrable /\ Len(s.deferred) < DeferCount
  THEN [s EXCEPT !.deferred = Append(@, <<t, v>>)]
  ELSE Fail(s, "BusySend")

SendPacket(s, t, v) ==
  IF s.err # "ok" THEN s
  ELSE IF t \in CatKex \/ (s.deferred = <<>> /\ ~s.sendingKex)
  THEN LET tracked == TrackSendPacket(s, t)
       IN  IF tracked.err # "ok" THEN tracked
           ELSE IF s.used < OutRoom THEN Encrypt(tracked, t, v)
           ELSE IF t \in CatKex THEN Fail(tracked, "Assert")
           ELSE Defer(tracked, t, v)
  ELSE Defer(s, t, v)

\* Mutant: the newest deferred packet is moved first
SendDeferredPacketsNewestFirst(s) ==
  LET len   == Len(s.deferred)
      room  == IF s.used < OutRoom THEN OutRoom - s.used ELSE 0
      count == IF len < room THEN len ELSE room
      moved == [i \in 1..count |->
                  [t |-> s.deferred[len + 1 - i][1],
                   v |-> s.deferred[len + 1 - i][2],
                   k |-> s.enc, n |-> s.seqE + (i - 1)]]
  IN  IF s.err # "ok" \/ s.deferred = <<>> THEN s
      ELSE [s EXCEPT !.out = @ \o moved, !.used = @ + count,
                     !.seqE = @ + count, !.blkOut = @ + count,
                     !.deferred = SubSeq(@, 1, len - count)]

\* Moves deferred packets, oldest first, while they fit
SendDeferredPackets(s) ==
  LET room  == IF s.used < OutRoom THEN OutRoom - s.used ELSE 0
      count == IF Len(s.deferred) < room THEN Len(s.deferred) ELSE room
      moved == [i \in 1..count |->
                  [t |-> s.deferred[i][1], v |-> s.deferred[i][2],
                   k |-> s.enc, n |-> s.seqE + (i - 1)]]
  IN  IF s.err # "ok" \/ s.deferred = <<>> THEN s
      ELSE IF s.sendingKex THEN Fail(s, "Assert")
      ELSE [s EXCEPT !.out = @ \o moved, !.used = @ + count,
                     !.seqE = @ + count, !.blkOut = @ + count,
                     !.deferred = SubSeq(@, count + 1, Len(@))]

SetDrainOutput(s, drain) ==
  IF s.drain = drain THEN Fail(s, "Assert") ELSE [s EXCEPT !.drain = drain]

RekeySend(s, key) ==
  [s EXCEPT !.enc = key, !.seqE = IF s.strict THEN 0 ELSE @, !.blkOut = 0]

RekeyRecv(s, key) ==
  [s EXCEPT !.dec = key, !.seqD = IF s.strict THEN 0 ELSE @, !.blkIn = 0]

-----------------------------------------------------------------------------
(* Kex.                                                                    *)

\* The exchange hash, and the name of the key derived from it
KexHash(s) == IF s.cli THEN <<s.mine, s.theirs>> ELSE <<s.theirs, s.mine>>

StartKexInit(s) ==
  IF s.kex # "Idle" THEN Fail(s, "Assert")
  ELSE Become(SetDrainOutput(s, TRUE), "StartKexInit")

\* KexCookie::generate(): a value no exchange has used
NewCookie(s) == [s EXCEPT !.cookies = @ + 1, !.mine = s.cookies + 1]

SendKexDHInit(s) ==
  IF s.cli THEN SendPacket(s, "KexDHInit", NoValue) ELSE s

\* Mutant: output keeps draining after our late KexInit has been sent
KexProgressKeepsDraining(s) ==
  CASE s.kex = "Idle" ->
         IF IsRekeyNeeded(s) THEN StartKexInit(s) ELSE s
    [] s.kex = "StartKexInit" ->
         IF ~IsDrained(s) THEN s
         ELSE LET c == NewCookie(SetDrainOutput(s, FALSE))
              IN  Become(SendPacket(c, "KexInit", <<c.mine, 0>>), "KexInit")
    [] s.kex = "StartKexDH" ->
         IF ~IsDrained(s) THEN s
         ELSE LET i == SendPacket(s, "KexInit", <<s.mine, 0>>)
              IN  Become(SendKexDHInit(i), "KexDH")
    [] OTHER -> s

KexProgress(s) ==
  CASE s.kex = "Idle" ->
         IF IsRekeyNeeded(s) THEN StartKexInit(s) ELSE s
    [] s.kex = "StartKexInit" ->
         IF ~IsDrained(s) THEN s
         ELSE LET c == NewCookie(SetDrainOutput(s, FALSE))
              IN  Become(SendPacket(c, "KexInit", <<c.mine, 0>>), "KexInit")
    [] s.kex = "StartKexDH" ->
         IF ~IsDrained(s) THEN s
         ELSE LET c == [SetDrainOutput(s, FALSE) EXCEPT !.kex = "Taken"]
                  i == SendPacket(c, "KexInit", <<c.mine, 0>>)
              IN  Become(SendKexDHInit(i), "KexDH")
    [] s.kex = "Taken" -> Fail(s, "Bug")
    [] OTHER -> s

\* Mutant: a peer's KexInit is refused while ours waits to be sent
HandleKexInitOneSided(s) ==
  IF s.kex \notin {"KexInit", "Idle"} THEN Fail(s, "PacketWrong")
  ELSE LET start == s.kex # "KexInit"
           known == [IF start THEN NewCookie(s) ELSE s EXCEPT
                       !.theirs = s.rx.v[1],
                       !.strict = @ \/ (IsFirstKex(s) /\ Strict)]
       IN  IF start THEN Become(SetDrainOutput(known, TRUE), "StartKexDH")
           ELSE Become(SendKexDHInit(known), "KexDH")

HandleKexInit(s) ==
  IF s.kex \notin {"KexInit", "Idle", "StartKexInit"}
  THEN Fail(s, "PacketWrong")
  ELSE IF IsFirstKex(s) /\ Strict /\ s.seqD # 1 THEN Fail(s, "PacketWrong")
  ELSE LET start   == s.kex # "KexInit"
           cookie  == IF start THEN NewCookie(s) ELSE s
           known   == [cookie EXCEPT !.theirs = s.rx.v[1],
                         !.strict = @ \/ (IsFirstKex(s) /\ Strict)]
           drained == IF s.kex = "Idle" THEN SetDrainOutput(known, TRUE)
                      ELSE known
       IN  IF start THEN Become(drained, "StartKexDH")
           ELSE Become(SendKexDHInit(known), "KexDH")

HandleKexDHInit(s) ==
  IF s.cli THEN Fail(s, "SSHProto")
  ELSE IF s.kex # "KexDH" THEN Fail(s, "PacketWrong")
  ELSE [s EXCEPT !.ev = "Hostkeys"]

HandleKexDHReply(s) ==
  IF ~s.cli THEN Fail(s, "SSHProto")
  ELSE IF s.kex # "KexDH" THEN Fail(s, "PacketWrong")
  ELSE [s EXCEPT !.ev = "Hostkey"]

HandleNewKeys(s) ==
  IF s.kex # "NewKeys" THEN Fail([s EXCEPT !.kex = "Taken"], "PacketWrong")
  ELSE [RekeyRecv(s, KexHash(s)) EXCEPT !.kex = "Idle"]

\* Sends NewKeys under the old key and switches to the new one
SendNewKeys(s) ==
  LET sent == SendPacket(s, "NewKeys", NoValue)
  IN  IF sent.err # "ok" THEN sent
      ELSE Become(RekeySend([sent EXCEPT !.sess = TRUE], KexHash(s)),
                  "NewKeys")

SendExtInfo(s) == SendPacket(s, "ExtInfo", NoValue)

\* Mutant: finishing a payload also drops channel data not yet read
DoneEventDropsData(s) == [s EXCEPT !.ev = "None", !.rxs = "Idle"]

\* Completes an event: Runner::resume()
DoneEvent(s) ==
  [s EXCEPT !.ev = "None",
            !.rxs = IF s.rxs = "InPayload" THEN "Idle" ELSE @]

\* The client application answers Hostkey; the signature covers the hash
ResumeCheckHostkey(s, accept) ==
  IF ~accept THEN Fail(s, "Rejected")
  ELSE IF s.rx.v # KexHash(s) THEN Fail([s EXCEPT !.kex = "Taken"], "BadSig")
  ELSE DoneEvent(SendNewKeys([s EXCEPT !.kex = "Taken"]))

\* The server application supplies its host keys
ResumeServHostkeys(s) ==
  LET first == IsFirstKex(s)
      reply == SendPacket([s EXCEPT !.kex = "Taken"], "KexDHReply",
                          KexHash(s))
      keyed == SendNewKeys(reply)
  IN  DoneEvent(IF first THEN SendExtInfo(keyed) ELSE keyed)

-----------------------------------------------------------------------------
(* Conn.                                                                   *)

\* Which packets may arrive in the present state
CheckPacket(s) ==
  IF IsFirstKex(s) /\ IsStrict(s) THEN s.rx.t \in CatKex
  ELSE IF IsReceiving(s) THEN s.rx.t \in CatAll \cup CatKex
  ELSE \/ s.rx.t \in CatAll \cup CatKex
       \/ s.rx.t \in CatAuth /\ s.conn \in {"PreAuth", "Authed"}
       \/ s.rx.t \in CatSess /\ s.conn = "Authed"

ServiceRequest(s) ==
  IF s.cli THEN Fail(s, "SSHProto")
  ELSE SendPacket(s, "ServiceAccept", NoValue)

UserauthRequest(s) ==
  IF s.cli THEN Fail(s, "SSHProto")
  ELSE IF s.conn = "Authed" THEN SendPacket(s, "UserauthSuccess", NoValue)
  ELSE [s EXCEPT !.ev = "FirstAuth"]

UserauthSuccess(s) ==
  IF ~s.cli THEN Fail(s, "SSHProto")
  ELSE IF s.conn = "PreAuth"
    THEN [s EXCEPT !.conn = "Authed", !.ev = "Authenticated"]
  ELSE s

DispatchPacket(s) ==
  IF ~CheckPacket(s) THEN Fail(s, "SSHProto")
  ELSE CASE s.rx.t = "KexInit"         -> HandleKexInit(s)
         [] s.rx.t = "KexDHInit"       -> HandleKexDHInit(s)
         [] s.rx.t = "KexDHReply"      -> HandleKexDHReply(s)
         [] s.rx.t = "NewKeys"         -> HandleNewKeys(s)
         [] s.rx.t = "ServiceRequest"  -> ServiceRequest(s)
         [] s.rx.t = "UserauthRequest" -> UserauthRequest(s)
         [] s.rx.t = "UserauthSuccess" -> UserauthSuccess(s)
         [] s.rx.t = "Data"  -> [s EXCEPT !.rxs = "InChannelData"]
         [] s.rx.t = "Req"   -> SendPacket(s, "Reply", s.rx.v)
         [] s.rx.t = "Reply" -> [s EXCEPT !.rep = Append(@, s.rx.v[1])]
         [] OTHER -> s

\* What Conn::progress() does after Kex::progress(); idled is reset where the
\* connection state moved and progress() is to be called again
ConnProgress(s) ==
  CASE s.conn = "SendIdent" ->
         [StartKexInit([s EXCEPT !.out = Append(@, Nothing), !.used = 1])
            EXCEPT !.conn = "ReceiveIdent", !.idled = FALSE]
    [] s.conn = "ReceiveIdent" /\ s.ver ->
         [s EXCEPT !.conn = "FirstKex", !.idled = FALSE]
    [] s.conn = "FirstKex" /\ s.sess ->
         [s EXCEPT !.conn = "PreAuth", !.idled = FALSE]
    [] s.conn = "PreAuth" /\ s.cli /\ ~s.auth ->
         [s EXCEPT !.ev = "Username", !.auth = TRUE]
    [] OTHER -> s

-----------------------------------------------------------------------------
(* Runner.                                                                 *)

\* Neither an error nor an event has ended this call of progress()
Running(s) == s.err = "ok" /\ s.ev = "None"

\* Mutant: deferred packets are not sent once the key exchange is over
BeginProgressNoDeferred(s) ==
  IF s.extra # "None"
  THEN [s EXCEPT !.ev = s.extra, !.extra = "None", !.idled = FALSE]
  ELSE [IF s.ev # "None" THEN DoneEvent(s) ELSE s EXCEPT !.idled = TRUE]

\* The first part of Runner::progress(), whose caller has answered the previous
\* event: a pending second event is emitted at once; otherwise the payload of
\* the previous event is finished with and deferred packets move on
BeginProgress(s) ==
  IF s.extra # "None"
  THEN [s EXCEPT !.ev = s.extra, !.extra = "None", !.idled = FALSE]
  ELSE LET ready == [IF s.ev # "None" THEN DoneEvent(s) ELSE s
                       EXCEPT !.idled = TRUE]
       IN  IF IsSending(ready) THEN ready ELSE SendDeferredPackets(ready)

\* The packet is finished with, unless an event or channel data refers to it
HandlePayload(s) ==
  IF Running(s) /\ s.rxs = "InPayload"
  THEN LET d == DispatchPacket(s) IN IF Running(d) THEN DoneEvent(d) ELSE d
  ELSE s

IsInputReady(s) ==
  /\ ~(IsSending(s) /\ s.out # <<>>)
  /\ s.conn # "SendIdent"
  /\ s.rxs = "Idle"

\* TrafIn::input() with the bytes of one packet
RunnerInput(s, pkt) ==
  IF pkt.t = "Ident" THEN [s EXCEPT !.ver = TRUE]
  ELSE IF pkt.k # s.dec \/ (pkt.k # Cleartext /\ pkt.n # s.seqD)
  THEN Fail(s, "BadDecrypt")
  ELSE [s EXCEPT !.rx = pkt, !.rxs = "InPayload",
                 !.seqD = @ + 1, !.blkIn = @ + 1]

\* Bytes leave the buffer in order; its space is free once it is empty
ConsumeOutput(s) ==
  [s EXCEPT !.out = Tail(@), !.used = IF Len(s.out) = 1 THEN 0 ELSE @]

\* write_channel_ready() is not Some(0), leaving the channel window aside
WriteChannelReady(s) ==
  /\ ~IsSending(s)
  /\ ~s.drain
  /\ s.deferred = <<>>
  /\ s.used < OutRoom

ResumeUsername(s) ==
  SendPacket(SendPacket(DoneEvent(s), "ServiceRequest", NoValue),
             "UserauthRequest", NoValue)

ResumeServAuth(s) ==
  LET sent == SendPacket(s, "UserauthSuccess", NoValue)
  IN  DoneEvent(IF sent.err = "ok"
                THEN [sent EXCEPT !.conn = "Authed", !.extra = "Authenticated"]
                ELSE sent)

-----------------------------------------------------------------------------
(* The steps of an application and of the byte streams.                    *)

\* No event borrows the Runner, and it has not failed
Free(p) == peer[p].err = "ok" /\ peer[p].ev \notin Resumable

Set(p, s) == peer' = [peer EXCEPT ![p] = s]

\* Runner::progress(), stage by stage: an error or an event ends the call
Progress(p) ==
  /\ Free(p)
  /\ \E begun \in {BeginProgress(peer[p])} :
     \E handled \in {HandlePayload(begun)} :
     \E exchanged \in {IF Running(handled) THEN KexProgress(handled)
                       ELSE handled} :
     \E done \in {IF Running(exchanged) THEN ConnProgress(exchanged)
                  ELSE exchanged} :
       Set(p, [done EXCEPT !.idled = @ /\ done.ev = "None"])
  /\ UNCHANGED net

Input(p) ==
  /\ Free(p)
  /\ Prompt => peer[p].idled
  /\ IsInputReady(peer[p])
  /\ net[p] # <<>>
  /\ Set(p, [RunnerInput(peer[p], Head(net[p])) EXCEPT !.idled = FALSE])
  /\ net' = [net EXCEPT ![p] = Tail(@)]

Output(p) ==
  /\ Free(p)
  /\ peer[p].out # <<>>
  /\ Len(net[Other(p)]) < NetRoom
  /\ Set(p, ConsumeOutput(peer[p]))
  /\ net' = [net EXCEPT ![Other(p)] = Append(@, Head(peer[p].out))]

\* The application answers the event it was given
Resume(p) ==
  /\ peer[p].err = "ok"
  /\ \/ /\ peer[p].ev = "Hostkey"
        /\ Set(p, ResumeCheckHostkey(peer[p], TRUE))
     \/ /\ peer[p].ev = "Hostkeys"
        /\ Set(p, ResumeServHostkeys(peer[p]))
     \/ /\ peer[p].ev = "Username"
        /\ Set(p, ResumeUsername(peer[p]))
     \/ /\ peer[p].ev = "FirstAuth"
        /\ Set(p, ResumeServAuth(peer[p]))
  /\ UNCHANGED net

\* write_channel() with a buffer that fits one packet
WriteChannel(p) ==
  /\ Free(p)
  /\ peer[p].conn = "Authed"
  /\ peer[p].nData < MaxData[p]
  /\ WriteChannelReady(peer[p])
  /\ LET n == peer[p].nData + 1
     IN  Set(p, [SendPacket(peer[p], "Data", <<n, 0>>) EXCEPT !.nData = n])
  /\ UNCHANGED net

\* read_channel() until the packet has been read
ReadChannel(p) ==
  /\ Free(p)
  /\ peer[p].rxs = "InChannelData"
  /\ Set(p, [peer[p] EXCEPT !.rxs = "Idle", !.got = Append(@, peer[p].rx.v[1])])
  /\ UNCHANGED net

\* A request of the application, for example to open a channel; when it
\* cannot be sent at once BusySend tells the application to try again
SendRequest(p) ==
  /\ Free(p)
  /\ peer[p].conn = "Authed"
  /\ peer[p].nReq < MaxReq[p]
  /\ LET n == peer[p].nReq + 1
         s == SendPacket(peer[p], "Req", <<n, 0>>)
     IN  /\ s.err # "BusySend"
         /\ Set(p, [s EXCEPT !.nReq = n])
  /\ UNCHANGED net

Init ==
  /\ peer = [p \in Peers |-> NewRunner(p = "client")]
  /\ net = [p \in Peers |-> <<>>]

\* What the tasks of a program do without being asked: progress() is called
\* whenever it can be, the socket tasks move bytes, events are answered,
\* readers read
Serve(p) ==
  \/ Progress(p) \/ Input(p) \/ Output(p) \/ Resume(p) \/ ReadChannel(p)

Step(p) == Serve(p) \/ WriteChannel(p) \/ SendRequest(p)

Next == \E p \in Peers : Step(p)

\* A program does not stop while one of its tasks can do something; in which
\* order it serves them is left open.  The application need not have anything
\* to send.
Fairness == \A p \in Peers : WF_vars(Serve(p))

Spec == Init /\ [][Next]_vars

FairSpec == Spec /\ Fairness

-----------------------------------------------------------------------------
(* Properties.                                                             *)

\* The types, and the capacities of the output buffer, of the deferred queue
\* and of the byte streams
TypeOK ==
  /\ peer \in [Peers -> PeerState]
  /\ net \in [Peers -> Seq(Packet)]
  /\ \A p \in Peers : /\ peer[p].used <= OutRoom
                      /\ Len(peer[p].deferred) <= DeferCount
                      /\ Len(net[p]) <= NetRoom

\* Three modules keep their own idea of where the key exchange is: Kex its
\* state, TrafOut the flag sending_kex ("Set between sending KexInit and
\* sending NewKeys") and the flag drain.  They agree between any two calls:
\* sending_kex is set exactly in the states for which Kex::is_sending() holds,
\* and output drains exactly while a KexInit waits to be sent.
KexFlagsAgree ==
  \A p \in Peers : peer[p].err = "ok" =>
    /\ peer[p].sendingKex <=> IsSending(peer[p])
    /\ peer[p].drain <=> peer[p].kex \in {"StartKexInit", "StartKexDH"}

\* Two sunset peers never refuse each other's packets, whatever the
\* interleaving of re-keys that one or both of them start with data, requests
\* and answers: no PacketWrong or SSHProto from the packet filter, no
\* decryption or signature failure from a key or a sequence number that
\* differs, and none of the debug assertions on the output buffer.  Answers
\* that a key exchange postpones find room in deferred_packets, with no more
\* than DEFER_COUNT requests of the other side outstanding (no BusySend).
PeersUnderstand ==
  /\ TypeOK
  /\ \A p \in Peers : peer[p].err \notin
       {"PacketWrong", "SSHProto", "Bug", "Assert", "BadDecrypt", "BadSig",
        "BusySend"}

\* Everything p has sent and the other side has not yet taken in
Stream(p) == net[Other(p)] \o peer[p].out

\* Once a KexInit is in the stream nothing but key exchange packets follows it
\* up to the NewKeys (RFC 4253 section 7.1): channel data and answers are held
\* back or deferred.
QuietDuringKex ==
  \A p \in Peers : \A i, j \in 1..Len(Stream(p)) :
    ( /\ i < j
      /\ Stream(p)[i].t = "KexInit"
      /\ \A k \in (i+1)..(j-1) : Stream(p)[k].t # "NewKeys" )
    => Stream(p)[j].t \in CatKex

\* Channel data and answers arrive once each and in the order they were sent,
\* also when deferral and re-keying come between them.
Counting(seq) == \A i \in 1..Len(seq) : seq[i] = i
InOrder == \A p \in Peers : Counting(peer[p].got) /\ Counting(peer[p].rep)

\* Both ends exchange keys, take no input before their output has left, and
\* both streams are full: nothing moves any more
Choked ==
  \A p \in Peers : /\ IsSending(peer[p]) /\ peer[p].out # <<>>
                   /\ Len(net[p]) = NetRoom

\* An application that found the channel not ready for writing can write
\* again, whether a key exchange, draining, deferral or a full buffer was the
\* reason: "When write_channel_ready() returns Some(0), a subsequent
\* channel_wake_write() needs to occur" (runner.rs).  Again and again both
\* ends are ready, and when nothing more is sent they stay so.  There is one
\* exception: is_input_ready() lets both ends wait for each other when they
\* exchange keys and both byte streams are full.
WritersResume ==
  \/ []<>(\A p \in Peers :
            peer[p].conn = "Authed" => WriteChannelReady(peer[p]))
  \/ <>[]Choked

\* The channel data the applications have sent reaches the other application,
\* and every request is answered, also when its answer was deferred, through
\* every key exchange that comes between: as they send a bounded number of
\* them, again and again none is left on its way.  The exception is the same.
Delivered ==
  \/ []<>(\A p \in Peers : /\ Len(peer[Other(p)].got) = peer[p].nData
                            /\ Len(peer[p].rep) = peer[p].nReq)
  \/ <>[]Choked

=============================================================================
