------------------------------- MODULE Client -------------------------------
(***************************************************************************)
(* The blocking client (client/src/ssh.rs, ssh/trust.rs, ssh/auth.rs,      *)
(* ssh/agent.rs): a route of jump hosts that ends at a destination, where  *)
(* the Connection of a hop runs over a channel of the Connection before    *)
(* it; the known-hosts policy and the keys offered at every hop; and the   *)
(* loop that drives all of them over one socket, with bounded queues and   *)
(* an application thread that sleeps in poll() when there is nothing to do.*)
(*                                                                         *)
(* The Runner of a hop is reduced to what this code sees of it: one packet *)
(* at a time, the event it gives rise to, and an output buffer (Transport, *)
(* Auth and Channels model what is inside).  The servers, the socket, the  *)
(* agent and the application are the environment.  A packet of a hop is    *)
(* one unit of the stream that the hop before carries.                     *)
(***************************************************************************)
EXTENDS Naturals, Sequences, FiniteSets, SequencesExt

CONSTANTS
  MaxHops,      \* bound: hops of a route
  MaxJumps,     \* MAX_JUMPS
  StdoutLimit,  \* MAX_QUEUED_STDOUT, in units
  StderrLimit,  \* MAX_QUEUED_STDERR, in units
  DrainMax,     \* the buffer of drain_channel(), in units
  ReadMax,      \* the buffer of the socket read, in packets
  DriveBudget,  \* DRIVE_BUDGET
  OutRoom,      \* packets the output buffer of a Runner holds
  SockRoom,     \* packets the socket takes before it would block
  Window,       \* the receive window of a channel, in units
  Scenarios     \* options, files, servers and faults of an execution

ASSUME ClientAssumption ==
  /\ {MaxHops, StdoutLimit, StderrLimit, DrainMax, ReadMax, DriveBudget,
      OutRoom, SockRoom, Window} \subseteq Nat \ {0}
  /\ MaxJumps \in Nat
  /\ \A s \in Scenarios : Len(s.opts) \in 1..MaxHops

VARIABLES
  scen,    \* the scenario
  known,   \* the known-hosts file: pairs of a lookup name and a key
  conn,    \* the Connection of each hop
  app,     \* the thread that owns the outermost Channel
  wire,    \* the socket
  srv,     \* the server of each hop
  ui,      \* the thread that holds a Wake
  hist     \* what the servers were told and the application read

vars == <<scen, known, conn, app, wire, srv, ui, hist>>

Hops == 1..MaxHops

\* The hop whose Connection the application owns now
Top == app.hop

NoKey == "nokey"
Pkt(t) == [t |-> t, k |-> NoKey, n |-> 0, u |-> <<>>]
Keyed(t, k) == [Pkt(t) EXCEPT !.k = k]
Item(n) == [Pkt("item") EXCEPT !.n = n]
Data(t, u) == [Pkt(t) EXCEPT !.u = u]
NoPacket == Pkt("none")

Smaller(m, n) == IF m < n THEN m ELSE n
First(s, n) == SubSeq(s, 1, Smaller(n, Len(s)))
After(s, n) == SubSeq(s, Smaller(n, Len(s)) + 1, Len(s))

-----------------------------------------------------------------------------
(* Options.                                                                *)

RecordsUnknown(checking) == checking \in {"accept-new", "no"}
AllowsChanged(checking) == checking = "no"

\* Options::validate(): the whole route is checked before anything is opened
Validate(opts) ==
  /\ Len(opts) <= MaxJumps + 1
  /\ \A h \in DOMAIN opts :
       /\ opts[h].valid
       /\ opts[h].files # <<>> \/ opts[h].agent.use

-----------------------------------------------------------------------------
(* The known-hosts store.  A Connection keeps the entries it loaded; what  *)
(* it records goes to the file and to them.                                *)

\* Store::load() and parse(): a file with a row that is malformed or not
\* supported is refused as a whole, one that is not there is empty
LoadStore(o) == ~o.badFile

Status(store, name, key) ==
  IF <<name, key>> \in store THEN "Match"
  ELSE IF \E e \in store : e[1] = name THEN "Changed" ELSE "Unknown"

Failed(w, kind) == [w EXCEPT !.err = kind]

\* mutant: the key is not kept for the next key exchange
RecordFileOnly(w, h, entry) == [w EXCEPT !.known = @ \cup {entry}]

\* Store::record(): append and sync, which may fail, then the entry
Record(w, h, entry) ==
  IF ~scen.opts[h].writable THEN Failed(w, "Configuration")
  ELSE [w EXCEPT !.known = @ \cup {entry}, !.conn[h].store = @ \cup {entry}]

\* verify_with()
VerifyWith(w, h, key) ==
  LET o == scen.opts[h]
      s == Status(w.conn[h].store, o.name, key)
  IN  CASE s = "Match" -> w
        [] s = "Unknown" -> IF RecordsUnknown(o.checking)
                              THEN Record(w, h, <<o.name, key>>)
                            ELSE Failed(w, "UnknownHostKey")
        [] s = "Changed" -> IF AllowsChanged(o.checking) THEN w
                            ELSE Failed(w, "ChangedHostKey")

-----------------------------------------------------------------------------
(* Credentials.  A file is "plain" (it can sign), "handle" (encrypted, of  *)
(* a security key, or public only: its public half is known) or "missing". *)

NoCredentials == [loaded |-> FALSE, keys |-> <<>>, current |-> NoKey,
                  source |-> "none", offered |-> 0]

LoadFile(f) == f.kind = "plain"
PublicIdentity(f) == f.kind # "missing"

Sourced(keys, source) == [i \in DOMAIN keys |-> [k |-> keys[i], s |-> source]]

FileKeys(a) ==
  LET plain == SelectSeq(a.files, LoadFile)
  IN  Sourced([i \in DOMAIN plain |-> plain[i].k], "file")

Allowed(a) == {a.files[i].k : i \in {j \in DOMAIN a.files :
                                       PublicIdentity(a.files[j])}}

\* Agent::identities(): the keys of a supported type; none at all is an error
Identities(a) == SelectSeq(a.agent.keys, LAMBDA k : k \in a.agent.supported)

AgentListed(a) == a.agent.use /\ a.agent.up /\ Identities(a) # <<>>

\* mutant: IdentitiesOnly does not reach the agent
AgentKeysAll(a) ==
  IF AgentListed(a) THEN Sourced(Identities(a), "agent") ELSE <<>>

AgentKeys(a) ==
  LET Permitted(k) == a.idsOnly => k \in Allowed(a)
  IN  IF AgentListed(a) THEN Sourced(SelectSeq(Identities(a), Permitted), "agent")
      ELSE <<>>

\* Credentials::load(): files first, then the agent; an agent that fails does
\* no harm when a file was loaded.  No key at all is an error of the caller.
LoadCredentials(a) ==
  [NoCredentials EXCEPT !.loaded = TRUE, !.keys = FileKeys(a) \o AgentKeys(a)]

\* next_key()
NextKey(c) ==
  [c EXCEPT !.keys = Tail(@), !.current = Head(c.keys).k,
            !.source = Head(c.keys).s, !.offered = @ + 1]

-----------------------------------------------------------------------------
(* A Connection and what it sees of its Runner: the packet taken by        *)
(* input(), whether its data is being read, resume_event (ev), the event   *)
(* that follows from the same packet, whether a key exchange is being      *)
(* sent, and the output buffer.  lost is auxiliary.                        *)

NoConnection ==
  [live |-> FALSE, store |-> {}, creds |-> NoCredentials, verified |-> FALSE,
   authed |-> FALSE, chan |-> "none", session |-> FALSE, started |-> FALSE,
   incoming |-> <<>>, stdout |-> <<>>, stderr |-> <<>>, closed |-> FALSE,
   rx |-> NoPacket, reading |-> FALSE, asked |-> FALSE, ev |-> "None",
   extra |-> "None", kex |-> FALSE, out |-> <<>>, closedIn |-> FALSE,
   lost |-> FALSE]

\* authenticate(): a new Connection over a transport
NewConnection(store) == [NoConnection EXCEPT !.live = TRUE, !.store = store]

Send(c, p) == [c EXCEPT !.out = Append(@, p)]

\* resume() by the answer to an event
Resumed(c) == [c EXCEPT !.rx = NoPacket, !.ev = "None"]

\* The payload of the previous event is done with.  SessionOpened has none: its
\* packet was done with before it was emitted, and what input() has taken since
\* is dropped.
DonePayload(c) ==
  [Resumed(c) EXCEPT !.lost = @ \/ (c.ev = "SessionOpened" /\ c.rx # NoPacket)]

\* Connection::handle_payload(): a payload that gives rise to no event is done
\* with, and the caller is told of no progress
HandlePayload(c) ==
  LET done == Resumed(c)
  IN  CASE c.rx.t = "kexinit" -> Send([done EXCEPT !.kex = TRUE], Pkt("kexinit"))
        [] c.rx.t = "hostkey" -> [c EXCEPT !.ev = "Hostkey"]
        [] c.rx.t = "newkeys" ->
             IF c.asked THEN done
             ELSE [done EXCEPT !.ev = "Username", !.asked = TRUE]
        [] c.rx.t = "failure" -> [c EXCEPT !.ev = "Pubkey"]
        [] c.rx.t = "pkok" -> [c EXCEPT !.ev = "AgentSign"]
        [] c.rx.t = "success" -> [c EXCEPT !.ev = "Authenticated"]
        [] c.rx.t = "openok" ->
             [done EXCEPT !.chan = "open",
                          !.ev = IF c.session THEN "SessionOpened" ELSE "None"]
        [] c.rx.t = "openfail" -> [done EXCEPT !.chan = "finished"]
        [] c.rx.t = "eof" -> [done EXCEPT !.chan = "eof"]
        [] c.rx.t = "close" ->
             Send([done EXCEPT !.chan = "finished"], Pkt("close"))
        [] c.rx.t \in {"data", "stderr"} -> [c EXCEPT !.reading = TRUE]

\* Runner::progress(): an event that follows from the same packet comes first
Progress(c) ==
  LET d == IF c.ev = "None" THEN c ELSE DonePayload(c)
  IN  IF c.extra # "None" THEN [c EXCEPT !.ev = c.extra, !.extra = "None"]
      ELSE IF d.rx # NoPacket THEN HandlePayload(d)
      ELSE [d EXCEPT !.ev = IF c.closedIn THEN "Defunct" ELSE "None"]

\* channel_eof(), forward_ready(), forward_finished()
ChannelEof(c) ==
  \/ c.closed
  \/ c.chan # "none" /\ (c.closedIn \/ c.chan \in {"eof", "finished"})

ForwardReady(c) == c.chan \in {"open", "eof"}
ForwardFinished(c) == c.chan = "finished"

\* Channel::readable() and Channel::eof()
Readable(c) == c.stdout # <<>> \/ c.stderr # <<>>

\* mutant: the queues are not looked at
EofTooSoon(c) == ChannelEof(c)

Eof(c) == ChannelEof(c) /\ ~Readable(c)

-----------------------------------------------------------------------------
(* pump().  w is what a step of it changes: the Connections, the socket,   *)
(* the file, the keys accepted so far; with whether it made progress,      *)
(* whether the loop returns, and the error it returns.                     *)

World == [conn |-> conn, wire |-> wire, known |-> known,
          accepted |-> hist.accepted, moved |-> FALSE, stop |-> FALSE,
          err |-> "none"]

\* drain_channel(): as much of the data being read as its queue has room for;
\* the window is given back when the packet is done with
DrainChannel(w, h) ==
  LET c == w.conn[h]
      isErr == c.rx.t = "stderr"
      queue == IF isErr THEN c.stderr ELSE c.stdout
      limit == IF isErr THEN StderrLimit ELSE StdoutLimit
      n == Smaller(Smaller(DrainMax, limit - Len(queue)), Len(c.rx.u))
      rest == After(c.rx.u, n)
      q == [c EXCEPT !.stdout = IF isErr THEN @ ELSE @ \o First(c.rx.u, n),
                     !.stderr = IF isErr THEN @ \o First(c.rx.u, n) ELSE @,
                     !.rx.u = rest, !.rx.n = @ + n]
      d == IF rest # <<>> THEN q
           ELSE Send([q EXCEPT !.rx = NoPacket, !.reading = FALSE],
                     [Pkt("adjust") EXCEPT !.n = q.rx.n])
  IN  IF ~c.reading \/ n = 0 THEN w
      ELSE [w EXCEPT !.conn[h] = d, !.moved = TRUE]

\* The answers to the events, one operator per event
OnHostkey(w, h) ==
  LET key == w.conn[h].rx.k
      v == VerifyWith(w, h, key)
      accept == Send([Resumed(v.conn[h]) EXCEPT !.verified = TRUE,
                                                !.kex = FALSE],
                     Keyed("newkeys", key))
  IN  IF v.err # "none" THEN v
      ELSE [v EXCEPT !.conn[h] = accept,
                     !.accepted = @ \cup {<<app.tries, h, key>>}]

OnUsername(w, h) ==
  IF ~w.conn[h].verified THEN Failed(w, "Transport")
  ELSE [w EXCEPT !.conn[h] = Send(Resumed(@), Pkt("user"))]

OnPubkey(w, h) ==
  LET c == w.conn[h]
      l == IF c.creds.loaded THEN c.creds ELSE LoadCredentials(scen.opts[h])
      next == NextKey(l)
  IN  IF ~c.verified THEN Failed(w, "Transport")
      ELSE IF l.keys = <<>> /\ l.offered = 0 THEN Failed(w, "Authentication")
      ELSE IF l.keys = <<>>
        THEN [w EXCEPT !.conn[h] = [Resumed(c) EXCEPT !.creds = l,
                                                      !.extra = "Password"]]
      ELSE [w EXCEPT !.conn[h] =
              Send([Resumed(c) EXCEPT !.creds = next],
                   Keyed("offer", Head(l.keys).k))]

\* Agent::sign(), which the agent may refuse
AgentSigns(a) == a.signs

\* Credentials::sign(): by the file that was offered, which must hold the key
\* asked for, or by the agent
Signs(creds, key, a) ==
  CASE creds.source = "file" -> creds.current = key
    [] creds.source = "agent" -> AgentSigns(a)
    [] creds.source = "none" -> FALSE

OnAgentSign(w, h) ==
  LET c == w.conn[h]
  IN  IF ~c.creds.loaded THEN Failed(w, "Transport")
      ELSE IF ~Signs(c.creds, c.rx.k, scen.opts[h].agent)
        THEN Failed(w, "Authentication")
      ELSE [w EXCEPT !.conn[h] = Send(Resumed(c), Keyed("sig", c.rx.k))]

\* Authenticated and SessionOpened need no answer: resume_event stays until the
\* next progress()
OnSessionOpened(w, h) ==
  IF ~w.conn[h].session THEN Failed(w, "Transport")
  ELSE [w EXCEPT !.conn[h] =
          Send([@ EXCEPT !.session = FALSE, !.started = TRUE], Pkt("exec"))]

HandleEvent(w, h) ==
  LET c == w.conn[h]
      m == [w EXCEPT !.moved = TRUE]
  IN  CASE c.ev = "None" -> w
        [] c.ev = "Hostkey" -> OnHostkey(m, h)
        [] c.ev = "Username" -> OnUsername(m, h)
        [] c.ev = "Pubkey" -> OnPubkey(m, h)
        [] c.ev = "AgentSign" -> OnAgentSign(m, h)
        [] c.ev = "Password" -> Failed(m, "Authentication")
        [] c.ev = "Authenticated" ->
             IF c.verified THEN [m EXCEPT !.conn[h].authed = TRUE]
             ELSE Failed(m, "Transport")
        [] c.ev = "SessionOpened" -> OnSessionOpened(m, h)
        [] c.ev = "Defunct" -> [m EXCEPT !.conn[h].closed = TRUE,
                                         !.conn[h].ev = "None"]

\* what write_channel() takes: nothing while a key exchange is being sent
Room(c) == IF c.kex THEN 0 ELSE OutRoom - Smaller(OutRoom, Len(c.out))

\* Channel::write_buffered() of the hop before: WouldBlock is 0
WriteBuffered(c, units) ==
  LET n == Smaller(Room(c), Len(units))
  IN  IF n = 0 THEN c ELSE Send(c, Data("data", First(units, n)))

\* The socket is reset, or the channel of the hop before has ended
SinkFailed(w, h) == IF h = 1 THEN w.wire.reset ELSE ChannelEof(w.conn[h - 1])

\* flush_socket() over Transport::write()
FlushSocket(w, h) ==
  LET c == w.conn[h]
      n == IF h = 1
             THEN Smaller(SockRoom - Smaller(SockRoom, Len(w.wire.up)),
                          Len(c.out))
           ELSE Smaller(Room(w.conn[h - 1]), Len(c.out))
      sent == [w EXCEPT !.conn[h].out = After(@, n), !.moved = TRUE]
  IN  IF c.out = <<>> THEN w
      ELSE IF SinkFailed(w, h) THEN Failed(w, "Transport")
      ELSE IF n = 0 THEN w
      ELSE IF h = 1 THEN [sent EXCEPT !.wire.up = @ \o First(c.out, n)]
      ELSE [sent EXCEPT !.conn[h - 1] = WriteBuffered(@, c.out)]

\* Transport::read(), with Channel::read_buffered() of the hop before: the
\* packets read, those left, and whether the stream has ended
Source(w, h) == IF h = 1 THEN w.wire.down ELSE w.conn[h - 1].stdout
SourceEnded(w, h) == IF h = 1 THEN w.wire.fin ELSE ChannelEof(w.conn[h - 1])

ReadTransport(w, h) ==
  LET s == Source(w, h)
      r == [w EXCEPT !.conn[h].incoming = First(s, ReadMax), !.moved = TRUE]
  IN  IF h = 1 /\ w.wire.reset THEN Failed(w, "Transport")
      ELSE IF s = <<>>
        THEN IF SourceEnded(w, h)
               THEN [w EXCEPT !.conn[h].closedIn = TRUE, !.moved = TRUE]
             ELSE w
      ELSE IF h = 1 THEN [r EXCEPT !.wire.down = After(@, ReadMax)]
      ELSE [r EXCEPT !.conn[h - 1].stdout = After(@, ReadMax)]

\* A Runner in a key exchange sends what it has before it takes more
IsInputReady(c) ==
  c.closedIn \/ (c.rx = NoPacket /\ ~(c.kex /\ c.out # <<>>))

\* The end of a step: a read only when what was read before is used up, and
\* one packet of it for the runner
TakeInput(w, h) ==
  LET r == IF w.conn[h].incoming = <<>> THEN ReadTransport(w, h) ELSE w
      c == r.conn[h]
  IN  IF ~IsInputReady(w.conn[h]) THEN w
      ELSE IF c.incoming = <<>> THEN r
      ELSE [r EXCEPT !.conn[h].rx = Head(c.incoming), !.moved = TRUE,
                     !.conn[h].incoming = Tail(@)]

Stopped(w) == [w EXCEPT !.stop = TRUE]

\* The loop ends when a step made no progress and nothing read is left
Stepped(w, h) ==
  IF ~w.moved /\ w.conn[h].incoming = <<>> THEN Stopped(w) ELSE w

\* Op(w), for a w that is computed once
Then(w, Op(_)) == CHOOSE r \in {Op(v) : v \in {w}} : TRUE

\* The second half of a step: the data, then the input
Drained(w, h) ==
  IF w.conn[h].reading THEN Stopped(w)
  ELSE Then(TakeInput(w, h), LAMBDA t : Stepped(t, h))

PumpIn(w, h) == Then(DrainChannel(w, h), LAMBDA d : Drained(d, h))

\* The first half: the event, then the output
Checked(w, h) ==
  IF w.err # "none" \/ w.conn[h].closed THEN Stopped(w) ELSE w

Responded(w, h) ==
  IF w.stop THEN w
  ELSE Then(FlushSocket(w, h), LAMBDA f : Checked(f, h))

Respond(w, h) ==
  IF w.conn[h].reading THEN Stopped(w)
  ELSE Then([w EXCEPT !.conn[h] = Progress(@)],
            LAMBDA p : Then(Checked(HandleEvent(p, h), h),
                            LAMBDA e : Responded(e, h)))

\* One step of pump(), up to its output: the hop before gets a whole step of
\* its own first, and data that does not fit its queue stops the reads
RECURSIVE PumpOut(_, _)
PumpOut(w, h) ==
  LET Whole(g) ==
        Then(PumpOut(w, g), LAMBDA v : IF v.stop THEN v ELSE PumpIn(v, g))
      Continue(v) ==
        IF v.err # "none" THEN Stopped(v)
        ELSE Then(DrainChannel([v EXCEPT !.stop = FALSE], h),
                  LAMBDA d : Respond(d, h))
  IN  IF w.conn[h].closed THEN Stopped(w)
      ELSE Then(IF h = 1 THEN w ELSE Whole(h - 1), Continue)

\* mutant: the output of the hops before is not looked at
OutputPendingOwn(h) == conn[h].out # <<>>

\* output_pending() and Transport::buffered()
OutputPending(h) == \E g \in 1..h : conn[g].out # <<>>

Buffered(h) ==
  \E g \in 1..(h - 1) : conn[g].stdout # <<>> \/ conn[g].incoming # <<>>

-----------------------------------------------------------------------------
(* The thread that owns the Connection.  Its stage says which loop it is   *)
(* in: connecting ("auth", "forward", "session") or a call on the Channel  *)
(* ("read", "readerr", "write", "wait"); pc where in that loop.            *)

Ended == app.pc \in {"done", "error"}

\* drive() is called: DRIVE_BUDGET steps of pump()
Driving(a, stage) ==
  [a EXCEPT !.pc = "drive", !.stage = stage, !.steps = DriveBudget,
            !.any = FALSE]

NewApp == [pc |-> "start", hop |-> 1, stage |-> "none", steps |-> 0,
           any |-> FALSE, moved |-> FALSE, all |-> FALSE, tries |-> 0,
           err |-> "none"]

NoServer == [phase |-> "none", key |-> NoKey, win |-> 0, next |-> 1,
             stdin |-> FALSE, kexes |-> 0, kexing |-> FALSE, held |-> <<>>,
             inq |-> <<>>, outq |-> <<>>]

NewWire == [up |-> <<>>, down |-> <<>>, fin |-> FALSE, reset |-> FALSE,
            silent |-> FALSE]

\* Every error ends the attempt: what was built is dropped, and with it the
\* socket
Abort(a, kind) == [a EXCEPT !.pc = "error", !.err = kind]

\* The host keys a server has in this attempt, one per key exchange
KeysOf(h) == scen.keys[app.tries + 1][h]

HostkeyReply(h) == <<Keyed("hostkey", Head(KeysOf(h))), Pkt("newkeys")>>

\* connect() and connect_direct(): the options are valid and the known-hosts
\* file of the first hop is read before the socket is opened
Connect ==
  /\ app.pc = "start"
  /\ IF ~Validate(scen.opts) \/ ~LoadStore(scen.opts[1])
       THEN /\ app' = Abort(app, "Configuration")
            /\ UNCHANGED <<conn, wire, srv>>
     ELSE /\ conn' = [h \in Hops |-> IF h = 1 THEN NewConnection(known)
                                     ELSE NoConnection]
          /\ wire' = [NewWire EXCEPT !.down = HostkeyReply(1)]
          /\ srv' = [h \in Hops |-> IF h = 1 THEN [NoServer EXCEPT
                                                     !.phase = "auth"]
                                    ELSE NoServer]
          /\ app' = Driving([app EXCEPT !.hop = 1], "auth")
  /\ UNCHANGED <<scen, known, ui, hist>>

\* The loops end with the condition of their "while"
Reached(stage, c) ==
  CASE stage = "auth" -> c.authed
    [] stage = "forward" -> ForwardReady(c)
    [] stage = "session" -> c.started
    [] OTHER -> TRUE

\* open_forward_until() and open_session() begin with an open of a channel
Opening(c, session) ==
  Send([c EXCEPT !.creds = NoCredentials, !.chan = "opening",
                 !.session = session], Pkt("open"))

\* The store of the next hop is loaded before its channel is opened; nothing
\* is recorded between that and the start of its Connection
BadNext ==
  /\ app.stage = "auth" /\ app.hop < Len(scen.opts)
  /\ ~LoadStore(scen.opts[app.hop + 1])

\* An application: until eof() it reads both streams, writes what the other
\* thread queued, and waits
Reading(c) == IF Eof(c) THEN [app EXCEPT !.pc = "done"] ELSE Driving(app, "read")

\* What follows when a loop has ended
NextStage ==
  LET h == app.hop
      last == h = Len(scen.opts)
  IN  CASE app.stage = "auth" ->
             /\ conn' = [conn EXCEPT ![h] = Opening(@, last)]
             /\ app' = Driving(app, IF last THEN "session" ELSE "forward")
        [] app.stage = "forward" ->
             /\ conn' = [conn EXCEPT ![h].started = TRUE,
                                     ![h + 1] = NewConnection(known)]
             /\ app' = Driving([app EXCEPT !.hop = h + 1], "auth")
        [] app.stage = "session" ->
             app' = Reading(conn[h]) /\ UNCHANGED conn

Loops == {"auth", "forward", "session"}

Repeat ==
  IF ~Reached(app.stage, conn[Top])
    THEN app' = Driving(app, app.stage) /\ UNCHANGED conn
  ELSE IF BadNext THEN app' = Abort(app, "Configuration") /\ UNCHANGED conn
  ELSE NextStage

\* One step of pump() for the Connection the thread owns, in two: what it has
\* sent may be answered before it reads
Pumped(w, next) ==
  LET back == w.stop \/ (next = "drive" /\ app.steps = 1)
  IN  /\ conn' = w.conn /\ wire' = w.wire /\ known' = w.known
      /\ hist' = [hist EXCEPT !.accepted = w.accepted]
      /\ app' = IF w.err # "none" THEN Abort(app, w.err)
                ELSE IF back THEN [app EXCEPT !.pc = "driven", !.moved = FALSE,
                                              !.any = @ \/ w.moved]
                ELSE IF next = "input"
                  THEN [app EXCEPT !.pc = next, !.moved = w.moved]
                ELSE [app EXCEPT !.pc = next, !.moved = FALSE,
                                 !.any = @ \/ w.moved, !.steps = @ - 1]
      /\ UNCHANGED <<scen, srv, ui>>

Drive ==
  /\ app.pc = "drive"
  /\ \E w \in {PumpOut(World, Top)} : Pumped(w, "input")

Input ==
  /\ app.pc = "input"
  /\ \E w \in {PumpIn([World EXCEPT !.moved = app.moved], Top)} :
       Pumped(w, "drive")

\* drive() has returned to one of the connecting loops
Connecting ==
  LET c == conn[Top]
      refused == app.stage = "forward" /\ ForwardFinished(c)
  IN  /\ app.pc = "driven" /\ app.stage \in Loops
      /\ IF c.closed \/ refused
           THEN app' = Abort(app, "Transport") /\ UNCHANGED conn
         ELSE IF ~app.any
           THEN app' = [app EXCEPT !.pc = "ready"] /\ UNCHANGED conn
         ELSE Repeat
      /\ UNCHANGED <<scen, known, wire, srv, ui, hist>>

\* wait_ready() has returned: the loop goes on, or the call of wait() ends
Resume ==
  /\ app.pc = "check"
  /\ IF app.stage \in Loops THEN Repeat
     ELSE app' = Reading(conn[Top]) /\ UNCHANGED conn
  /\ UNCHANGED <<scen, known, wire, srv, ui, hist>>

\* wait_ready(): the poller is told what to wait for, unless something is
\* buffered in the hops before
WaitReady ==
  /\ app.pc = "ready"
  /\ app' = IF Buffered(Top) THEN [app EXCEPT !.pc = "check"]
            ELSE [app EXCEPT !.pc = "sleep", !.all = OutputPending(Top)]
  /\ UNCHANGED <<scen, known, conn, wire, srv, ui, hist>>

SocketReady ==
  \/ wire.down # <<>> \/ wire.fin
  \/ app.all /\ Len(wire.up) < SockRoom

\* poll() returns for the socket, or for a notification: that one counts only
\* while wake_pending is set
Wake ==
  /\ app.pc = "sleep" /\ (SocketReady \/ ui.note)
  /\ app' = IF SocketReady \/ ui.pending THEN [app EXCEPT !.pc = "check"]
            ELSE app
  /\ ui' = [ui EXCEPT !.note = FALSE]
  /\ UNCHANGED <<scen, known, conn, wire, srv, hist>>

Lost == \E h \in Hops : conn[h].lost

\* The deadline: it is reached when the network has gone silent, when the
\* server refused the session, which open_session() does not look for, or when
\* what a packet was to set off does not happen because progress() dropped it
Timeout ==
  /\ wire.silent \/ conn[Top].chan = "finished" \/ Lost
  /\ app.pc = "sleep" /\ ~SocketReady
  /\ app' = Abort(app, "Timeout")
  /\ UNCHANGED <<scen, known, conn, wire, srv, ui, hist>>

\* Channel::wait() returns at once with something to read, or at the end
Wait(c) == IF Readable(c) \/ Eof(c) THEN Reading(c) ELSE Driving(app, "wait")

\* read_stream(): drive(), then what the queue holds
Read ==
  /\ app.pc = "driven" /\ app.stage = "read"
  /\ conn' = [conn EXCEPT ![Top].stdout = After(@, ReadMax)]
  /\ hist' = [hist EXCEPT !.got["data"] =
                            @ \o First(conn[Top].stdout, ReadMax)]
  /\ app' = Driving(app, "readerr")
  /\ UNCHANGED <<scen, known, wire, srv, ui>>

\* read_stderr(); then take_wakeup(), and write() or wait()
ReadStderr ==
  LET c == [conn[Top] EXCEPT !.stderr = After(@, ReadMax)]
  IN  /\ app.pc = "driven" /\ app.stage = "readerr"
      /\ conn' = [conn EXCEPT ![Top] = c]
      /\ hist' = [hist EXCEPT !.got["stderr"] =
                                @ \o First(conn[Top].stderr, ReadMax)]
      /\ ui' = [ui EXCEPT !.pending = FALSE]
      /\ app' = IF ui.queue # <<>> THEN Driving(app, "write") ELSE Wait(c)
      /\ UNCHANGED <<scen, known, wire, srv>>

\* Write::write(): drive(), write_buffered(), flush_socket() of this hop; then
\* wait()
Write ==
  LET c == conn[Top]
      room == Room(c) > 0
      w == FlushSocket([World EXCEPT !.conn[Top] = WriteBuffered(@, ui.queue)],
                       Top)
  IN  /\ app.pc = "driven" /\ app.stage = "write"
      /\ IF ChannelEof(c) \/ (room /\ w.err # "none")
           THEN app' = Abort(app, "Transport") /\ UNCHANGED <<conn, wire, ui>>
         ELSE /\ app' = Wait(c)
              /\ IF room
                   THEN /\ conn' = w.conn /\ wire' = w.wire
                        /\ ui' = [ui EXCEPT !.queue = <<>>]
                 ELSE UNCHANGED <<conn, wire, ui>>
      /\ UNCHANGED <<scen, known, srv, hist>>

\* The end of wait(): the socket is waited for only when nothing came
Waited ==
  LET c == conn[Top]
      idle == ~app.any /\ ~Readable(c) /\ ~Eof(c)
  IN  /\ app.pc = "driven" /\ app.stage = "wait"
      /\ app' = IF idle THEN [app EXCEPT !.pc = "ready"] ELSE Reading(c)
      /\ UNCHANGED <<scen, known, conn, wire, srv, ui, hist>>

\* The user tries again, with what is in the file by now
Reconnect ==
  /\ Ended /\ app.tries + 1 < scen.tries
  /\ app' = [NewApp EXCEPT !.tries = app.tries + 1]
  /\ hist' = [hist EXCEPT !.got = [t \in {"data", "stderr"} |-> <<>>],
                          !.told = {}, !.offers = [h \in Hops |-> <<>>],
                          !.sigs = [h \in Hops |-> <<>>]]
  /\ conn' = [h \in Hops |-> NoConnection]
  /\ srv' = [h \in Hops |-> NoServer]
  /\ wire' = NewWire
  /\ ui' = [step |-> "idle", queue |-> <<>>, pending |-> FALSE, note |-> FALSE]
  /\ UNCHANGED <<scen, known>>

-----------------------------------------------------------------------------
(* The other thread: it queues input, then Wake::notify() sets the flag    *)
(* and notifies the poller.                                                *)

Enqueue ==
  /\ ui.step = "idle" /\ scen.stdin /\ conn[Top].started
  /\ app.hop = Len(scen.opts) /\ ~Ended
  /\ ui' = [ui EXCEPT !.step = "queued", !.queue = <<Item(1)>>]
  /\ UNCHANGED <<scen, known, conn, app, wire, srv, hist>>

NotifyFlag ==
  /\ ui.step = "queued"
  /\ ui' = [ui EXCEPT !.step = "flagged", !.pending = TRUE]
  /\ UNCHANGED <<scen, known, conn, app, wire, srv, hist>>

NotifyPoller ==
  /\ ui.step = "flagged"
  /\ ui' = [ui EXCEPT !.step = "notified", !.note = TRUE]
  /\ UNCHANGED <<scen, known, conn, app, wire, srv, hist>>

-----------------------------------------------------------------------------
(* The servers.  A server past the first writes to outq, which the server  *)
(* before it relays as data of the forwarded channel.                      *)

Live == ~Ended /\ ~wire.silent /\ ~wire.fin

\* What a server does with a message: its answer, and its new state.  Between
\* its KEXINIT and its NEWKEYS a server sends nothing else: what it has to
\* answer is held
Reply(h, m) ==
  CASE m.t = "kexinit" -> <<Keyed("hostkey", KeysOf(h)[srv[h].kexes + 1]),
                            Pkt("newkeys")>> \o srv[h].held
    [] m.t = "user" -> <<Pkt("failure")>>
    [] m.t = "offer" -> <<IF m.k \in scen.authorized[h] THEN Keyed("pkok", m.k)
                          ELSE Pkt("failure")>>
    [] m.t = "sig" -> <<Pkt("success")>>
    [] m.t = "open" -> <<Pkt(IF scen.opens[h] THEN "openok" ELSE "openfail")>>
    [] OTHER -> <<>>

Served(h, m) ==
  LET s == srv[h]
  IN  CASE m.t = "kexinit" -> [s EXCEPT !.kexing = FALSE, !.held = <<>>]
        [] m.t = "sig" -> [s EXCEPT !.phase = "authed"]
        [] m.t = "open" /\ scen.opens[h] -> [s EXCEPT !.phase = "open",
                                                      !.win = Window]
        [] m.t = "exec" -> [s EXCEPT !.phase = "running"]
        [] m.t = "data" -> [s EXCEPT !.stdin = TRUE]
        [] m.t = "adjust" -> [s EXCEPT !.win = @ + m.n]
        [] OTHER -> s

Told(h, m) ==
  [hist EXCEPT
     !.told = IF m.t \in {"user", "offer", "sig"} THEN @ \cup {h} ELSE @,
     !.offers[h] = IF m.t = "offer" THEN Append(@, m.k) ELSE @,
     !.sigs[h] = IF m.t = "sig" THEN Append(@, m.k) ELSE @]

\* An opened forward starts the server of the next hop
Handle(h, m) ==
  LET up == IF h = 1 THEN Tail(wire.up) ELSE wire.up
      next == h < Len(scen.opts)
      taken == IF h = 1 THEN srv ELSE [srv EXCEPT ![h].inq = Tail(@)]
      hold == srv[h].kexing /\ m.t # "kexinit"
      now == IF hold THEN <<>> ELSE Reply(h, m)
      own == [taken EXCEPT
                ![h] = [Served(h, m) EXCEPT
                          !.inq = taken[h].inq,
                          !.held = IF hold THEN @ \o Reply(h, m) ELSE @]]
      fwd == CASE next /\ m.t = "data" -> [own EXCEPT ![h + 1].inq = @ \o m.u]
               [] next /\ m.t = "open" /\ scen.opens[h] ->
                    [own EXCEPT ![h + 1] = [NoServer EXCEPT
                       !.phase = "auth", !.outq = HostkeyReply(h + 1)]]
               [] OTHER -> own
  IN  /\ wire' = [wire EXCEPT !.up = up,
                              !.down = IF h = 1 THEN @ \o now ELSE @]
      /\ srv' = IF h = 1 THEN fwd
                ELSE [fwd EXCEPT ![h].outq = @ \o now]
      /\ hist' = Told(h, m)

ServerReceive(h) ==
  /\ Live
  /\ IF h = 1 THEN wire.up # <<>> /\ Handle(1, Head(wire.up))
     ELSE srv[h].inq # <<>> /\ Handle(h, Head(srv[h].inq))
  /\ UNCHANGED <<scen, known, conn, app, ui>>

\* A data packet of the forwarded channel of hop h, within its window
Relay(h) ==
  /\ Live /\ h + 1 \in Hops /\ srv[h].phase = "open" /\ ~srv[h].kexing
  /\ srv[h + 1].outq # <<>> /\ srv[h].win > 0
  /\ LET n == Smaller(srv[h].win, Len(srv[h + 1].outq))
         p == <<Data("data", First(srv[h + 1].outq, n))>>
         less == [srv EXCEPT ![h].win = @ - n,
                             ![h + 1].outq = After(@, n)]
     IN  /\ wire' = IF h = 1 THEN [wire EXCEPT !.down = @ \o p] ELSE wire
         /\ srv' = IF h = 1 THEN less ELSE [less EXCEPT ![h].outq = @ \o p]
  /\ UNCHANGED <<scen, known, conn, app, ui, hist>>

Destination == Len(scen.opts)

Say(h, s, ps) ==
  /\ wire' = IF h = 1 THEN [wire EXCEPT !.down = @ \o ps] ELSE wire
  /\ srv' = IF h = 1 THEN [srv EXCEPT ![1] = s]
            ELSE [srv EXCEPT ![h] = [s EXCEPT !.outq = @ \o ps]]
  /\ UNCHANGED <<scen, known, conn, app, ui, hist>>

\* The command writes its items; the last one waits for its standard input
Output ==
  LET h == Destination
      s == srv[h]
      i == s.next
  IN  /\ Live /\ s.phase = "running" /\ ~s.kexing
      /\ i <= Len(scen.items) /\ s.win > 0
      /\ i = Len(scen.items) /\ scen.stdin => s.stdin
      /\ Say(h, [s EXCEPT !.next = @ + 1, !.win = @ - 1],
             <<Data(scen.items[i], <<Item(i)>>)>>)

\* It exits, and the server may end the connection at once
Exit ==
  LET h == Destination
      s == srv[h]
  IN  /\ Live /\ s.phase = "running" /\ ~s.kexing /\ s.next > Len(scen.items)
      /\ Say(h, [s EXCEPT !.phase = "exited"], <<Pkt("eof"), Pkt("close")>>)

Hangup ==
  /\ Live /\ scen.hangup /\ srv[Destination].phase = "exited"
  /\ IF Destination = 1
       THEN wire' = [wire EXCEPT !.fin = TRUE] /\ UNCHANGED srv
     ELSE /\ srv[Destination].outq = <<>>
          /\ srv[Destination - 1].phase = "open"
          /\ LET g == Destination - 1
                 ps == <<Pkt("eof")>>
                 s == [srv EXCEPT ![g].phase = "closed"]
             IN  /\ wire' = IF g = 1 THEN [wire EXCEPT !.down = @ \o ps]
                            ELSE wire
                 /\ srv' = IF g = 1 THEN s ELSE [s EXCEPT ![g].outq = @ \o ps]
  /\ UNCHANGED <<scen, known, conn, app, ui, hist>>

\* A key exchange that the server starts, with the key it has by then
Rekey(h) ==
  LET s == srv[h]
  IN  /\ Live /\ s.phase \in {"authed", "open", "running"} /\ ~s.kexing
      /\ s.kexes + 1 < Len(KeysOf(h))
      /\ Say(h, [s EXCEPT !.kexes = @ + 1, !.kexing = TRUE], <<Pkt("kexinit")>>)

\* Faults of the network
Drop ==
  /\ Live /\ scen.drop /\ app.pc # "start"
  /\ \E reset \in BOOLEAN :
       wire' = [wire EXCEPT !.fin = TRUE, !.reset = reset]
  /\ UNCHANGED <<scen, known, conn, app, srv, ui, hist>>

Silence ==
  /\ Live /\ scen.silence /\ app.pc # "start"
  /\ wire' = [wire EXCEPT !.silent = TRUE]
  /\ UNCHANGED <<scen, known, conn, app, srv, ui, hist>>

-----------------------------------------------------------------------------
(* Specification.                                                          *)

Init ==
  /\ scen \in Scenarios
  /\ known = scen.known
  /\ conn = [h \in Hops |-> NoConnection]
  /\ app = NewApp
  /\ wire = NewWire
  /\ srv = [h \in Hops |-> NoServer]
  /\ ui = [step |-> "idle", queue |-> <<>>, pending |-> FALSE, note |-> FALSE]
  /\ hist = [accepted |-> {}, told |-> {}, offers |-> [h \in Hops |-> <<>>],
             sigs |-> [h \in Hops |-> <<>>],
             got |-> [t \in {"data", "stderr"} |-> <<>>]]

Thread ==
  \/ Connect \/ Drive \/ Input \/ Connecting \/ Resume \/ WaitReady \/ Wake \/ Timeout
  \/ Read \/ ReadStderr \/ Write \/ Waited \/ Reconnect

Notifier == Enqueue \/ NotifyFlag \/ NotifyPoller

Server(h) == ServerReceive(h) \/ Relay(h)

Next ==
  \/ Thread \/ Notifier
  \/ \E h \in Hops : Server(h) \/ Rekey(h)
  \/ Output \/ Exit \/ Hangup \/ Drop \/ Silence

Spec == Init /\ [][Next]_vars

\* The threads run, and a server that is there answers, relays and writes;
\* it need not re-key, hang up or fail
FairSpec ==
  /\ Spec /\ WF_vars(Thread) /\ WF_vars(Notifier)
  /\ \A h \in Hops : WF_vars(ServerReceive(h)) /\ WF_vars(Relay(h))
  /\ WF_vars(Output) /\ WF_vars(Exit)

-----------------------------------------------------------------------------
(* Properties.                                                             *)

Errors == {"none", "Configuration", "Transport", "UnknownHostKey",
           "ChangedHostKey", "Authentication", "Timeout"}

\* The queues of every Connection stay within their limits, the servers'
\* windows within theirs, and an attempt fails with one error.
TypeOK ==
  /\ app.hop \in 1..Len(scen.opts) /\ app.err \in Errors
  /\ (app.pc = "error") <=> (app.err # "none")
  /\ \A h \in Hops :
       /\ Len(conn[h].stdout) <= StdoutLimit
       /\ Len(conn[h].stderr) <= StderrLimit
       /\ Len(conn[h].incoming) <= ReadMax
       /\ srv[h].win \in 0..Window

Name(h) == scen.opts[h].name
Checking(h) == scen.opts[h].checking
NamedIn(file, name) == {e \in file : e[1] = name}

\* Over every key exchange of a connection and every later connection, a host
\* key is accepted only when its host has it in the known-hosts file, which
\* only accept-new and no extend and only for a host that has no key there;
\* the exception is a changed key under no (verify_with(), record()).
HostKeyPolicy ==
  /\ TypeOK
  /\ \A a \in hist.accepted :
       LET e == <<Name(a[2]), a[3]>>
       IN  /\ e \in known \/ Checking(a[2]) = "no"
           /\ Checking(a[2]) \in {"yes", "ask"} => e \in scen.known
  /\ \A e \in known \ scen.known :
       NamedIn(known, e[1]) = {e}

PlainFile(h, k) ==
  \E i \in DOMAIN scen.opts[h].files :
     scen.opts[h].files[i] = [k |-> k, kind |-> "plain"]

\* A server is told a user name or a key only after a host key of its hop was
\* accepted in this attempt; the keys it is asked about are identity files
\* first and agent keys after them, under IdentitiesOnly none that is not
\* configured; and what is signed is the key asked about last.
KeysInOrder ==
  \A h \in Hops :
    LET o == hist.offers[h]
    IN  /\ h \in hist.told => \E k \in {a[3] : a \in hist.accepted} :
                                  <<app.tries, h, k>> \in hist.accepted
        /\ \A j \in DOMAIN o :
             /\ PlainFile(h, o[j]) => \A i \in 1..j : PlainFile(h, o[i])
             /\ scen.opts[h].idsOnly =>
                  \E i \in DOMAIN scen.opts[h].files :
                    /\ scen.opts[h].files[i].k = o[j]
                    /\ scen.opts[h].files[i].kind # "missing"
        /\ hist.sigs[h] # <<>> => Last(hist.sigs[h]) = Last(o)

\* The items of the command's output that belong to stream t, in order
Written(t) ==
  LET Of(i) == scen.items[i] = t
      ids == SelectSeq([i \in 1..Len(scen.items) |-> i], Of)
  IN  [i \in DOMAIN ids |-> Item(ids[i])]

\* What the application reads is what the command wrote, in order and stream
\* by stream; when eof() is true it has read all of it, whatever the queues
\* and the hops between held when the end arrived, unless the connection was
\* lost (Channel::eof(), drain_channel(), pump()).  The exception is a packet
\* that pump() took in the step of SessionOpened and progress() dropped
\* (runner.rs:322): it may be the first of the output.
EofComplete ==
  \A t \in {"data", "stderr"} :
    \/ Lost
    \/ /\ IsPrefix(hist.got[t], Written(t))
       /\ app.pc = "done" /\ ~(scen.drop /\ wire.fin) => hist.got[t] = Written(t)

Authorizes(h) ==
  \E i \in DOMAIN scen.opts[h].files :
    /\ scen.opts[h].files[i].kind = "plain"
    /\ scen.opts[h].files[i].k \in scen.authorized[h]

\* Nothing stands in the way of the command: the route is valid, every hop
\* has a known key and takes one of the identity files, nothing fails
Sound ==
  /\ Validate(scen.opts)
  /\ ~scen.drop /\ ~scen.silence /\ ~scen.hangup
  /\ \A h \in 1..Len(scen.opts) :
       /\ scen.opens[h] /\ ~scen.opts[h].badFile /\ Authorizes(h)
       /\ \A i \in 1..scen.tries : \A k \in ToSet(scen.keys[i][h]) :
            <<Name(h), k>> \in scen.known

\* Every attempt ends; and when nothing fails it ends with the whole output,
\* without the help of a deadline: the thread never sleeps in poll() with
\* data in the queues of a hop, with output it could send, or past a wake-up
\* (wait_ready(), Channel::wait(), Wake).  The exception is the packet that is
\* dropped after SessionOpened: when it is the KEXINIT of the server, only the
\* deadline ends the attempt.
RunsToEnd ==
  /\ []<>(Ended)
  /\ Sound => []<>(app.pc = "done") \/ <>Lost
=============================================================================
