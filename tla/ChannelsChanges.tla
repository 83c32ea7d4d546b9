-------------------------- MODULE ChannelsChanges ---------------------------
(***************************************************************************)
(* The invariants of Channels that its proofs rest on, and the changes     *)
(* that the steps make to an end.  A change is a relation of the end       *)
(* before and the end after, field by field; many operators of Channels    *)
(* make the same.                                                          *)
(***************************************************************************)
EXTENDS Channels

-----------------------------------------------------------------------------
(* Route: where the packets of a conversation are and which slots it has.  *)

\* both ends know the number of the other
Usual == {"Normal", "RecvEof", "RecvClose"}

\* what is sent on a channel that is open
Plain == {"Adjust", "Data", "Eof", "Close", "Request"}

\* A slot has one of the conversations up to top, or none, or is left over
\* from one; no two slots have the same one.
Numbered(x, top) ==
  /\ \A n \in Slots :
       /\ x.ch[n].id <= top
       /\ x.ch[n].state # "Free" => x.ch[n].id # 0
       /\ x.ch[n].state = "Free" /\ x.ch[n].id # 0 => Reuses
  /\ \A n, m \in Slots :
       x.ch[n].id # 0 /\ x.ch[n].id = x.ch[m].id => n = m

\* Only an open channel has adjustments to send or data to read, and one that
\* waits for its answer is not done.
Tidy(x) ==
  /\ \A n \in Slots :
       /\ x.ch[n].pending # 0 \/ x.ch[n].confirmed => x.ch[n].state \in Usual
       /\ x.ch[n].state = "Opening" => ~ x.ch[n].done
  /\ x.rx.num # 0 => x.ch[x.rx.num].state \in Usual
  /\ x.err \in {"ok", "BusySend"}

\* end x has nothing of conversation i under way
Nothing(x, i) == \A j \in 1 .. Len(x.out) : x.out[j].id # i

\* end x has no slot for conversation i
NoSlot(x, i) == \A n \in Slots : x.ch[n].id # i

\* end x has confirmed conversation i, and the peer has yet to see it
Confirming(x, i) ==
  \E j \in 1 .. Len(x.out) : x.out[j].t = "Confirm" /\ x.out[j].id = i

\* slot n of the client: not answered, refused, or with its mate
ClientSlot(c, s, n) ==
  \/ c.ch[n].num = 0 /\ c.ch[n].state \in {"Opening", "PendingDone"}
  \/ /\ c.ch[n].num # 0 /\ c.ch[n].state \in Usual \cup {"Free"}
     /\ s.ch[c.ch[n].num].id = c.ch[n].id
     /\ s.ch[c.ch[n].num].state # "InOpen"

\* slot m of the server; while the application has not decided on it nothing
\* of its conversation is under way
ServerSlot(c, s, m) ==
  /\ s.ch[m].num # 0 /\ c.ch[s.ch[m].num].id = s.ch[m].id
  /\ s.ch[m].state \in Usual \cup {"Free", "InOpen"}
  /\ s.ch[m].state = "InOpen" =>
       /\ s.ev.k = "OpenSession" /\ s.ev.num = m
       /\ c.ch[s.ch[m].num].state = "Opening"
       /\ Nothing(c, s.ch[m].id) /\ Nothing(s, s.ch[m].id)
  /\ s.ch[m].state # "InOpen" /\ s.err = "ok" =>
       c.ch[s.ch[m].num].num # 0 \/ Confirming(s, s.ch[m].id)

Connected(c, s) ==
  /\ c.ev.k # "OpenSession"
  /\ s.ev.k = "OpenSession" =>
       s.ev.num # 0 /\ s.ch[s.ev.num].state = "InOpen"
  /\ \A n \in Slots : c.ch[n].id # 0 => ClientSlot(c, s, n)
  /\ \A m \in Slots : s.ch[m].id # 0 => ServerSlot(c, s, m)

\* packet j of the client is an Open, all there is of its conversation
OpenAt(c, s, j) ==
  /\ c.out[j].t = "Open" /\ c.out[j].id # 0 /\ c.out[j].from # 0
  /\ c.ch[c.out[j].from].id = c.out[j].id
  /\ c.ch[c.out[j].from].state = "Opening"
  /\ NoSlot(s, c.out[j].id) /\ Nothing(s, c.out[j].id)
  /\ \A k \in 1 .. Len(c.out) : c.out[k].id = c.out[j].id => k = j

\* packet j of the client is sent on an open channel
ClientAt(c, s, j) ==
  /\ c.out[j].t \in Plain /\ c.out[j].id # 0 /\ c.out[j].num # 0
  /\ s.ch[c.out[j].num].id = c.out[j].id
  /\ c.ch[s.ch[c.out[j].num].num].num # 0

\* packet j of the server is a refusal, all there is of its conversation
RefuseAt(c, s, j) ==
  /\ s.out[j].t = "Refuse" /\ c.ch[s.out[j].num].state = "Opening"
  /\ NoSlot(s, s.out[j].id) /\ Nothing(c, s.out[j].id)
  /\ \A k \in 1 .. Len(s.out) : s.out[k].id = s.out[j].id => k = j

\* packet j of the server is a confirmation, the first of its conversation
ConfirmAt(c, s, j) ==
  /\ s.out[j].t = "Confirm" /\ c.ch[s.out[j].num].state = "Opening"
  /\ s.out[j].from # 0 /\ s.ch[s.out[j].from].id = s.out[j].id
  /\ s.ch[s.out[j].from].state # "InOpen" /\ Nothing(c, s.out[j].id)
  /\ \A k \in 1 .. Len(s.out) :
       s.out[k].id = s.out[j].id => k = j \/ (k > j /\ s.out[k].t \in Plain)

\* packet j of the server is sent on a channel that it has confirmed
ServerAt(c, s, j) ==
  /\ s.out[j].t \in Plain /\ s.out[j].from # 0
  /\ s.ch[s.out[j].from].id = s.out[j].id
  /\ s.ch[s.out[j].from].state # "InOpen"
  /\ c.ch[s.out[j].num].num # 0 \/ Confirming(s, s.out[j].id)

UnderWayTo(c, s, j) ==
  /\ s.out[j].id # 0 /\ s.out[j].num # 0
  /\ c.ch[s.out[j].num].id = s.out[j].id
  /\ RefuseAt(c, s, j) \/ ConfirmAt(c, s, j) \/ ServerAt(c, s, j)

Addressed(c, s) ==
  /\ \A j \in 1 .. Len(c.out) : OpenAt(c, s, j) \/ ClientAt(c, s, j)
  /\ \A j \in 1 .. Len(s.out) : UnderWayTo(c, s, j)

Route(c, s) ==
  /\ c.nOpen <= MaxOpen
  /\ Numbered(c, c.nOpen) /\ Numbered(s, c.nOpen)
  /\ Tidy(c) /\ Tidy(s)
  /\ Connected(c, s) /\ Addressed(c, s)

RouteInv == TypeOK /\ Route(end["client"], end["server"])

\* A peer that gives a number to a second conversation opens only one: what
\* is said too late would find the second under the number of the first.
NumbersOnce == Reuses => MaxOpen <= 1

-----------------------------------------------------------------------------
(* What a step does to an end on the channels it has.                      *)

\* a packet that end x may send on one of its open channels
Proper(x, p) ==
  /\ p.t \in Plain
  /\ \E n \in Slots : /\ x.ch[n].state \in Usual
                      /\ p.num = x.ch[n].num /\ p.id = x.ch[n].id
                      /\ p.from = n

\* y has sent more than x
Grown(x, y) ==
  /\ Len(y.out) >= Len(x.out)
  /\ \A j \in 1 .. Len(x.out) : y.out[j] = x.out[j]
  /\ \A j \in 1 .. Len(y.out) : j > Len(x.out) => Proper(x, y.out[j])

\* Slots keep their conversation, and remain open unless they are freed.
SameSlots(x, y) ==
  \A n \in Slots :
    /\ y.ch[n].id = x.ch[n].id /\ y.ch[n].num = x.ch[n].num
    /\ \/ y.ch[n].state = x.ch[n].state
       \/ x.ch[n].state \in Usual /\ y.ch[n].state \in Usual
       \/ x.ch[n].state \in Usual /\ y.ch[n].state = "Free" /\ Reuses

SameOpen(x, y) ==
  \/ y.ev = x.ev
  \/ y.ev.k # "OpenSession" /\ x.ev.k # "OpenSession"

Moves(x, y) ==
  /\ x.err = "ok" /\ y.nOpen = x.nOpen /\ SameSlots(x, y) /\ SameOpen(x, y)
  /\ Tidy(y) /\ Grown(x, y)

\* y is x after its first packet was taken by the other end
Taken(x, y) ==
  /\ y.ch = x.ch /\ y.rx = x.rx /\ y.ev = x.ev /\ y.err = x.err
  /\ y.nOpen = x.nOpen /\ y.log = x.log
  /\ Len(x.out) > 0 /\ Len(y.out) = Len(x.out) - 1
  /\ \A j \in 1 .. Len(y.out) : y.out[j] = x.out[j + 1]

\* an end that has not failed
Sound(x) ==
  /\ x \in EndState /\ x.err = "ok" /\ Tidy(x) /\ Numbered(x, MaxOpen)

OtherSlots(x, y, n) == \A k \in Slots : k # n => y.ch[k] = x.ch[k]

\* only the log of conversation i may differ
OtherLogs(x, y, i) == \A j \in Ids : j # i => y.log[j] = x.log[j]

\* packet p is sent by end x on its channel n
Of(x, n, p) ==
  /\ p.num = x.ch[n].num /\ p.id = x.ch[n].id /\ p.from = n
  /\ p.at = x.log[x.ch[n].id].wrote

\* y has sent at most one packet more than x, of a type in T, on channel n
Sends(x, y, n, T) ==
  \/ y.out = x.out
  \/ \E p \in Packet : p.t \in T /\ Of(x, n, p) /\ y.out = Append(x.out, p)

\* A step that changes slot n and sends at most one packet on it.
OneSlot(x, y, n) ==
  /\ OtherSlots(x, y, n) /\ y.nOpen = x.nOpen /\ SameOpen(x, y)
  /\ y.ch[n].id = x.ch[n].id /\ y.ch[n].num = x.ch[n].num
  /\ \/ y.ch[n].state = x.ch[n].state
     \/ x.ch[n].state \in Usual /\ y.ch[n].state \in Usual
     \/ x.ch[n].state \in Usual /\ y.ch[n].state = "Free" /\ Reuses
  /\ y.ch[n].pending # 0 \/ y.ch[n].confirmed => y.ch[n].state \in Usual
  /\ y.ch[n].state = "Opening" => ~ y.ch[n].done
  /\ y.rx.num # 0 => y.ch[y.rx.num].state \in Usual
  /\ y.err \in {"ok", "BusySend"}
  /\ y.out = x.out \/ (x.ch[n].state \in Usual /\ Sends(x, y, n, Plain))

Adjusted(x, y, n) ==
  /\ y \in EndState /\ y.err = x.err /\ y.rx = x.rx /\ y.ev = x.ev
  /\ y.nOpen = x.nOpen /\ y.handles = x.handles /\ y.log = x.log
  /\ OtherSlots(x, y, n)
  /\ \E k \in Nat : y.ch[n] = [x.ch[n] EXCEPT !.pending = k]
  /\ Sends(x, y, n, {"Adjust"})

\* What is left alone while an end says something on channel n.
Aside(x, y, n) ==
  /\ y \in EndState /\ y.rx = x.rx /\ y.ev = x.ev /\ y.nOpen = x.nOpen
  /\ y.handles = x.handles /\ OtherSlots(x, y, n)

\* y has failed to say on channel n what x was to say
Stuck(x, y) ==
  /\ y.err = "BusySend" /\ y.ch = x.ch /\ y.log = x.log /\ y.out = x.out

\* y has said with a packet of type t what x was to say on channel n
Said(x, y, n, t) ==
  /\ y.err = x.err
  /\ \E p \in Packet : p.t = t /\ Of(x, n, p) /\ y.out = Append(x.out, p)

Ended(x, y, n) ==
  \/ Stuck(x, y)
  \/ y = x /\ x.ch[n].sentEof
  \/ /\ ~ x.ch[n].sentEof /\ Said(x, y, n, "Eof")
     /\ y.ch[n] = [x.ch[n] EXCEPT !.sentEof = TRUE]
     /\ y.log[x.ch[n].id] = [x.log[x.ch[n].id] EXCEPT !.ended = TRUE]
     /\ OtherLogs(x, y, x.ch[n].id)

\* The reader of slot n of x was told of the end, if there still is one.
Notified(x, y, n) ==
  /\ y.log[x.ch[n].id] =
       [x.log[x.ch[n].id] EXCEPT !.eof = @ \/ ~ x.log[x.ch[n].id].left]
  /\ OtherLogs(x, y, x.ch[n].id)

\* Slot n keeps all but its state and what it has sent.
SlotRest(x, y, n) ==
  /\ y.ch[n].id = x.ch[n].id /\ y.ch[n].num = x.ch[n].num
  /\ y.ch[n].pending = x.ch[n].pending
  /\ y.ch[n].confirmed = x.ch[n].confirmed /\ y.ch[n].done = x.ch[n].done

\* The end of the conversation of slot n was heard, and said if it was not
\* said before.
Heard(x, y, n, t, said, saidNow, state) ==
  /\ y.err = "ok" /\ SlotRest(x, y, n) /\ y.ch[n].state = state /\ saidNow
  /\ OtherLogs(x, y, x.ch[n].id)
  /\ LET k == x.log[x.ch[n].id]
         l == y.log[x.ch[n].id]
     IN /\ l.wrote = k.wrote /\ l.got = k.got /\ l.left = k.left
        /\ l.eof = (k.eof \/ ~ k.left)
        /\ l.ended = (k.ended \/ (t = "Eof" /\ ~ said))
  /\ IF said THEN y.out = x.out ELSE Said(x, y, n, t)

HeardEof(x, y, n) ==
  /\ Heard(x, y, n, "Eof", x.ch[n].sentEof, y.ch[n].sentEof, "RecvEof")
  /\ y.ch[n].sentClose = x.ch[n].sentClose

HeardClose(x, y, n) ==
  /\ Heard(x, y, n, "Close", x.ch[n].sentClose, y.ch[n].sentClose, "RecvClose")
  /\ y.ch[n].sentEof = x.ch[n].sentEof

\* What Write does to the end.
Wrote(x, y, n, k) ==
  /\ Aside(x, y, n) /\ y.err = "ok" /\ ~ x.ch[n].sentEof
  /\ SlotRest(x, y, n) /\ y.ch[n].state = x.ch[n].state
  /\ y.ch[n].sentEof = x.ch[n].sentEof /\ y.ch[n].sentClose = x.ch[n].sentClose
  /\ OtherLogs(x, y, x.ch[n].id)
  /\ y.log[x.ch[n].id] = [x.log[x.ch[n].id] EXCEPT !.wrote = @ + k]
  /\ \E p \in Packet : /\ p.t = "Data" /\ p.len = k /\ Of(x, n, p)
                       /\ y.out = Append(x.out, p)

\* What Read does to the end.
Reading(x, y, n, k) ==
  /\ y.err = "ok" /\ y.ev = x.ev /\ y.nOpen = x.nOpen
  /\ y.handles = x.handles /\ OtherSlots(x, y, n)
  /\ y.ch[n].id = x.ch[n].id /\ y.ch[n].num = x.ch[n].num
  /\ y.ch[n].state = x.ch[n].state /\ y.ch[n].done = x.ch[n].done
  /\ y.ch[n].sentEof = x.ch[n].sentEof /\ y.ch[n].sentClose = x.ch[n].sentClose
  /\ OtherLogs(x, y, x.ch[n].id)
  /\ y.log[x.ch[n].id] = [x.log[x.ch[n].id] EXCEPT !.got = @ + k]
  /\ Sends(x, y, n, {"Adjust"})
  /\ IF k < x.rx.left
       THEN y.rx.num = n /\ y.rx.len = x.rx.len /\ y.rx.left = x.rx.left - k
       ELSE y.rx = NoData

\* The reader at end x leaves channel n.
Leaves(x, y, n) ==
  /\ y.ev = x.ev /\ y.nOpen = x.nOpen /\ y.err = "ok"
  /\ y.handles = x.handles \ {n} /\ OtherSlots(x, y, n)
  /\ y.ch[n].id = x.ch[n].id /\ y.ch[n].num = x.ch[n].num
  /\ y.ch[n].state = x.ch[n].state /\ y.ch[n].pending = x.ch[n].pending
  /\ y.ch[n].confirmed = x.ch[n].confirmed
  /\ y.ch[n].done /\ y.rx = IF x.rx.num = n THEN NoData ELSE x.rx
  /\ OtherLogs(x, y, x.ch[n].id)

\* What ChannelDone does to a channel that it finds.
Done(x, y, n) ==
  /\ Leaves(x, y, n) /\ y.out = x.out
  /\ y.log[x.ch[n].id] = [x.log[x.ch[n].id] EXCEPT !.left = TRUE]
  /\ y.ch[n].sentEof = x.ch[n].sentEof /\ y.ch[n].sentClose = x.ch[n].sentClose

\* What ForeignClose does to the end.
Closes(x, y, n) ==
  /\ Leaves(x, y, n) /\ Said(x, y, n, "Close")
  /\ y.log[x.ch[n].id] =
       [x.log[x.ch[n].id] EXCEPT !.ended = TRUE, !.left = TRUE]
  /\ y.ch[n].sentEof /\ y.ch[n].sentClose

\* What Progress sends: adjustments and requests on open channels.
Notices(x) ==
  {p \in Packet : p.t \in {"Adjust", "Request"} /\
     \E n \in Slots : x.ch[n].state \in Usual /\ Of(x, n, p)}

\* What Progress does to the end.
Progressed(x, y) ==
  /\ y.err = x.err /\ y.rx = x.rx /\ y.ev = x.ev /\ y.nOpen = x.nOpen
  /\ y.handles = x.handles /\ y.log = x.log
  /\ \A n \in Slots :
       /\ y.ch[n].id = x.ch[n].id /\ y.ch[n].num = x.ch[n].num
       /\ y.ch[n].state = x.ch[n].state /\ y.ch[n].done = x.ch[n].done
       /\ y.ch[n].sentEof = x.ch[n].sentEof
       /\ y.ch[n].sentClose = x.ch[n].sentClose
       /\ y.ch[n].pending # 0 => x.ch[n].pending # 0
       /\ y.ch[n].confirmed => x.ch[n].confirmed
  /\ Len(y.out) >= Len(x.out)
  /\ \A j \in 1 .. Len(x.out) : y.out[j] = x.out[j]
  /\ \A j \in 1 .. Len(y.out) : j > Len(x.out) => y.out[j] \in Notices(x)

\* end x is handed packet p for its channel n, which it knows
Expects(x, p, n) ==
  /\ Sound(x) /\ x.rx = NoData /\ x.ev = NoEvent
  /\ p \in Packet /\ p.num = n /\ n \in Slots
  /\ x.ch[n].state \in Usual \cup {"Free"} /\ x.ch[n].num # 0

-----------------------------------------------------------------------------
(* What the opening of a channel does to an end.                           *)

\* The client has taken slot n for a new conversation, and its Open is under
\* way or could not be sent.
Opened(c, d, n) ==
  /\ c.ch[n].id = 0 /\ c.nOpen < MaxOpen /\ d.nOpen = c.nOpen + 1
  /\ \A m \in Slots : m # n => d.ch[m] = c.ch[m]
  /\ d.ch[n].state = "Opening" /\ d.ch[n].num = 0 /\ d.ch[n].id = d.nOpen
  /\ d.ch[n].pending = 0 /\ ~ d.ch[n].confirmed /\ ~ d.ch[n].done
  /\ ~ d.ch[n].sentClose
  /\ d.rx = c.rx /\ d.ev = c.ev /\ d.err = c.err /\ d.log = c.log
  /\ d.handles \subseteq c.handles \cup {n}
  /\ Len(d.out) >= Len(c.out) /\ Len(d.out) <= Len(c.out) + 1
  /\ \A j \in 1 .. Len(c.out) : d.out[j] = c.out[j]
  /\ Len(d.out) > Len(c.out) => LET p == d.out[Len(d.out)] IN
       p.t = "Open" /\ p.from = n /\ p.id = d.nOpen /\ p.at = 0

\* The client waits for an answer to the Open of slot n, and neither the Open
\* nor the answer is under way.
Unmet(c, s, n) ==
  /\ c.ch[n].state = "Opening" /\ NoSlot(s, c.ch[n].id)
  /\ Nothing(c, c.ch[n].id) /\ Nothing(s, c.ch[n].id)

\* The server has put the conversation of slot n of the client in slot m.
Reserved(c, s, d, n, m) ==
  /\ s.ch[m].id = 0 /\ s.ch[m].state = "Free" /\ s.ev.k # "OpenSession"
  /\ \A k \in Slots : k # m => d.ch[k] = s.ch[k]
  /\ d.ch[m].state = "InOpen" /\ d.ch[m].num = n
  /\ d.ch[m].id = c.ch[n].id
  /\ d.ch[m].pending = 0 /\ ~ d.ch[m].confirmed
  /\ ~ d.ch[m].done /\ ~ d.ch[m].sentClose
  /\ d.ev.k = "OpenSession" /\ d.ev.num = m
  /\ d.rx = s.rx /\ d.err = s.err /\ d.out = s.out
  /\ d.log = s.log /\ d.handles = s.handles

\* The server refuses the conversation of slot n of the client.
Refused(c, s, d, n) ==
  /\ d.ch = s.ch /\ d.rx = s.rx /\ d.ev = s.ev /\ s.err = "ok"
  /\ d.log = s.log /\ d.handles = s.handles
  /\ \/ d.err = "BusySend" /\ d.out = s.out
     \/ /\ d.err = "ok" /\ Len(d.out) = Len(s.out) + 1
        /\ \A j \in 1 .. Len(s.out) : d.out[j] = s.out[j]
        /\ LET p == d.out[Len(d.out)] IN
           /\ p.t = "Refuse" /\ p.num = n /\ p.id = c.ch[n].id
           /\ p.at \in {0, s.log[p.id].wrote}

\* The application refuses the channel in slot m of the server.
Dropped(s, d, m) ==
  /\ s.ev.k = "OpenSession" /\ s.ev.num = m /\ d.ev.k = "None"
  /\ \A k \in Slots : k # m => d.ch[k] = s.ch[k]
  /\ d.ch[m].state = "Free" /\ d.ch[m].id = 0
  /\ d.ch[m].pending = 0 /\ ~ d.ch[m].confirmed
  /\ d.rx = s.rx /\ d.err = s.err /\ d.out = s.out
  /\ d.log = s.log /\ d.handles = s.handles

\* The application accepts the channel in slot m of the server.
Accepted(s, d, m) ==
  /\ s.ev.k = "OpenSession" /\ s.ev.num = m /\ d.ev.k = "None"
  /\ s.err = "ok" /\ d.rx = s.rx /\ d.log = s.log
  /\ d.handles = s.handles \cup {m}
  /\ \A k \in Slots : k # m => d.ch[k] = s.ch[k]
  /\ d.ch[m].state = "Normal" /\ d.ch[m].id = s.ch[m].id
  /\ d.ch[m].num = s.ch[m].num /\ d.ch[m].done = s.ch[m].done
  /\ d.ch[m].sentEof = s.ch[m].sentEof
  /\ d.ch[m].sentClose = s.ch[m].sentClose
  /\ \/ d.err = "BusySend" /\ d.out = s.out
     \/ /\ d.err = "ok" /\ Len(d.out) = Len(s.out) + 1
        /\ \A j \in 1 .. Len(s.out) : d.out[j] = s.out[j]
        /\ LET p == d.out[Len(d.out)] IN
           /\ p.t = "Confirm" /\ p.num = s.ch[m].num /\ p.id = s.ch[m].id
           /\ p.from = m /\ p.at = s.log[p.id].wrote

\* The client handles the confirmation p of its channel n.
Confirms(c, d, n, p) ==
  /\ \A k \in Slots : k # n => d.ch[k] = c.ch[k]
  /\ d.ch[n].state = "Normal" /\ d.ch[n].id = c.ch[n].id
  /\ d.ch[n].num = p.from /\ d.ch[n].done = c.ch[n].done
  /\ d.ch[n].sentEof = c.ch[n].sentEof
  /\ d.ch[n].sentClose = c.ch[n].sentClose
  /\ d.rx = c.rx /\ d.ev = c.ev /\ d.err = c.err /\ d.nOpen = c.nOpen
  /\ d.out = c.out /\ d.log = c.log /\ d.handles = c.handles

\* The client handles the refusal of its channel n.
GivenUp(c, d, n) ==
  /\ \A k \in Slots : k # n => d.ch[k] = c.ch[k]
  /\ d.ch[n].state = "PendingDone" /\ d.ch[n].id = c.ch[n].id
  /\ d.ch[n].num = c.ch[n].num /\ d.ch[n].pending = c.ch[n].pending
  /\ d.ch[n].confirmed = c.ch[n].confirmed /\ d.ch[n].done = c.ch[n].done
  /\ d.ch[n].sentEof = c.ch[n].sentEof
  /\ d.ch[n].sentClose = c.ch[n].sentClose
  /\ d.rx = c.rx /\ d.ev = c.ev /\ d.err = c.err /\ d.nOpen = c.nOpen
  /\ d.out = c.out /\ d.log = c.log /\ d.handles = c.handles

-----------------------------------------------------------------------------
(* Streams: what is under way in a conversation is what its reader lacks.  *)

\* packet p carries data of conversation i, and how much
IsData(p, i) == p.id = i /\ p.t = "Data"
Bytes(p, i) == IF IsData(p, i) THEN p.len ELSE 0

\* TrafIn of x holds data of conversation i
Holds(x, i) == x.rx.num # 0 /\ x.ch[x.rx.num].id = i

\* bytes of conversation i that have arrived at x
Reach(x, i) == x.log[i].got + IF Holds(x, i) THEN x.rx.left ELSE 0

\* The packets in out, with what they carry of conversation i, lead from byte
\* a to byte b, and each says how many bytes came before it.
Leads(out, i, a, b) ==
  \E f \in [0 .. Len(out) -> 0 .. b] :
    /\ f[0] = a /\ f[Len(out)] = b
    /\ \A j \in 1 .. Len(out) :
         /\ f[j] = f[j - 1] + Bytes(out[j], i)
         /\ out[j].id = i => out[j].at = f[j - 1]

\* after packet j no data of conversation i is under way
NoneAfter(out, i, j) ==
  \A k \in 1 .. Len(out) : k > j => ~ IsData(out[k], i)

\* w has ended its stream and the reader has all of it
Finished(w, i) == w.log[i].ended /\ NoneAfter(w.out, i, 0)

\* packet j of w comes after all the data of conversation i
IsLast(w, i, j) ==
  /\ w.log[i].ended /\ w.out[j].at = w.log[i].wrote
  /\ NoneAfter(w.out, i, j)

\* x has closed conversation i without waiting for the peer
Gone(x, i) ==
  x.log[i].left /\ \E n \in Slots : x.ch[n].id = i /\ x.ch[n].sentClose

\* the slot of conversation i is used no more
Freed(x, i) == \E n \in Slots : x.ch[n].id = i /\ x.ch[n].state = "Free"

\* what w writes to r in conversation i
StreamOf(w, r, i) ==
  /\ ~ r.log[i].left => Leads(w.out, i, Reach(r, i), w.log[i].wrote)
  /\ r.log[i].eof => Finished(w, i) /\ ~ Holds(r, i)
  /\ \A j \in 1 .. Len(w.out) : w.out[j].id = i =>
       /\ w.out[j].t = "Eof" => IsLast(w, i, j)
       /\ w.out[j].t = "Close" =>
            (IsLast(w, i, j) /\ Gone(w, i)) \/ Gone(r, i)
  /\ Freed(r, i) => r.log[i].left \/ Finished(w, i)

\* slots of channels that are not open yet
Early == {"InOpen", "Opening"}

\* The slots of an end agree with its log, and with the handles of the
\* application.
Neat(x) ==
  /\ \A i \in Ids :
       (\A n \in Slots : x.ch[n].id = i => x.ch[n].state \in Early)
         => x.log[i] = NewLog
  /\ \A n \in Slots :
       /\ x.ch[n].id # 0 /\ x.log[x.ch[n].id].ended => x.ch[n].sentEof
       /\ x.ch[n].id # 0 /\ x.ch[n].done => x.log[x.ch[n].id].left
       /\ x.ch[n].state = "InOpen" => ~ x.ch[n].sentClose
       /\ n \in x.handles => /\ x.ch[n].state \notin {"Free", "InOpen"}
                             /\ ~ x.log[x.ch[n].id].left

Streaming(c, s) ==
  /\ Neat(c) /\ Neat(s)
  /\ \A i \in Ids : StreamOf(c, s, i) /\ StreamOf(s, c, i)

StreamInv == RouteInv /\ Streaming(end["client"], end["server"])

\* What an end receives next of a channel that it has not left begins with
\* the byte after those that have arrived, read or held (write_channel,
\* read_channel).
NextInOrder ==
  \A e \in Ends :
    LET q == end[Peer(e)].out
        i == q[1].id
    IN  q # <<>> /\ ~ end[e].log[i].left => q[1].at = Reach(end[e], i)

-----------------------------------------------------------------------------
(* What a step does to the streams of an end.                              *)

\* y has sent what x has and perhaps more
Longer(x, y) ==
  /\ Len(y.out) >= Len(x.out)
  /\ \A j \in 1 .. Len(x.out) : y.out[j] = x.out[j]

\* A slot keeps its conversation.
Kept(x, y, n) ==
  /\ y.ch[n].id = x.ch[n].id /\ y.ch[n].sentEof = x.ch[n].sentEof
  /\ y.ch[n].sentClose = x.ch[n].sentClose
  /\ y.ch[n].done => x.ch[n].done
  /\ y.ch[n].state \in {"Free", "InOpen"} => y.ch[n].state = x.ch[n].state
  /\ y.ch[n].state \in Early => x.ch[n].state \in Early
  /\ n \in y.handles => \/ n \in x.handles
                        \/ x.ch[n].state \in Early /\ y.ch[n].state = "Normal"

\* A free slot is given to a new conversation.
Begun(x, y, n) ==
  /\ x.ch[n].id = 0 /\ NoSlot(x, y.ch[n].id) /\ y.ch[n].state \in Early
  /\ ~ y.ch[n].done /\ ~ y.ch[n].sentClose
  /\ n \in y.handles => y.ch[n].state = "Opening"

\* A slot whose Open is refused is free again.
Cleared(x, y, n) ==
  x.ch[n].state = "InOpen" /\ y.ch[n].id = 0 /\ n \notin y.handles
  /\ y.ch[n].state = "Free"

\* A step that neither writes, reads, ends nor closes a channel.
Quiet(x, y) ==
  /\ y.log = x.log /\ y.rx = x.rx /\ Longer(x, y)
  /\ \A n \in Slots : Kept(x, y, n) \/ Begun(x, y, n) \/ Cleared(x, y, n)
  /\ \A j \in 1 .. Len(y.out) : j > Len(x.out) =>
       /\ y.out[j].t \notin {"Data", "Eof", "Close"}
       /\ y.out[j].id \in Ids =>
            y.out[j].at = x.log[y.out[j].id].wrote

\* A step that does nothing to any stream.
Steady(x, y) ==
  /\ y.log = x.log /\ y.rx = x.rx /\ y.out = x.out
  /\ y.handles \subseteq x.handles
  /\ \A n \in Slots :
       /\ y.ch[n].id = x.ch[n].id /\ y.ch[n].state = x.ch[n].state
       /\ y.ch[n].sentEof = x.ch[n].sentEof
       /\ y.ch[n].sentClose = x.ch[n].sentClose
       /\ y.ch[n].done = x.ch[n].done

\* A step on the conversation of slot n alone.
OneStream(x, y, n) ==
  /\ OtherSlots(x, y, n) /\ OtherLogs(x, y, x.ch[n].id)
  /\ y.ch[n].id = x.ch[n].id /\ y.ch[n].id # 0
  /\ x.ch[n].state \notin Early /\ y.ch[n].state \notin Early
  /\ x.ch[n].sentClose => y.ch[n].sentClose
  /\ y.rx = x.rx \/ (x.rx.num \in {0, n} /\ y.rx.num \in {0, n})
  /\ y.handles \subseteq x.handles
  /\ LET l == y.log[x.ch[n].id] IN
     /\ l.ended => y.ch[n].sentEof
     /\ y.ch[n].done => l.left
     /\ n \in y.handles => y.ch[n].state # "Free" /\ ~ l.left
  /\ Longer(x, y)
  /\ \A j \in 1 .. Len(y.out) : j > Len(x.out) => y.out[j].id = x.ch[n].id

\* The end of the conversation of slot n was heard, in a packet of type t, and
\* answered with another if it was not said before.
EndHeard(x, y, n, t) ==
  /\ y.rx = x.rx /\ OtherSlots(x, y, n) /\ OtherLogs(x, y, x.ch[n].id)
  /\ y.ch[n].id = x.ch[n].id /\ y.ch[n].done = x.ch[n].done
  /\ y.ch[n].state \notin Early
  /\ x.ch[n].sentClose => y.ch[n].sentClose
  /\ y.handles \subseteq x.handles
  /\ n \in y.handles => y.ch[n].state # "Free"
  /\ y.ch[n].state = "Free" => t = "Close"
  /\ LET k == x.log[x.ch[n].id]
         l == y.log[x.ch[n].id]
     IN /\ l.wrote = k.wrote /\ l.got = k.got /\ l.left = k.left
        /\ l.eof = (k.eof \/ ~ k.left) /\ (k.ended => l.ended)
        /\ l.ended => y.ch[n].sentEof
        /\ \/ y.out = x.out
           \/ /\ \E p \in Packet : /\ p.t = t /\ Of(x, n, p)
                                   /\ y.out = Append(x.out, p)
              /\ t = "Eof" => l.ended
              /\ t = "Close" => ~ x.ch[n].sentClose

\* Data p for channel n is in TrafIn.
DataHeard(x, y, n, p) ==
  /\ y.ch = x.ch /\ y.log = x.log /\ y.out = x.out /\ y.handles = x.handles
  /\ y.rx.num = n /\ y.rx.left = p.len

\* What becomes of packet p for channel n.
Hears(x, y, n, p) ==
  \/ /\ Steady(x, y)
     /\ p.t = "Data" => p.len = 0 \/ ~ Usable(x, n) \/ x.ch[n].done
  \/ /\ x.ch[n].state \in Usual
     /\ \/ p.t \in {"Eof", "Close"} /\ EndHeard(x, y, n, p.t)
        \/ p.t = "Data" /\ DataHeard(x, y, n, p)

\* packet j, sent to z, writes nothing to conversation i
Silent(y, z, i, at, j) ==
  /\ y.out[j].t # "Data" /\ y.out[j].at = at
  /\ y.out[j].t = "Eof" => y.log[i].ended
  /\ y.out[j].t = "Close" => (y.log[i].ended /\ Gone(y, i)) \/ Gone(z, i)

\* what writer x with reader z does in conversation i
Writer(x, y, z, i) ==
  LET k == x.log[i]
      l == y.log[i]
  IN /\ Longer(x, y) /\ (k.ended => l.ended) /\ (Gone(x, i) => Gone(y, i))
     /\ \/ /\ l.wrote = k.wrote
           /\ \A j \in 1 .. Len(y.out) :
                j > Len(x.out) /\ y.out[j].id = i =>
                  Silent(y, z, i, k.wrote, j)
        \/ /\ ~ k.ended /\ ~ l.ended /\ Len(y.out) = Len(x.out) + 1
           /\ IsData(y.out[Len(y.out)], i)
           /\ y.out[Len(y.out)].at = k.wrote
           /\ y.out[Len(y.out)].len > 0
           /\ l.wrote = k.wrote + y.out[Len(y.out)].len

\* what the log of a reader that is handed nothing may do
Reads(x, y, i) ==
  LET k == x.log[i]
      l == y.log[i]
  IN /\ l.eof = k.eof /\ (k.left => l.left)
     /\ \/ l.got = k.got
        \/ /\ l.got > k.got /\ Holds(x, i) /\ l.got <= Reach(x, i)
           /\ ~ k.left /\ ~ l.left

\* what reader x does in conversation i
Reader(x, y, i) ==
  /\ Reads(x, y, i)
  /\ y.log[i].left \/ Reach(y, i) = Reach(x, i)
  /\ Holds(y, i) => Holds(x, i)
  /\ Gone(x, i) => Gone(y, i)
  /\ Freed(y, i) => Freed(x, i)

\* what reader x does in conversation i when it takes packet p
Takes(x, y, i, p) ==
  LET k == x.log[i]
      l == y.log[i]
  IN /\ l.got = k.got /\ l.left = k.left
     /\ \/ l.eof = k.eof
        \/ l.eof /\ p.id = i /\ p.t \in {"Eof", "Close"} /\ ~ k.left
     /\ l.left \/ Reach(y, i) = Reach(x, i) + Bytes(p, i)
     /\ Holds(y, i) => IsData(p, i)
     /\ Gone(x, i) => Gone(y, i)
     /\ Freed(y, i) => Freed(x, i) \/ (p.id = i /\ p.t = "Close")

\* what x does by itself, and when it takes packet p of its peer z
Acts(x, y, z) ==
  Neat(y) /\ \A i \in Ids : Writer(x, y, z, i) /\ Reader(x, y, i)
Handles(x, y, z, p) ==
  Neat(y) /\ \A i \in Ids : Writer(x, y, z, i) /\ Takes(x, y, i, p)

\* the stream that w writes and r reads in conversation i
Carried(w, r, i) ==
  [wrote |-> w.log[i].wrote, ended |-> w.log[i].ended, got |-> r.log[i].got,
   told |-> r.log[i].eof, left |-> r.log[i].left]

\* x and its peer z become y and t, and every stream between them takes a step
\* of ByteStreams
Flows(x, y, z, t) ==
  /\ Neat(y) /\ Neat(t)
  /\ \A i \in Ids :
       /\ StreamOf(y, t, i) /\ StreamOf(t, y, i)
       /\ Stream!Step(Carried(x, z, i), Carried(y, t, i))
       /\ Stream!Step(Carried(z, x, i), Carried(t, y, i))

\* Both ends take a step, and every stream one of ByteStreams.
Flowing == Flows(end["client"], end'["client"], end["server"], end'["server"])
=============================================================================
