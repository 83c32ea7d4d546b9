------------------------ MODULE ChannelsFieldProofs -------------------------
(***************************************************************************)
(* What the operators of Channels do to an end, field by field, and that   *)
(* each is one of the changes of ChannelsChanges.                          *)
(***************************************************************************)
EXTENDS ChannelsProofs

\* What To puts in a packet.
LEMMA ToFacts ==
  ASSUME NEW x \in EndState, Numbered(x, MaxOpen), NEW n \in Slots,
         x.ch[n].state # "Free", NEW t \in PacketTypes, NEW len \in Nat
  PROVE  /\ To(x, n, t, len) \in Packet
         /\ To(x, n, t, len).t = t /\ To(x, n, t, len).num = x.ch[n].num
         /\ To(x, n, t, len).from = n /\ To(x, n, t, len).len = len
         /\ To(x, n, t, len).id = x.ch[n].id
         /\ To(x, n, t, len).at = x.log[x.ch[n].id].wrote
<1>1. x.log[x.ch[n].id].wrote \in Nat
  BY Zenon, Known DEF Log
<1>2. n \in 0 .. MaxChannels
  BY ChannelsAssumption DEF Slots
<1> QED
  BY Zenon, <1>1, <1>2, SlotFacts DEF To, Packet

LEMMA SendFields ==
  ASSUME NEW x \in EndState, NEW p \in Packet
  PROVE  /\ Send(x, p) \in EndState
         /\ Send(x, p).ch = x.ch /\ Send(x, p).rx = x.rx
         /\ Send(x, p).ev = x.ev /\ Send(x, p).nOpen = x.nOpen
         /\ Send(x, p).busy = x.busy /\ Send(x, p).nBusy = x.nBusy
         /\ Send(x, p).handles = x.handles /\ Send(x, p).log = x.log
         /\ Sendable(x, p.t) =>
              Send(x, p).err = x.err /\ Send(x, p).out = Append(x.out, p)
         /\ ~ Sendable(x, p.t) =>
              Send(x, p).err = "BusySend" /\ Send(x, p).out = x.out
<1>1. CASE Sendable(x, p.t)
  <2>1. Append(x.out, p) \in Seq(Packet)
    BY DEF EndState
  <2>2. (IF x.busy THEN x.deferred + 1 ELSE x.deferred) \in 0 .. DeferCount
    BY <1>1, ChannelsAssumption DEF EndState, Sendable
  <2> QED
    BY ZenonT(60), <1>1, <2>1, <2>2 DEF EndState, Send
<1>2. CASE ~ Sendable(x, p.t)
  BY ZenonT(60), <1>2 DEF EndState, Send, Errors
<1> QED
  BY Zenon, <1>1, <1>2

\* One slot takes a new value.
LEMMA SetSlot ==
  ASSUME NEW x \in EndState, NEW n \in Slots, NEW k \in Channel
  PROVE  /\ [x EXCEPT !.ch[n] = k] \in EndState
         /\ [x EXCEPT !.ch[n] = k].ch = [x.ch EXCEPT ![n] = k]
         /\ [x EXCEPT !.ch[n] = k].ch[n] = k
         /\ OtherSlots(x, [x EXCEPT !.ch[n] = k], n)
         /\ [x EXCEPT !.ch[n] = k].rx = x.rx
         /\ [x EXCEPT !.ch[n] = k].ev = x.ev
         /\ [x EXCEPT !.ch[n] = k].err = x.err
         /\ [x EXCEPT !.ch[n] = k].nOpen = x.nOpen
         /\ [x EXCEPT !.ch[n] = k].handles = x.handles
         /\ [x EXCEPT !.ch[n] = k].log = x.log
         /\ [x EXCEPT !.ch[n] = k].out = x.out
         /\ [x EXCEPT !.ch[n] = k].busy = x.busy
         /\ [x EXCEPT !.ch[n] = k].deferred = x.deferred
  BY ZenonT(60) DEF EndState, OtherSlots

LEMMA CheckAdjustFields ==
  ASSUME NEW x \in EndState, Numbered(x, MaxOpen), NEW n \in Slots,
         x.ch[n].state # "Free"
  PROVE  Adjusted(x, CheckSendWindowAdjust(x, n), n)
<1> DEFINE y == CheckSendWindowAdjust(x, n)
           p == To(x, n, "Adjust", x.ch[n].pending)
           z == Send(x, p)
           k == [x.ch[n] EXCEPT !.pending = 0]
<1>1. x.ch[n] \in Channel /\ x.ch[n].pending \in Nat
  BY Zenon, SlotFacts DEF Channel
<1>2. CASE AdjustDue(x, n) /\ Sendable(x, "Adjust")
  <2>1. p \in Packet /\ p.t = "Adjust" /\ Of(x, n, p)
    BY <1>1, ToFacts DEF PacketTypes, Of
  <2> HIDE DEF p
  <2>2. /\ z \in EndState /\ z.ch = x.ch /\ z.rx = x.rx /\ z.ev = x.ev
        /\ z.nOpen = x.nOpen /\ z.handles = x.handles /\ z.log = x.log
        /\ z.err = x.err /\ z.out = Append(x.out, p)
    BY Zenon, <1>2, <2>1, SendFields
  <2>3. k \in Channel
    BY Zenon, <1>1 DEF Channel
  <2>4. y = [z EXCEPT !.ch[n] = k]
    BY ZenonT(60), <1>2, <2>2 DEF CheckSendWindowAdjust, p
  <2> HIDE DEF y, z, k
  <2>5. /\ y \in EndState /\ y.ch[n] = k /\ OtherSlots(z, y, n)
        /\ y.rx = z.rx /\ y.ev = z.ev /\ y.err = z.err /\ y.nOpen = z.nOpen
        /\ y.handles = z.handles /\ y.log = z.log /\ y.out = z.out
    BY ZenonT(60), <2>2, <2>3, <2>4, SetSlot
  <2>6. OtherSlots(x, y, n)
    BY Zenon, <2>2, <2>5 DEF OtherSlots
  <2>7. \E j \in Nat : y.ch[n] = [x.ch[n] EXCEPT !.pending = j]
    BY Zenon, <2>5 DEF k
  <2>8. Sends(x, y, n, {"Adjust"})
    BY Zenon, <2>1, <2>2, <2>5 DEF Sends
  <2>9. Adjusted(x, y, n)
    BY Zenon, <2>2, <2>5, <2>6, <2>7, <2>8 DEF Adjusted
  <2> QED
    BY Zenon, <2>9 DEF y
<1>3. CASE ~ (AdjustDue(x, n) /\ Sendable(x, "Adjust"))
  <2>1. y = x
    BY Zenon, <1>3 DEF CheckSendWindowAdjust
  <2>2. x.ch[n] = [x.ch[n] EXCEPT !.pending = x.ch[n].pending]
    BY Zenon, <1>1 DEF Channel
  <2>3. \E j \in Nat : x.ch[n] = [x.ch[n] EXCEPT !.pending = j]
    BY Zenon, <1>1, <2>2
  <2>4. Adjusted(x, x, n)
    BY Zenon, <2>3 DEF Adjusted, OtherSlots, Sends
  <2> QED
    BY Zenon, <2>1, <2>4
<1> QED
  BY Zenon, <1>2, <1>3

LEMMA FinishedReadFields ==
  ASSUME NEW x \in EndState, Numbered(x, MaxOpen), NEW n \in Slots,
         x.ch[n].state # "Free", NEW len \in Nat
  PROVE  Adjusted(x, FinishedRead(x, n, len), n)
<1> DEFINE k == [x.ch[n] EXCEPT !.pending = @ + len]
           z == [x EXCEPT !.ch[n] = k]
           y == CheckSendWindowAdjust(z, n)
<1>1. x.ch[n] \in Channel
  BY Zenon, SlotFacts
<1>2. /\ k \in Channel /\ k.id = x.ch[n].id /\ k.num = x.ch[n].num
      /\ k.state = x.ch[n].state
      /\ \A j : [k EXCEPT !.pending = j] = [x.ch[n] EXCEPT !.pending = j]
  <2> DEFINE h == x.ch[n]
  <2>1. h \in Channel
    BY Zenon, <1>1
  <2> HIDE DEF h
  <2>2. /\ [h EXCEPT !.pending = @ + len] \in Channel
        /\ [h EXCEPT !.pending = @ + len].id = h.id
        /\ [h EXCEPT !.pending = @ + len].num = h.num
        /\ [h EXCEPT !.pending = @ + len].state = h.state
    BY <2>1 DEF Channel
  <2>3. \A j : [[h EXCEPT !.pending = @ + len] EXCEPT !.pending = j]
                 = [h EXCEPT !.pending = j]
    BY ZenonT(60), <2>1 DEF Channel
  <2> QED
    BY ZenonT(60), <2>2, <2>3 DEF h
<1>3. FinishedRead(x, n, len) = y
  BY Zenon DEF FinishedRead, FinishedInput
<1> HIDE DEF k
<1>4. /\ z \in EndState /\ z.ch[n] = k /\ OtherSlots(x, z, n)
      /\ z.rx = x.rx /\ z.ev = x.ev /\ z.err = x.err /\ z.nOpen = x.nOpen
      /\ z.handles = x.handles /\ z.log = x.log /\ z.out = x.out
  BY <1>2, SetSlot
<1> HIDE DEF z
<1>5. Numbered(z, MaxOpen)
  BY <1>2, <1>4 DEF Numbered, OtherSlots
<1>6. Adjusted(z, y, n)
  BY Zenon, <1>2, <1>4, <1>5, CheckAdjustFields
<1> HIDE DEF y
<1>7. OtherSlots(x, y, n)
  BY Zenon, <1>4, <1>6 DEF OtherSlots, Adjusted
<1>8. \E j \in Nat : y.ch[n] = [x.ch[n] EXCEPT !.pending = j]
  <2>1. PICK j \in Nat : y.ch[n] = [z.ch[n] EXCEPT !.pending = j]
    BY Zenon, <1>6 DEF Adjusted
  <2>2. y.ch[n] = [x.ch[n] EXCEPT !.pending = j]
    BY Zenon, <1>2, <1>4, <2>1
  <2> QED
    BY Zenon, <2>2
<1>9. Sends(x, y, n, {"Adjust"})
  <2>1. Sends(z, y, n, {"Adjust"})
    BY Zenon, <1>6 DEF Adjusted
  <2>2. \A p : Of(z, n, p) <=> Of(x, n, p)
    BY Zenon, <1>2, <1>4 DEF Of
  <2> QED
    BY Zenon, <1>4, <2>1, <2>2 DEF Sends
<1> QED
  BY Zenon, <1>3, <1>4, <1>6, <1>7, <1>8, <1>9 DEF Adjusted

\* A slot and the log of one conversation take new values.
WithLog(x, n, k, i, l) == [x EXCEPT !.ch[n] = k, !.log[i] = l]

LEMMA SetLog ==
  ASSUME NEW x \in EndState, NEW n \in Slots, NEW k \in Channel,
         NEW i \in Ids, NEW l \in Log,
         NEW y, y = WithLog(x, n, k, i, l)
  PROVE  /\ Aside(x, y, n) /\ y.ch[n] = k /\ y.log[i] = l
         /\ OtherLogs(x, y, i) /\ y.err = x.err /\ y.out = x.out
         /\ y.busy = x.busy /\ y.deferred = x.deferred
  BY ZenonT(60) DEF EndState, OtherSlots, OtherLogs, Aside, WithLog

LEMMA SendEofFields ==
  ASSUME NEW x \in EndState, Numbered(x, MaxOpen), NEW n \in Slots,
         x.ch[n].state # "Free", x.ch[n].num # 0, x.err = "ok"
  PROVE  /\ Aside(x, SendEof(x, n), n) /\ Ended(x, SendEof(x, n), n)
         /\ ~ x.ch[n].sentEof /\ Sendable(x, "Eof") =>
              SendEof(x, n).err = "ok"
<1> DEFINE i == x.ch[n].id
           p == To(x, n, "Eof", 0)
           z == Send(x, p)
           k == [x.ch[n] EXCEPT !.sentEof = TRUE]
           l == [x.log[i] EXCEPT !.ended = TRUE]
           y == WithLog(z, n, k, i, l)
<1>1. x.ch[n] \in Channel /\ i \in Ids /\ x.log[i] \in Log
  BY Zenon, SlotFacts, Known
<1>2. p \in Packet /\ p.t = "Eof" /\ Of(x, n, p)
  BY ToFacts DEF PacketTypes, Of
<1> HIDE DEF p
<1>3. /\ z \in EndState /\ z.ch = x.ch /\ z.rx = x.rx /\ z.ev = x.ev
      /\ z.nOpen = x.nOpen /\ z.handles = x.handles /\ z.log = x.log
      /\ \/ z.err = "ok" /\ z.out = Append(x.out, p)
         \/ z.err = "BusySend" /\ z.out = x.out /\ ~ Sendable(x, "Eof")
  BY Zenon, <1>2, SendFields
<1>4. k \in Channel /\ l \in Log
  BY ZenonT(60), <1>1 DEF Channel, Log
<1>5. CASE x.ch[n].sentEof
  BY Zenon, <1>5 DEF SendEof, Aside, Ended, OtherSlots
<1>6. CASE ~ x.ch[n].sentEof /\ z.err = "BusySend"
  <2>1. SendEof(x, n) = z
    BY Zenon, <1>6 DEF SendEof, p
  <2>2. ~ Sendable(x, "Eof")
    BY Zenon, <1>3, <1>6
  <2> HIDE DEF z
  <2> QED
    BY Zenon, <1>3, <1>6, <2>1, <2>2 DEF Aside, Ended, Stuck, OtherSlots
<1>7. CASE ~ x.ch[n].sentEof /\ z.err = "ok"
  <2>1. SendEof(x, n) = y
    BY ZenonT(60), <1>3, <1>7 DEF SendEof, WithLog, p
  <2>a. /\ y = WithLog(z, n, k, i, l)
        /\ z \in EndState /\ i \in Ids /\ k \in Channel /\ l \in Log
    BY Zenon, <1>1, <1>3, <1>4
  <2> HIDE DEF z, k, l, i, y
  <2>2. /\ Aside(z, y, n) /\ y.ch[n] = k /\ y.log[i] = l
        /\ OtherLogs(z, y, i) /\ y.err = z.err /\ y.out = z.out
    BY <2>a, SetLog
  <2>3. Aside(x, y, n)
    BY Zenon, <1>3, <2>2 DEF Aside, OtherSlots
  <2>4. OtherLogs(x, y, i)
    BY Zenon, <1>3, <2>2 DEF OtherLogs
  <2>5. z.out = Append(x.out, p)
    BY Zenon, <1>3, <1>7
  <2>6. Said(x, y, n, "Eof")
    BY Zenon, <1>2, <1>7, <2>2, <2>5 DEF Said
  <2>7. Ended(x, y, n)
    BY Zenon, <1>7, <2>2, <2>4, <2>6 DEF Ended, i, k, l
  <2> QED
    BY Zenon, <1>7, <2>1, <2>2, <2>3, <2>7
<1> QED
  BY Zenon, <1>3, <1>5, <1>6, <1>7

\* Told after a change of slot n that keeps its conversation.
LEMMA ToldFields ==
  ASSUME NEW x \in EndState, NEW n \in Slots, NEW k \in Channel,
         k.id = x.ch[n].id, k.id \in Ids,
         NEW y, y = Told([x EXCEPT !.ch[n] = k], n)
  PROVE  /\ Aside(x, y, n) /\ y.ch[n] = k /\ Notified(x, y, n)
         /\ y.err = x.err /\ y.out = x.out
<1> DEFINE i == k.id
           z == [x EXCEPT !.ch[n] = k]
           l == [x.log[i] EXCEPT !.eof = @ \/ ~ x.log[i].left]
<1>1. x.log[i] \in Log
  BY Zenon DEF EndState
<1>2. l \in Log
  <2> DEFINE h == x.log[i]
  <2>1. h \in Log
    BY Zenon, <1>1
  <2> HIDE DEF h
  <2>2. [h EXCEPT !.eof = @ \/ ~ h.left] \in Log
    BY ZenonT(60), <2>1 DEF Log
  <2> QED
    BY Zenon, <2>2 DEF h
<1>3. /\ z \in EndState /\ z.ch[n] = k /\ z.ch = [x.ch EXCEPT ![n] = k]
      /\ OtherSlots(x, z, n)
      /\ z.rx = x.rx /\ z.ev = x.ev /\ z.err = x.err /\ z.nOpen = x.nOpen
      /\ z.handles = x.handles /\ z.log = x.log /\ z.out = x.out
  BY SetSlot
<1>4. y = WithLog(z, n, k, i, l)
  <2>1. Told(z, n) = [z EXCEPT !.log[i] = l]
    BY ZenonT(60), <1>3 DEF Told
  <2>2. [z EXCEPT !.log[i] = l] = WithLog(z, n, k, i, l)
    <3> HIDE DEF z, l, i
    <3>1. [z.ch EXCEPT ![n] = k] = z.ch
      BY Zenon, <1>3 DEF EndState
    <3> QED
      BY ZenonT(60), <1>3, <3>1 DEF EndState, WithLog
  <2> QED
    BY Zenon, <2>1, <2>2
<1>5. /\ Aside(z, y, n) /\ y.ch[n] = k /\ y.log[i] = l
      /\ OtherLogs(z, y, i) /\ y.err = z.err /\ y.out = z.out
  <2> HIDE DEF z, l
  <2>1. i \in Ids /\ z \in EndState
    BY Zenon, <1>3
  <2> HIDE DEF i
  <2> QED
    BY <1>2, <1>4, <2>1, SetLog
<1> HIDE DEF z
<1>6. Aside(x, y, n)
  BY <1>3, <1>5 DEF Aside, OtherSlots
<1>7. Notified(x, y, n)
  <2>1. y.log[i] = l /\ OtherLogs(x, y, i)
    BY <1>3, <1>5 DEF OtherLogs
  <2> QED
    BY Zenon, <2>1 DEF Notified
<1> QED
  BY Zenon, <1>3, <1>5, <1>6, <1>7

LEMMA HandleEofFields ==
  ASSUME NEW x \in EndState, Numbered(x, MaxOpen), NEW n \in Slots,
         x.ch[n].state # "Free", x.ch[n].num # 0, x.err = "ok",
         NEW y, y = HandleEof(x, n)
  PROVE  Aside(x, y, n) /\ (Stuck(x, y) \/ HeardEof(x, y, n))
<1> DEFINE i == x.ch[n].id
           r == SendEof(x, n)
           k == [r.ch[n] EXCEPT !.state = "RecvEof"]
<1>1. x.ch[n] \in Channel /\ i \in Ids /\ x.log[i] \in Log
  BY Zenon, SlotFacts, Known
<1>2. Aside(x, r, n) /\ Ended(x, r, n)
  BY Zenon, SendEofFields
<1>3. y = IF r.err = "ok" THEN Told([r EXCEPT !.ch[n] = k], n) ELSE r
  BY Zenon DEF HandleEof
<1> HIDE DEF r, i
<1>4. CASE r.err # "ok"
  <2>1. Stuck(x, r)
    BY Zenon, <1>2, <1>4 DEF Ended, Said
  <2> QED
    BY Zenon, <1>2, <1>3, <1>4, <2>1
<1>5. CASE r.err = "ok"
  <2>1. r.ch[n] \in Channel /\ r \in EndState
    BY Zenon, <1>2, SlotFacts DEF Aside
  <2>2. r.ch[n] = x.ch[n] \/ r.ch[n] = [x.ch[n] EXCEPT !.sentEof = TRUE]
    BY Zenon, <1>2, <1>5 DEF Ended, Stuck
  <2>3. k \in Channel /\ k.id = r.ch[n].id /\ k.state = "RecvEof"
        /\ k.num = r.ch[n].num /\ k.pending = r.ch[n].pending
        /\ k.confirmed = r.ch[n].confirmed /\ k.done = r.ch[n].done
        /\ k.sentEof = r.ch[n].sentEof /\ k.sentClose = r.ch[n].sentClose
    BY Zenon, <2>1 DEF Channel, ChanStates
  <2> HIDE DEF k
  <2>4. /\ r.ch[n].id = i /\ r.ch[n].num = x.ch[n].num
        /\ r.ch[n].pending = x.ch[n].pending
        /\ r.ch[n].confirmed = x.ch[n].confirmed
        /\ r.ch[n].done = x.ch[n].done /\ r.ch[n].sentClose = x.ch[n].sentClose
    BY Zenon, <1>1, <2>2 DEF Channel, i
  <2>5. /\ Aside(r, y, n) /\ y.ch[n] = k /\ Notified(r, y, n)
        /\ y.err = r.err /\ y.out = r.out
    BY <1>1, <1>3, <1>5, <2>1, <2>3, <2>4, ToldFields
  <2>6. Aside(x, y, n)
    BY Zenon, <1>2, <2>5 DEF Aside, OtherSlots
  <2>7. SlotRest(x, y, n) /\ y.ch[n].state = "RecvEof"
        /\ y.ch[n].sentClose = x.ch[n].sentClose
        /\ y.ch[n].sentEof = r.ch[n].sentEof
    BY Zenon, <2>3, <2>4, <2>5 DEF SlotRest, i
  <2>8. r.log[i] \in Log
    BY Zenon, <1>1, <2>1 DEF EndState
  <2>9. /\ y.log[i] = [r.log[i] EXCEPT !.eof = @ \/ ~ r.log[i].left]
        /\ OtherLogs(r, y, i)
    BY Zenon, <2>4, <2>5 DEF Notified
  <2>10. /\ y.log[i].wrote = r.log[i].wrote /\ y.log[i].got = r.log[i].got
         /\ y.log[i].left = r.log[i].left /\ y.log[i].ended = r.log[i].ended
         /\ y.log[i].eof = (r.log[i].eof \/ ~ r.log[i].left)
    <3> DEFINE l == r.log[i]
    <3>1. l \in Log
      BY Zenon, <2>8
    <3> HIDE DEF l
    <3>2. /\ [l EXCEPT !.eof = @ \/ ~ l.left].wrote = l.wrote
          /\ [l EXCEPT !.eof = @ \/ ~ l.left].got = l.got
          /\ [l EXCEPT !.eof = @ \/ ~ l.left].left = l.left
          /\ [l EXCEPT !.eof = @ \/ ~ l.left].ended = l.ended
          /\ [l EXCEPT !.eof = @ \/ ~ l.left].eof = (l.eof \/ ~ l.left)
      BY ZenonT(60), <3>1 DEF Log
    <3> QED
      BY ZenonT(60), <2>9, <3>2 DEF l
  <2>11. CASE r = x /\ x.ch[n].sentEof
    <3>1. y.log[i].ended = (x.log[i].ended \/ ~ x.ch[n].sentEof)
      BY Zenon, <1>1, <2>10, <2>11 DEF Log
    <3>2. OtherLogs(x, y, i)
      BY Zenon, <2>9, <2>11
    <3> QED
      BY ZenonT(60), <2>5, <2>6, <2>7, <2>10, <2>11, <3>1, <3>2, <1>5
         DEF HeardEof, Heard, i
  <2>12. CASE ~ x.ch[n].sentEof
    <3>1. /\ Said(x, r, n, "Eof") /\ OtherLogs(x, r, i)
          /\ r.ch[n] = [x.ch[n] EXCEPT !.sentEof = TRUE]
          /\ r.log[i] = [x.log[i] EXCEPT !.ended = TRUE]
      BY Zenon, <1>2, <1>5, <2>12 DEF Ended, Stuck, i
    <3>2. /\ r.log[i].wrote = x.log[i].wrote /\ r.log[i].got = x.log[i].got
          /\ r.log[i].left = x.log[i].left /\ r.log[i].eof = x.log[i].eof
          /\ r.log[i].ended = TRUE /\ r.ch[n].sentEof = TRUE
      BY Zenon, <1>1, <3>1 DEF Log, Channel
    <3>3. OtherLogs(x, y, i) /\ Said(x, y, n, "Eof")
      BY <1>5, <2>5, <2>9, <3>1 DEF OtherLogs, Said
    <3>4. /\ y.log[i].ended = (x.log[i].ended \/ ~ x.ch[n].sentEof)
          /\ y.log[i].eof = (x.log[i].eof \/ ~ x.log[i].left)
          /\ y.log[i].wrote = x.log[i].wrote /\ y.log[i].got = x.log[i].got
          /\ y.log[i].left = x.log[i].left
      BY ZenonT(60), <2>10, <2>12, <3>2
    <3>5. HeardEof(x, y, n)
      BY ZenonT(60), <1>5, <2>5, <2>7, <2>12, <3>2, <3>3, <3>4 DEF HeardEof, Heard, i
    <3> QED
      BY Zenon, <2>6, <3>5
  <2> QED
    BY Zenon, <1>2, <1>5, <2>11, <2>12 DEF Ended, Stuck
<1> QED
  BY Zenon, <1>4, <1>5

LEMMA HandleCloseFields ==
  ASSUME NEW x \in EndState, Numbered(x, MaxOpen), NEW n \in Slots,
         x.ch[n].state # "Free", x.ch[n].num # 0, x.err = "ok",
         NEW y, y = HandleClose(x, n)
  PROVE  Aside(x, y, n) /\ (Stuck(x, y) \/ HeardClose(x, y, n))
<1> DEFINE i == x.ch[n].id
           p == To(x, n, "Close", 0)
           z == Send(x, p)
           r == IF x.ch[n].sentClose THEN x ELSE z
           k == [x.ch[n] EXCEPT !.sentClose = TRUE, !.state = "RecvClose"]
<1>1. x.ch[n] \in Channel /\ i \in Ids /\ x.log[i] \in Log
  BY Zenon, SlotFacts, Known
<1>2. p \in Packet /\ p.t = "Close" /\ Of(x, n, p)
  BY ToFacts DEF PacketTypes, Of
<1>3. y = IF r.err = "ok"
            THEN Told([r EXCEPT !.ch[n].sentClose = TRUE,
                                !.ch[n].state = "RecvClose"], n)
            ELSE r
  BY DEF HandleClose
<1> HIDE DEF p
<1>4. /\ z \in EndState /\ z.ch = x.ch /\ z.rx = x.rx /\ z.ev = x.ev
      /\ z.nOpen = x.nOpen /\ z.handles = x.handles /\ z.log = x.log
      /\ \/ z.err = "ok" /\ z.out = Append(x.out, p)
         \/ z.err = "BusySend" /\ z.out = x.out
  BY Zenon, <1>2, SendFields
<1> HIDE DEF z
<1>5. /\ r \in EndState /\ r.ch = x.ch /\ r.rx = x.rx /\ r.ev = x.ev
      /\ r.nOpen = x.nOpen /\ r.handles = x.handles /\ r.log = x.log
      /\ r.err # "ok" => r.err = "BusySend" /\ r.out = x.out
      /\ r.err = "ok" =>
           IF x.ch[n].sentClose THEN r.out = x.out ELSE r.out = Append(x.out, p)
  BY Zenon, <1>4
<1> HIDE DEF r, i
<1>6. CASE r.err # "ok"
  BY Zenon, <1>3, <1>5, <1>6 DEF Aside, Stuck, OtherSlots
<1>7. CASE r.err = "ok"
  <2>1. y = Told([r EXCEPT !.ch[n] = k], n)
    <3>1. [r EXCEPT !.ch[n].sentClose = TRUE, !.ch[n].state = "RecvClose"]
            = [r EXCEPT !.ch[n] = k]
      BY ZenonT(60), <1>5 DEF EndState
    <3> QED
      BY Zenon, <1>3, <1>7, <3>1
  <2>2. /\ k \in Channel /\ k.id = x.ch[n].id /\ k.state = "RecvClose"
        /\ k.num = x.ch[n].num /\ k.pending = x.ch[n].pending
        /\ k.confirmed = x.ch[n].confirmed /\ k.done = x.ch[n].done
        /\ k.sentEof = x.ch[n].sentEof /\ k.sentClose
    BY ZenonT(60), <1>1 DEF Channel, ChanStates
  <2> HIDE DEF k
  <2>3. r.ch[n] = x.ch[n]
    BY Zenon, <1>5
  <2>4. /\ Aside(r, y, n) /\ y.ch[n] = k /\ Notified(r, y, n)
        /\ y.err = r.err /\ y.out = r.out
    BY <1>1, <1>5, <2>1, <2>2, <2>3, ToldFields DEF i
  <2>5. Aside(x, y, n)
    BY Zenon, <1>5, <2>4 DEF Aside, OtherSlots
  <2>6. /\ SlotRest(x, y, n) /\ y.ch[n].state = "RecvClose"
        /\ y.ch[n].sentEof = x.ch[n].sentEof /\ y.ch[n].sentClose
    BY Zenon, <2>2, <2>4 DEF SlotRest
  <2>7. /\ y.log[i] = [x.log[i] EXCEPT !.eof = @ \/ ~ x.log[i].left]
        /\ OtherLogs(x, y, i)
    BY Zenon, <1>5, <2>3, <2>4 DEF Notified, OtherLogs, i
  <2>8. /\ y.log[i].wrote = x.log[i].wrote /\ y.log[i].got = x.log[i].got
        /\ y.log[i].left = x.log[i].left /\ y.log[i].ended = x.log[i].ended
        /\ y.log[i].eof = (x.log[i].eof \/ ~ x.log[i].left)
    <3> DEFINE l == x.log[i]
    <3>1. l \in Log
      BY Zenon, <1>1
    <3> HIDE DEF l
    <3>2. /\ [l EXCEPT !.eof = @ \/ ~ l.left].wrote = l.wrote
          /\ [l EXCEPT !.eof = @ \/ ~ l.left].got = l.got
          /\ [l EXCEPT !.eof = @ \/ ~ l.left].left = l.left
          /\ [l EXCEPT !.eof = @ \/ ~ l.left].ended = l.ended
          /\ [l EXCEPT !.eof = @ \/ ~ l.left].eof = (l.eof \/ ~ l.left)
      BY ZenonT(60), <3>1 DEF Log
    <3> QED
      BY ZenonT(60), <2>7, <3>2 DEF l
  <2>9. IF x.ch[n].sentClose THEN y.out = x.out ELSE Said(x, y, n, "Close")
    BY Zenon, <1>2, <1>5, <1>7, <2>4 DEF Said
  <2>10. y.log[i].ended =
           (x.log[i].ended \/ ("Close" = "Eof" /\ ~ x.ch[n].sentClose))
    BY Zenon, <1>1, <2>8 DEF Log
  <2>11. HeardClose(x, y, n)
    BY Zenon, <1>7, <2>4, <2>6, <2>7, <2>8, <2>9, <2>10 DEF HeardClose, Heard,
       i
  <2> QED
    BY Zenon, <2>5, <2>11
<1> QED
  BY Zenon, <1>6, <1>7

LEMMA WriteFields ==
  ASSUME NEW e \in Ends, NEW n \in Slots, NEW k \in 1 .. MaxPacket,
         Sound(end[e]), Write(e, n, k)
  PROVE  \E y \in EndState : Put(e, y) /\ Wrote(end[e], y, n, k)
<1> DEFINE x == end[e]
           i == x.ch[n].id
           p == To(x, n, "Data", k)
           z == Send(x, p)
           h == [x.ch[n] EXCEPT !.window = @ - k]
           l == [x.log[i] EXCEPT !.wrote = @ + k]
           y == WithLog(z, n, h, i, l)
<1>1. /\ x \in EndState /\ Numbered(x, MaxOpen) /\ x.err = "ok"
      /\ x.ch[n].state # "Free" /\ ~ x.ch[n].sentEof
      /\ k <= x.ch[n].window /\ ~ x.busy
  BY ZenonT(60) DEF Sound, Write, Usable, InUse
<1>0. Put(e, [Send(x, To(x, n, "Data", k))
                EXCEPT !.ch[n].window = @ - k,
                       !.log[x.ch[n].id].wrote = @ + k])
  BY ZenonT(60) DEF Write
<1>2. k \in Nat
  BY ChannelsAssumption
<1> HIDE DEF x
<1>3. x.ch[n] \in Channel /\ i \in Ids /\ x.log[i] \in Log
  BY Zenon, <1>1, SlotFacts, Known
<1>4. p \in Packet /\ p.t = "Data" /\ p.len = k /\ Of(x, n, p)
  BY <1>1, <1>2, ToFacts DEF PacketTypes, Of
<1>5. /\ h \in Channel /\ h.id = x.ch[n].id /\ h.num = x.ch[n].num
      /\ h.pending = x.ch[n].pending /\ h.confirmed = x.ch[n].confirmed
      /\ h.done = x.ch[n].done /\ h.state = x.ch[n].state
      /\ h.sentEof = x.ch[n].sentEof /\ h.sentClose = x.ch[n].sentClose
  <2> DEFINE g == x.ch[n]
  <2>1. g \in Channel /\ k <= g.window
    BY Zenon, <1>1, <1>3
  <2> HIDE DEF g
  <2>2. g.window - k \in Nat
    BY <1>2, <2>1 DEF Channel
  <2>3. /\ [g EXCEPT !.window = @ - k] \in Channel
        /\ [g EXCEPT !.window = @ - k].id = g.id
        /\ [g EXCEPT !.window = @ - k].num = g.num
        /\ [g EXCEPT !.window = @ - k].pending = g.pending
        /\ [g EXCEPT !.window = @ - k].confirmed = g.confirmed
        /\ [g EXCEPT !.window = @ - k].done = g.done
        /\ [g EXCEPT !.window = @ - k].state = g.state
        /\ [g EXCEPT !.window = @ - k].sentEof = g.sentEof
        /\ [g EXCEPT !.window = @ - k].sentClose = g.sentClose
    BY Zenon, <2>1, <2>2 DEF Channel
  <2> QED
    BY Zenon, <2>3 DEF g
<1>6. l \in Log
  BY <1>2, <1>3 DEF Log
<1> HIDE DEF p
<1>7. /\ z \in EndState /\ z.ch = x.ch /\ z.rx = x.rx /\ z.ev = x.ev
      /\ z.nOpen = x.nOpen /\ z.handles = x.handles /\ z.log = x.log
      /\ z.err = "ok" /\ z.out = Append(x.out, p)
  <2>1. Sendable(x, p.t)
    BY Zenon, <1>1 DEF Sendable
  <2> QED
    BY Zenon, <1>1, <1>4, <2>1, SendFields
<1>8. Put(e, y)
  BY ZenonT(60), <1>0, <1>7 DEF WithLog, p
<1> HIDE DEF z, h, l, i, y
<1>9. /\ Aside(z, y, n) /\ y.ch[n] = h /\ y.log[i] = l
      /\ OtherLogs(z, y, i) /\ y.err = z.err /\ y.out = z.out
  <2>1. y = WithLog(z, n, h, i, l) /\ z \in EndState /\ h \in Channel
    BY Zenon, <1>5, <1>7 DEF y
  <2> QED
    BY <1>3, <1>6, <2>1, SetLog
<1>10. Aside(x, y, n) /\ OtherLogs(x, y, i)
  BY Zenon, <1>7, <1>9 DEF Aside, OtherSlots, OtherLogs
<1>11. y \in EndState /\ Wrote(x, y, n, k)
  <2>1. SlotRest(x, y, n) /\ y.ch[n].state = x.ch[n].state
        /\ y.ch[n].sentEof = x.ch[n].sentEof
        /\ y.ch[n].sentClose = x.ch[n].sentClose
    BY Zenon, <1>5, <1>9 DEF SlotRest
  <2>2. \E q \in Packet : /\ q.t = "Data" /\ q.len = k /\ Of(x, n, q)
                          /\ y.out = Append(x.out, q)
    BY Zenon, <1>4, <1>7, <1>9
  <2>3. y.log[x.ch[n].id] = [x.log[x.ch[n].id] EXCEPT !.wrote = @ + k]
    BY Zenon, <1>9 DEF l, i
  <2> QED
    BY ZenonT(60), <1>1, <1>7, <1>9, <1>10, <2>1, <2>2, <2>3 DEF Wrote, Aside, i
<1> QED
  BY Zenon, <1>8, <1>11 DEF x

LEMMA ReadFields ==
  ASSUME NEW e \in Ends, NEW n \in Slots, NEW k \in 1 .. MaxPacket,
         Sound(end[e]), Read(e, n, k)
  PROVE  \E y \in EndState : Put(e, y) /\ Reading(end[e], y, n, k)
<1> DEFINE x == end[e]
           i == x.ch[n].id
           l == [x.log[i] EXCEPT !.got = @ + k]
           r == [x EXCEPT !.rx.left = @ - k, !.log[i].got = @ + k]
           h == [x.ch[n] EXCEPT !.packets = @ + 1]
           z == [r EXCEPT !.rx = NoData, !.ch[n].packets = @ + 1]
<1>1. /\ x \in EndState /\ Numbered(x, MaxOpen) /\ x.err = "ok"
      /\ x.rx.num = n /\ k <= x.rx.left /\ Tidy(x)
  BY Zenon DEF Sound, Read
<1>2. Put(e, IF k < x.rx.left THEN r ELSE FinishedRead(z, n, Overhead + x.rx.len))
  BY ZenonT(60) DEF Read
<1>3. k \in Nat /\ n # 0
  BY ChannelsAssumption DEF Slots
<1> HIDE DEF x
<1>4. x.ch[n].state # "Free"
  BY Zenon, <1>1, <1>3 DEF Tidy, Usual
<1>5. x.ch[n] \in Channel /\ i \in Ids /\ x.log[i] \in Log
  BY Zenon, <1>1, <1>4, SlotFacts, Known
<1>6. /\ x.rx.left - k \in Nat /\ x.rx \in DataIn /\ x.rx.len \in Nat
      /\ NoData \in DataIn
  BY <1>1, <1>3, RxFacts, ChannelsAssumption DEF EndState, NoData, DataIn
<1>7. l \in Log
  <2> DEFINE g == x.log[i]
  <2>1. g \in Log
    BY Zenon, <1>5
  <2> HIDE DEF g
  <2>2. [g EXCEPT !.got = @ + k] \in Log
    BY <1>3, <2>1 DEF Log
  <2> QED
    BY Zenon, <2>2 DEF g
<1>8. /\ h \in Channel /\ h.id = x.ch[n].id /\ h.num = x.ch[n].num
      /\ h.done = x.ch[n].done /\ h.state = x.ch[n].state
      /\ h.sentEof = x.ch[n].sentEof /\ h.sentClose = x.ch[n].sentClose
  <2> DEFINE g == x.ch[n]
  <2>1. g \in Channel
    BY Zenon, <1>5
  <2> HIDE DEF g
  <2>2. /\ [g EXCEPT !.packets = @ + 1] \in Channel
        /\ [g EXCEPT !.packets = @ + 1].id = g.id
        /\ [g EXCEPT !.packets = @ + 1].num = g.num
        /\ [g EXCEPT !.packets = @ + 1].done = g.done
        /\ [g EXCEPT !.packets = @ + 1].state = g.state
        /\ [g EXCEPT !.packets = @ + 1].sentEof = g.sentEof
        /\ [g EXCEPT !.packets = @ + 1].sentClose = g.sentClose
    BY <2>1 DEF Channel
  <2> QED
    BY Zenon, <2>2 DEF g
<1> HIDE DEF i
<1>9. /\ r \in EndState /\ r.err = x.err /\ r.ev = x.ev /\ r.nOpen = x.nOpen
      /\ r.handles = x.handles /\ r.ch = x.ch /\ r.out = x.out
      /\ r.log = [x.log EXCEPT ![i] = l]
      /\ r.rx = [x.rx EXCEPT !.left = @ - k]
  <2>1. r = [x EXCEPT !.rx = [x.rx EXCEPT !.left = @ - k],
                      !.log = [x.log EXCEPT ![i] = l]]
    BY ZenonT(60), <1>1 DEF EndState
  <2>2. [x.rx EXCEPT !.left = @ - k] \in DataIn
    <3> DEFINE g == x.rx
    <3>1. g \in DataIn /\ g.left - k \in Nat
      BY Zenon, <1>6
    <3> HIDE DEF g
    <3>2. [g EXCEPT !.left = @ - k] \in DataIn
      BY Zenon, <3>1 DEF DataIn
    <3> QED
      BY Zenon, <3>2 DEF g
  <2>3. [x.log EXCEPT ![i] = l] \in [Ids -> Log]
    <3>1. x.log \in [Ids -> Log]
      BY Zenon, <1>1 DEF EndState
    <3> HIDE DEF l
    <3> QED
      BY Zenon, <1>5, <1>7, <3>1
  <2> DEFINE f == [x.log EXCEPT ![i] = l]
             g == [x.rx EXCEPT !.left = @ - k]
  <2>4. f \in [Ids -> Log] /\ g \in DataIn /\ r = [x EXCEPT !.rx = g, !.log = f]
    BY Zenon, <2>1, <2>2, <2>3
  <2> HIDE DEF f, g, r
  <2>5. /\ r \in EndState /\ r.err = x.err /\ r.ev = x.ev /\ r.nOpen = x.nOpen
        /\ r.handles = x.handles /\ r.ch = x.ch /\ r.out = x.out
        /\ r.log = f /\ r.rx = g
    BY ZenonT(60), <1>1, <2>4 DEF EndState
  <2> QED
    BY Zenon, <2>5 DEF f, g
<1>10. /\ OtherLogs(x, r, i) /\ r.log[i] = l
  <2>1. x.log \in [Ids -> Log]
    BY Zenon, <1>1 DEF EndState
  <2> HIDE DEF l, r
  <2> QED
    BY Zenon, <1>5, <1>9, <2>1 DEF OtherLogs
<1>11. CASE k < x.rx.left
  <2>1. /\ r.rx.num = n /\ r.rx.len = x.rx.len /\ r.rx.left = x.rx.left - k
    BY <1>1, <1>6, <1>9 DEF DataIn
  <2>2. Put(e, r)
    BY Zenon, <1>2, <1>11
  <2> HIDE DEF r
  <2>3. Reading(x, r, n, k)
    BY Zenon, <1>1, <1>9, <1>10, <1>11, <2>1 DEF Reading, OtherSlots, Sends,
       i, l
  <2> QED
    BY Zenon, <1>9, <2>2, <2>3 DEF x
<1>12. CASE ~ (k < x.rx.left)
  <2> DEFINE y == FinishedRead(z, n, Overhead + x.rx.len)
  <2>1. Put(e, y)
    BY Zenon, <1>2, <1>12
  <2>2. z = [r EXCEPT !.rx = NoData, !.ch[n] = h]
    <3> HIDE DEF r
    <3> QED
      BY ZenonT(60), <1>9
  <2> HIDE DEF r, h, z
  <2>3. /\ z \in EndState /\ z.err = x.err /\ z.ev = x.ev /\ z.nOpen = x.nOpen
        /\ z.handles = x.handles /\ z.out = x.out /\ z.log = r.log
        /\ z.rx = NoData /\ z.ch[n] = h /\ OtherSlots(r, z, n)
    BY ZenonT(60), <1>6, <1>8, <1>9, <2>2 DEF EndState, OtherSlots
  <2>4. OtherSlots(x, z, n) /\ Numbered(z, MaxOpen)
    <3>1. OtherSlots(x, z, n)
      BY Zenon, <1>9, <2>3 DEF OtherSlots
    <3> QED
      BY <1>1, <1>8, <2>3, <3>1 DEF Numbered, OtherSlots
  <2>5. Adjusted(z, y, n)
    <3>1. Overhead + x.rx.len \in Nat
      BY <1>6, ChannelsAssumption
    <3>2. z.ch[n].state # "Free"
      BY Zenon, <1>4, <1>8, <2>3
    <3> QED
      BY Zenon, <2>3, <2>4, <3>1, <3>2, FinishedReadFields
  <2> HIDE DEF y
  <2>6. /\ y \in EndState /\ y.err = x.err /\ y.rx = NoData /\ y.ev = x.ev
        /\ y.nOpen = x.nOpen /\ y.handles = x.handles /\ y.log = r.log
        /\ OtherSlots(x, y, n)
    BY Zenon, <2>3, <2>4, <2>5 DEF Adjusted, OtherSlots
  <2>7. PICK j \in Nat : y.ch[n] = [h EXCEPT !.pending = j]
    BY Zenon, <2>3, <2>5 DEF Adjusted
  <2>8. /\ y.ch[n].id = x.ch[n].id /\ y.ch[n].num = x.ch[n].num
        /\ y.ch[n].state = x.ch[n].state /\ y.ch[n].done = x.ch[n].done
        /\ y.ch[n].sentEof = x.ch[n].sentEof
        /\ y.ch[n].sentClose = x.ch[n].sentClose
    BY Zenon, <1>8, <2>7 DEF Channel
  <2>9. OtherLogs(x, y, i) /\ y.log[i] = l
    BY Zenon, <1>10, <2>6 DEF OtherLogs
  <2>10. Sends(x, y, n, {"Adjust"})
    <3>1. Sends(z, y, n, {"Adjust"})
      BY Zenon, <2>5 DEF Adjusted
    <3>2. z.log[i].wrote = x.log[i].wrote
      <4>1. z.log[i] = l
        BY Zenon, <1>10, <2>3
      <4> QED
        BY Zenon, <1>5, <4>1 DEF Log
    <3>3. \A p : Of(z, n, p) <=> Of(x, n, p)
      BY Zenon, <1>8, <2>3, <3>2 DEF Of, i
    <3> QED
      BY Zenon, <2>3, <3>1, <3>3 DEF Sends
  <2>11. Reading(x, y, n, k)
    BY Zenon, <1>1, <1>12, <2>6, <2>8, <2>9, <2>10 DEF Reading, i, l
  <2> QED
    BY Zenon, <2>1, <2>6, <2>11 DEF x
<1> QED
  BY Zenon, <1>11, <1>12

LEMMA ChannelDoneFields ==
  ASSUME NEW e \in Ends, NEW n \in Slots, Sound(end[e]), ChannelDone(e, n)
  PROVE  \E y \in EndState :
           /\ Put(e, y)
           /\ IF Usable(end[e], n) THEN Done(end[e], y, n)
              ELSE /\ y.ch = end[e].ch /\ y.rx = end[e].rx
                   /\ y.ev = end[e].ev /\ y.err = "ok"
                   /\ y.nOpen = end[e].nOpen /\ y.out = end[e].out
                   /\ y.log = end[e].log
                   /\ y.handles = end[e].handles \ {n}
<1> DEFINE x == end[e]
           i == x.ch[n].id
           s == [x EXCEPT !.handles = @ \ {n}]
           y == [s EXCEPT !.ch[n].done = TRUE, !.log[s.ch[n].id].left = TRUE,
                          !.rx = IF s.rx.num = n THEN NoData ELSE @]
           h == [x.ch[n] EXCEPT !.done = TRUE]
           l == [x.log[i] EXCEPT !.left = TRUE]
           g == IF x.rx.num = n THEN NoData ELSE x.rx
<1>1. x \in EndState /\ Numbered(x, MaxOpen) /\ x.err = "ok"
  BY Zenon DEF Sound
<1>2. Put(e, IF ~ Usable(s, n) THEN s ELSE y)
  BY Zenon DEF ChannelDone
<1> HIDE DEF x
<1>3. x.handles \ {n} \in SUBSET Slots
  BY Zenon, <1>1 DEF EndState
<1>4. /\ s \in EndState /\ s.handles = x.handles \ {n} /\ s.ch = x.ch
      /\ s.rx = x.rx /\ s.ev = x.ev /\ s.err = x.err /\ s.nOpen = x.nOpen
      /\ s.out = x.out /\ s.log = x.log
  BY ZenonT(60), <1>1, <1>3 DEF EndState
<1>5. Usable(s, n) <=> Usable(x, n)
  BY Zenon, <1>4 DEF Usable, InUse
<1>6. CASE ~ Usable(x, n)
  <2>1. Put(e, s)
    BY Zenon, <1>2, <1>5, <1>6
  <2> HIDE DEF s
  <2> QED
    BY Zenon, <1>1, <1>4, <1>6, <2>1 DEF x
<1>7. CASE Usable(x, n)
  <2>1. Put(e, y)
    BY Zenon, <1>2, <1>5, <1>7
  <2>2. x.ch[n] \in Channel /\ i \in Ids /\ x.log[i] \in Log
    BY Zenon, <1>1, <1>7, SlotFacts, Known DEF Usable, InUse
  <2>3. /\ h \in Channel /\ h.id = x.ch[n].id /\ h.num = x.ch[n].num
        /\ h.state = x.ch[n].state /\ h.pending = x.ch[n].pending
        /\ h.confirmed = x.ch[n].confirmed /\ h.done
        /\ h.sentEof = x.ch[n].sentEof /\ h.sentClose = x.ch[n].sentClose
    BY ZenonT(60), <2>2 DEF Channel
  <2>4. l \in Log
    BY ZenonT(60), <2>2 DEF Log
  <2>5. g \in DataIn
    BY <1>1, ChannelsAssumption DEF EndState, NoData, DataIn
  <2> HIDE DEF s
  <2>6. y = [s EXCEPT !.ch[n] = h, !.log[i] = l, !.rx = g]
    BY ZenonT(60), <1>4
  <2> HIDE DEF y, h, l, g, i
  <2>7. /\ y \in EndState /\ y.err = s.err /\ y.ev = s.ev /\ y.nOpen = s.nOpen
        /\ y.out = s.out /\ y.handles = s.handles /\ y.rx = g
        /\ y.ch[n] = h /\ OtherSlots(s, y, n)
        /\ y.log[i] = l /\ OtherLogs(s, y, i)
    BY ZenonT(60), <1>4, <2>2, <2>3, <2>4, <2>5, <2>6
       DEF EndState, OtherSlots, OtherLogs
  <2>8. OtherSlots(x, y, n) /\ OtherLogs(x, y, i)
    BY Zenon, <1>4, <2>7 DEF OtherSlots, OtherLogs
  <2>9. Leaves(x, y, n)
    BY Zenon, <1>1, <1>4, <2>3, <2>7, <2>8 DEF Leaves, g, i
  <2>10. Done(x, y, n)
    BY Zenon, <1>4, <2>3, <2>7, <2>9 DEF Done, l, i
  <2> QED
    BY Zenon, <1>7, <2>1, <2>7, <2>10 DEF x
<1> QED
  BY Zenon, <1>6, <1>7

LEMMA ForeignCloseFields ==
  ASSUME NEW e \in Ends, NEW n \in Slots, Sound(end[e]), ForeignClose(e, n)
  PROVE  \E y \in EndState : Put(e, y) /\ Closes(end[e], y, n)
<1> DEFINE x == end[e]
           i == x.ch[n].id
           p == To(x, n, "Close", 0)
           s == Send(x, p)
           a == [s EXCEPT !.ch[n] = [@ EXCEPT !.sentClose = TRUE,
                                              !.sentEof = TRUE, !.done = TRUE]]
           b == [a EXCEPT !.handles = @ \ {n},
                          !.rx = IF @.num = n THEN NoData ELSE @]
           y == [b EXCEPT !.log[i] = [@ EXCEPT !.ended = TRUE, !.left = TRUE]]
           h == [x.ch[n] EXCEPT !.sentClose = TRUE, !.sentEof = TRUE,
                                !.done = TRUE]
           l == [x.log[i] EXCEPT !.ended = TRUE, !.left = TRUE]
           g == IF x.rx.num = n THEN NoData ELSE x.rx
<1>1. /\ x \in EndState /\ Numbered(x, MaxOpen) /\ x.err = "ok"
      /\ x.ch[n].state # "Free" /\ Sendable(x, "Close")
  BY ZenonT(60) DEF Sound, ForeignClose, Usable, InUse
<1>2. Put(e, y)
  BY ZenonT(60) DEF ForeignClose
<1> HIDE DEF x
<1>3. x.ch[n] \in Channel /\ i \in Ids /\ x.log[i] \in Log
  BY Zenon, <1>1, SlotFacts, Known
<1>4. p \in Packet /\ p.t = "Close" /\ Of(x, n, p)
  BY <1>1, ToFacts DEF PacketTypes, Of
<1> HIDE DEF p
<1>5. /\ s \in EndState /\ s.ch = x.ch /\ s.rx = x.rx /\ s.ev = x.ev
      /\ s.nOpen = x.nOpen /\ s.handles = x.handles /\ s.log = x.log
      /\ s.err = "ok" /\ s.out = Append(x.out, p)
  BY Zenon, <1>1, <1>4, SendFields
<1>6. /\ h \in Channel /\ h.id = x.ch[n].id /\ h.num = x.ch[n].num
      /\ h.state = x.ch[n].state /\ h.pending = x.ch[n].pending
      /\ h.confirmed = x.ch[n].confirmed /\ h.done
      /\ h.sentEof /\ h.sentClose
  BY ZenonT(60), <1>3 DEF Channel
<1>7. l \in Log
  BY ZenonT(60), <1>3 DEF Log
<1>8. g \in DataIn /\ x.handles \ {n} \in SUBSET Slots
  BY <1>1, ChannelsAssumption DEF EndState, NoData, DataIn
<1> HIDE DEF s
<1>9. a = [s EXCEPT !.ch[n] = h]
  BY Zenon, <1>5 DEF EndState
<1> HIDE DEF a, h, g, l, i
<1>a. /\ a \in EndState /\ a.ch[n] = h /\ OtherSlots(s, a, n) /\ a.rx = x.rx
      /\ a.ev = x.ev /\ a.err = "ok" /\ a.nOpen = x.nOpen
      /\ a.handles = x.handles /\ a.log = x.log /\ a.out = s.out
  BY ZenonT(60), <1>5, <1>6, <1>9, SetSlot
<1>b. /\ b \in EndState /\ b.ch = a.ch /\ b.rx = g /\ b.ev = a.ev
      /\ b.err = a.err /\ b.nOpen = a.nOpen /\ b.out = a.out
      /\ b.handles = x.handles \ {n} /\ b.log = a.log
  BY ZenonT(60), <1>8, <1>a DEF EndState, g
<1> HIDE DEF b
<1>c. y = [b EXCEPT !.log[i] = l]
  BY Zenon, <1>3, <1>a, <1>b DEF EndState, l, i
<1> HIDE DEF y
<1>10. /\ y \in EndState /\ y.err = "ok" /\ y.ev = x.ev /\ y.nOpen = x.nOpen
       /\ y.out = s.out /\ y.handles = x.handles \ {n} /\ y.rx = g
       /\ y.ch[n] = h /\ OtherSlots(s, y, n)
       /\ y.log[i] = l /\ OtherLogs(s, y, i)
  <2>1. /\ y \in EndState /\ y.ch = b.ch /\ y.rx = b.rx /\ y.ev = b.ev
        /\ y.err = b.err /\ y.nOpen = b.nOpen /\ y.out = b.out
        /\ y.handles = b.handles /\ y.log[i] = l /\ OtherLogs(b, y, i)
    BY ZenonT(60), <1>3, <1>7, <1>b, <1>c DEF EndState, OtherLogs
  <2> QED
    BY <1>5, <1>a, <1>b, <2>1 DEF OtherSlots, OtherLogs
<1>11. OtherSlots(x, y, n) /\ OtherLogs(x, y, i)
  BY Zenon, <1>5, <1>10 DEF OtherSlots, OtherLogs
<1>12. Leaves(x, y, n)
  BY Zenon, <1>5, <1>6, <1>10, <1>11 DEF Leaves, g, i
<1>13. Said(x, y, n, "Close")
  BY Zenon, <1>1, <1>4, <1>5, <1>10 DEF Said
<1>14. Closes(x, y, n)
  BY Zenon, <1>6, <1>10, <1>12, <1>13 DEF Closes, l, i
<1> QED
  BY Zenon, <1>2, <1>10, <1>14 DEF x

\* What comes after q in a concatenation.
LEMMA ConcatAll ==
  ASSUME NEW P, NEW G, NEW q \in Seq(P), NEW a \in Seq(G), NEW r, r = q \o a
  PROVE  /\ Len(r) >= Len(q) /\ \A j \in 1 .. Len(q) : r[j] = q[j]
         /\ \A j \in 1 .. Len(r) : j > Len(q) => r[j] \in G
  OBVIOUS

LEMMA ProgressFields ==
  ASSUME NEW e \in Ends, Sound(end[e]), Progress(e)
  PROVE  \E y \in EndState : Put(e, y) /\ Progressed(end[e], y)
<1> DEFINE x == end[e]
           fresh == FirstOf({n \in Slots : x.ch[n].confirmed})
           last == IF fresh = {} THEN MaxChannels
                   ELSE CHOOSE n \in fresh : TRUE
           due == {n \in 1 .. last : ~ x.busy /\ AdjustDue(x, n)}
<1>1. x \in EndState /\ Numbered(x, MaxOpen) /\ x.err = "ok" /\ Tidy(x)
  BY Zenon DEF Sound
<1>2. PICK q \in InTurn(due) :
        Put(e, [x EXCEPT
          !.out = @ \o [i \in 1 .. Len(q) |->
                     To(x, q[i], "Adjust", x.ch[q[i]].pending)]
                   \o IF fresh = {} \/ x.busy THEN <<>>
                      ELSE <<To(x, last, "Request", 0)>>,
          !.ch = [n \in Slots |->
                    [x.ch[n] EXCEPT !.pending = IF n \in due THEN 0 ELSE @,
                                    !.confirmed = @ /\ n # last]]])
  BY Zenon DEF Progress
<1> DEFINE a == [i \in 1 .. Len(q) |->
                   To(x, q[i], "Adjust", x.ch[q[i]].pending)]
           b == IF fresh = {} \/ x.busy THEN <<>>
                ELSE <<To(x, last, "Request", 0)>>
           f == [n \in Slots |->
                   [x.ch[n] EXCEPT !.pending = IF n \in due THEN 0 ELSE @,
                                   !.confirmed = @ /\ n # last]]
           y == [x EXCEPT !.out = @ \o a \o b, !.ch = f]
<1>3. Put(e, y)
  BY Zenon, <1>2
<1> HIDE DEF x
<1>4. last \in Slots /\ (fresh # {} => x.ch[last].confirmed)
  <2>1. \A n \in fresh : n \in Slots /\ x.ch[n].confirmed
    BY Zenon DEF FirstOf
  <2>2. MaxChannels \in Slots
    BY ChannelsAssumption DEF Slots
  <2> HIDE DEF fresh
  <2> QED
    BY Zenon, <2>1, <2>2
<1>5. \A n \in due : n \in Slots /\ x.ch[n].state \in Usual
  <2> SUFFICES ASSUME NEW n \in due
               PROVE  n \in Slots /\ x.ch[n].state \in Usual
    BY Zenon
  <2>1. n \in Slots
    BY <1>4, ChannelsAssumption DEF Slots
  <2>2. x.ch[n].pending > Window \div 2
    BY Zenon DEF AdjustDue
  <2>3. x.ch[n].pending \in Nat
    BY Zenon, <1>1, <2>1, SlotFacts DEF Channel
  <2>4. x.ch[n].pending # 0
    BY <2>2, <2>3, ChannelsAssumption
  <2> QED
    BY Zenon, <1>1, <2>1, <2>4 DEF Tidy
<1>6. fresh # {} => x.ch[last].state \in Usual
  <2> HIDE DEF last
  <2> QED
    BY Zenon, <1>1, <1>4 DEF Tidy
<1> HIDE DEF last, due, fresh
<1>7. Len(q) \in Nat /\ \A i \in 1 .. Len(q) : q[i] \in due
  <2>1. PICK k \in 0 .. MaxChannels : q \in [1 .. k -> due]
    BY Zenon, <1>2 DEF InTurn
  <2>2. k \in Nat /\ DOMAIN q = 1 .. k
    BY <2>1, ChannelsAssumption
  <2>3. Len(q) = k
    BY <2>2
  <2> QED
    BY Zenon, <2>1, <2>2, <2>3
<1>8. ASSUME NEW n \in Slots, x.ch[n].state \in Usual, NEW k \in Nat,
             NEW t \in {"Adjust", "Request"}
      PROVE  To(x, n, t, k) \in Notices(x)
  <2> DEFINE p == To(x, n, t, k)
  <2>1. p \in Packet /\ p.t = t /\ Of(x, n, p)
    BY <1>1, <1>8, ToFacts DEF PacketTypes, Of, Usual
  <2> HIDE DEF p
  <2>2. p \in Notices(x)
    BY Zenon, <1>8, <2>1 DEF Notices
  <2> QED
    BY Zenon, <2>2 DEF p
<1>9. a \in Seq(Notices(x)) /\ Len(a) = Len(q)
  <2>1. ASSUME NEW i \in 1 .. Len(q)
        PROVE  To(x, q[i], "Adjust", x.ch[q[i]].pending) \in Notices(x)
    <3>1. q[i] \in Slots /\ x.ch[q[i]].state \in Usual
      BY Zenon, <1>5, <1>7
    <3>2. x.ch[q[i]].pending \in Nat
      BY Zenon, <1>1, <3>1, SlotFacts DEF Channel
    <3> QED
      BY Zenon, <1>8, <3>1, <3>2
  <2> QED
    BY <1>7, <2>1
<1>10. b \in Seq(Notices(x))
  <2>1. CASE fresh = {} \/ x.busy
    BY <2>1
  <2>2. CASE ~ (fresh = {} \/ x.busy)
    <3>1. To(x, last, "Request", 0) \in Notices(x)
      BY Zenon, <1>4, <1>6, <1>8, <2>2
    <3> QED
      BY <2>2, <3>1
  <2> QED
    BY Zenon, <2>1, <2>2
<1>11. \A n \in Slots :
         /\ f[n] \in Channel
         /\ f[n].id = x.ch[n].id /\ f[n].num = x.ch[n].num
         /\ f[n].state = x.ch[n].state /\ f[n].done = x.ch[n].done
         /\ f[n].sentEof = x.ch[n].sentEof
         /\ f[n].sentClose = x.ch[n].sentClose
         /\ f[n].pending # 0 => x.ch[n].pending # 0
         /\ f[n].confirmed => x.ch[n].confirmed
  <2> SUFFICES ASSUME NEW n \in Slots
               PROVE  /\ f[n] \in Channel
                      /\ f[n].id = x.ch[n].id /\ f[n].num = x.ch[n].num
                      /\ f[n].state = x.ch[n].state /\ f[n].done = x.ch[n].done
                      /\ f[n].sentEof = x.ch[n].sentEof
                      /\ f[n].sentClose = x.ch[n].sentClose
                      /\ f[n].pending # 0 => x.ch[n].pending # 0
                      /\ f[n].confirmed => x.ch[n].confirmed
    BY Zenon
  <2> DEFINE h == x.ch[n]
             u == IF n \in due THEN 0 ELSE h.pending
             v == h.confirmed /\ n # last
  <2>1. h \in Channel
    BY Zenon, <1>1, SlotFacts
  <2>2. f[n] = [h EXCEPT !.pending = u, !.confirmed = v]
    BY Zenon, <2>1 DEF Channel
  <2>3. u \in Nat /\ (u # 0 => h.pending # 0) /\ (v => h.confirmed)
    BY Zenon, <2>1 DEF Channel
  <2>4. v \in BOOLEAN
    BY Zenon
  <2> HIDE DEF h, u, v, f
  <2>5. /\ f[n] \in Channel
        /\ f[n].id = h.id /\ f[n].num = h.num
        /\ f[n].state = h.state /\ f[n].done = h.done
        /\ f[n].sentEof = h.sentEof /\ f[n].sentClose = h.sentClose
        /\ f[n].pending = u /\ f[n].confirmed = v
    BY ZenonT(60), <2>1, <2>2, <2>3, <2>4 DEF Channel
  <2> QED
    BY ZenonT(60), <2>3, <2>5 DEF h
<1>12. x.out \in Seq(Packet) /\ Notices(x) \subseteq Packet
  BY Zenon, <1>1, Lengths DEF Notices
<1> DEFINE m == x.out \o a
           r == m \o b
<1> HIDE DEF a, b
<1>13. /\ m \in Seq(Packet) /\ r \in Seq(Packet)
       /\ Len(r) >= Len(x.out) /\ \A j \in 1 .. Len(x.out) : r[j] = x.out[j]
       /\ \A j \in 1 .. Len(r) : j > Len(x.out) => r[j] \in Notices(x)
  <2> DEFINE o == x.out
             N == Notices(x)
  <2>1. o \in Seq(Packet) /\ a \in Seq(N) /\ b \in Seq(N) /\ N \subseteq Packet
    BY Zenon, <1>9, <1>10, <1>12
  <2>2. a \in Seq(Packet) /\ b \in Seq(Packet)
    <3> HIDE DEF N
    <3> QED
      BY <2>1
  <2>3. m = o \o a /\ r = m \o b
    BY Zenon
  <2> HIDE DEF o, N, m, r
  <2>4. m \in Seq(Packet) /\ r \in Seq(Packet)
    BY <2>1, <2>2, <2>3
  <2>5. /\ Len(m) >= Len(o) /\ \A j \in 1 .. Len(o) : m[j] = o[j]
        /\ \A j \in 1 .. Len(m) : j > Len(o) => m[j] \in N
    BY <2>1, <2>3, ConcatAll
  <2>6. /\ Len(r) >= Len(m) /\ \A j \in 1 .. Len(m) : r[j] = m[j]
        /\ \A j \in 1 .. Len(r) : j > Len(m) => r[j] \in N
    BY <2>1, <2>3, <2>4, ConcatAll
  <2>7. Len(r) \in Nat /\ Len(m) \in Nat /\ Len(o) \in Nat
    BY <2>1, <2>4
  <2>8. /\ Len(r) >= Len(o) /\ \A j \in 1 .. Len(o) : r[j] = o[j]
        /\ \A j \in 1 .. Len(r) : j > Len(o) => r[j] \in N
    BY <2>5, <2>6, <2>7
  <2> QED
    BY Zenon, <2>4, <2>8 DEF o, N
<1>14. f \in [Slots -> Channel]
  BY Zenon, <1>11
<1>15. y = [x EXCEPT !.out = r, !.ch = f]
  BY Zenon
<1> HIDE DEF f, r, y
<1>16. /\ y \in EndState /\ y.err = x.err /\ y.rx = x.rx /\ y.ev = x.ev
       /\ y.nOpen = x.nOpen /\ y.handles = x.handles /\ y.log = x.log
       /\ y.ch = f /\ y.out = r
  BY ZenonT(60), <1>1, <1>13, <1>14, <1>15 DEF EndState
<1>17. Progressed(x, y)
  BY Zenon, <1>11, <1>13, <1>16 DEF Progressed
<1> QED
  BY Zenon, <1>3, <1>16, <1>17 DEF x

\* A free slot has no conversation left over, while there is one to come.
LEMMA FreeSlot ==
  ASSUME NumbersOnce, NEW x \in EndState, NEW top \in Nat, top <= MaxOpen,
         Numbered(x, top), NEW n \in Slots, x.ch[n].state = "Free",
         top < MaxOpen \/ \E i \in 1 .. top : NoSlot(x, i)
  PROVE  x.ch[n].id = 0
<1>1. x.ch[n].id \in Nat /\ x.ch[n].id <= top
  BY Zenon, SlotFacts DEF Numbered
<1>2. x.ch[n].id # 0 => MaxOpen <= 1
  BY Zenon DEF Numbered, NumbersOnce
<1>3. MaxOpen \in Nat
  BY Zenon, ChannelsAssumption
<1>4. \A i \in 1 .. top : NoSlot(x, i) => x.ch[n].id # i
  BY Zenon DEF NoSlot
<1> QED
  BY <1>1, <1>2, <1>3, <1>4

LEMMA FirstUnused ==
  ASSUME NEW x, Unused(x) # {}
  PROVE  LET n == CHOOSE m \in Unused(x) : TRUE
         IN  n \in Slots /\ x.ch[n].state = "Free"
  BY Zenon DEF Unused, FirstOf

LEMMA NewChannelFields ==
  /\ NewChannel \in Channel
  /\ NewChannel.state = "Opening" /\ NewChannel.num = 0
  /\ NewChannel.pending = 0 /\ NewChannel.confirmed = FALSE
  /\ NewChannel.done = FALSE /\ NewChannel.id = 0
  /\ NewChannel.sentClose = FALSE
  BY ChannelsAssumption DEF NewChannel, Channel, ChanStates

LEMMA OpenSessionFields ==
  ASSUME NEW e \in Ends, Sound(end[e]), OpenSession(e)
  PROVE  \E y \in EndState, n \in Slots :
           /\ Put(e, y) /\ e = "client" /\ end[e].nOpen < MaxOpen
           /\ end[e].ch[n].state = "Free"
           /\ end[e].ch[n].id = 0 => Opened(end[e], y, n)
<1> DEFINE x == end[e]
           n == CHOOSE m \in Unused(x) : TRUE
           i == x.nOpen + 1
           new == [NewChannel EXCEPT !.id = i]
           p == [t |-> "Open", num |-> 0, from |-> n, len |-> Window,
                 id |-> i, at |-> 0]
           z == IF Sendable(x, "Open")
                  THEN [Send(x, p) EXCEPT !.handles = @ \cup {n}]
                  ELSE x
           y == [z EXCEPT !.ch[n] = new, !.nOpen = @ + 1]
<1>0. Put(e, y)
  BY Zenon DEF OpenSession
<1>1. e = "client" /\ x.nOpen < MaxOpen /\ Unused(x) # {}
  BY Zenon DEF OpenSession
<1>2. x \in EndState /\ x.err = "ok"
  BY Zenon DEF Sound
<1> HIDE DEF x
<1>3. n \in Slots /\ x.ch[n].state = "Free"
  BY Zenon, <1>1, FirstUnused
<1>4. x.nOpen \in Nat /\ i \in Nat
  BY <1>2 DEF EndState
<1> HIDE DEF n, i
<1>5. /\ new \in Channel /\ new.id = i /\ new.state = "Opening"
      /\ new.num = 0 /\ new.pending = 0 /\ new.confirmed = FALSE
      /\ new.done = FALSE /\ new.sentClose = FALSE
  <2> DEFINE k == NewChannel
  <2>1. /\ k \in Channel /\ k.state = "Opening" /\ k.num = 0
        /\ k.pending = 0 /\ k.confirmed = FALSE /\ k.done = FALSE
        /\ k.sentClose = FALSE
    BY Zenon, NewChannelFields
  <2> HIDE DEF k
  <2>2. /\ [k EXCEPT !.id = i] \in Channel /\ [k EXCEPT !.id = i].id = i
        /\ [k EXCEPT !.id = i].state = k.state
        /\ [k EXCEPT !.id = i].num = k.num
        /\ [k EXCEPT !.id = i].pending = k.pending
        /\ [k EXCEPT !.id = i].confirmed = k.confirmed
        /\ [k EXCEPT !.id = i].done = k.done
        /\ [k EXCEPT !.id = i].sentClose = k.sentClose
    BY ZenonT(60), <1>4, <2>1 DEF Channel
  <2> QED
    BY ZenonT(60), <2>1, <2>2 DEF k
<1>6. p \in Packet /\ p.t = "Open" /\ p.from = n /\ p.id = i /\ p.at = 0
  BY <1>3, <1>4, ChannelsAssumption DEF Packet, PacketTypes, Slots
<1> HIDE DEF p, new
<1>7. /\ z \in EndState /\ z.ch = x.ch /\ z.rx = x.rx /\ z.ev = x.ev
      /\ z.nOpen = x.nOpen /\ z.err = x.err /\ z.log = x.log
      /\ z.handles \subseteq x.handles \cup {n}
      /\ z.out = x.out \/ z.out = Append(x.out, p)
  <2>1. CASE Sendable(x, "Open")
    <3> DEFINE w == Send(x, p)
    <3>1. /\ w \in EndState /\ w.ch = x.ch /\ w.rx = x.rx /\ w.ev = x.ev
          /\ w.nOpen = x.nOpen /\ w.err = x.err /\ w.out = Append(x.out, p)
          /\ w.log = x.log /\ w.handles = x.handles
      BY Zenon, <1>2, <1>6, <2>1, SendFields
    <3>2. z = [w EXCEPT !.handles = @ \cup {n}]
      BY Zenon, <2>1
    <3> HIDE DEF w, z
    <3>3. /\ z \in EndState /\ z.ch = w.ch /\ z.rx = w.rx /\ z.ev = w.ev
          /\ z.nOpen = w.nOpen /\ z.err = w.err /\ z.out = w.out
          /\ z.log = w.log /\ z.handles = w.handles \cup {n}
      BY ZenonT(60), <1>3, <3>1, <3>2 DEF EndState
    <3> QED
      BY Zenon, <3>1, <3>3
  <2>2. CASE ~ Sendable(x, "Open")
    BY Zenon, <1>2, <2>2
  <2> QED
    BY Zenon, <2>1, <2>2
<1> HIDE DEF z
<1>8. y \in EndState /\ y.nOpen = i /\ y.ch[n] = new /\ OtherSlots(z, y, n)
      /\ y.rx = z.rx /\ y.ev = z.ev /\ y.err = z.err /\ y.out = z.out
      /\ y.log = z.log /\ y.handles = z.handles
  <2> DEFINE w == [z EXCEPT !.ch[n] = new]
  <2>1. /\ w \in EndState /\ w.ch[n] = new /\ OtherSlots(z, w, n)
        /\ w.rx = z.rx /\ w.ev = z.ev /\ w.err = z.err /\ w.out = z.out
        /\ w.nOpen = z.nOpen /\ w.log = z.log /\ w.handles = z.handles
    <3>1. z \in EndState /\ n \in Slots /\ new \in Channel
      BY Zenon, <1>3, <1>5, <1>7
    <3> QED
      BY ZenonT(60), <3>1, SetSlot
  <2>2. y = [w EXCEPT !.nOpen = @ + 1]
    BY Zenon
  <2>3. z.nOpen + 1 = i
    BY Zenon, <1>7 DEF i
  <2> HIDE DEF w, y
  <2>4. /\ y \in EndState /\ y.nOpen = i /\ y.ch = w.ch
        /\ y.rx = w.rx /\ y.ev = w.ev /\ y.err = w.err /\ y.out = w.out
        /\ y.log = w.log /\ y.handles = w.handles
    BY ZenonT(60), <1>4, <2>1, <2>2, <2>3 DEF EndState
  <2> QED
    BY ZenonT(60), <2>1, <2>4 DEF OtherSlots
<1> HIDE DEF y
<1>9. /\ Len(y.out) >= Len(x.out) /\ Len(y.out) <= Len(x.out) + 1
      /\ \A j \in 1 .. Len(x.out) : y.out[j] = x.out[j]
      /\ Len(y.out) > Len(x.out) => y.out[Len(y.out)] = p
  <2>1. x.out \in Seq(Packet)
    BY Zenon, <1>2, Lengths
  <2> QED
    BY <1>6, <1>7, <1>8, <2>1
<1>10. x.ch[n].id = 0 => Opened(x, y, n)
  BY Zenon, <1>1, <1>4, <1>5, <1>6, <1>7, <1>8, <1>9 DEF Opened, OtherSlots, i
<1> QED
  BY Zenon, <1>0, <1>1, <1>3, <1>8, <1>10 DEF x

\* What ResumeOpen makes of the server: without the event, with the slot in
\* use or free again, and the answer.
Answered(x) == [x EXCEPT !.ev = NoEvent]
Accepting(w, n) ==
  [w EXCEPT !.ch[n].state = "Normal", !.handles = @ \cup {n}]
Refusing(w, n) == [w EXCEPT !.ch[n] = NoChannel]
Answer(w, n, t, len, k) == [To(w, n, t, len) EXCEPT !.from = k]

LEMMA Decided ==
  ASSUME NEW x, Sound(x), NEW n \in Slots, x.ch[n].state # "Free",
         NEW w, w = Answered(x),
         NEW t \in PacketTypes, NEW len \in Nat, NEW k \in 0 .. MaxChannels,
         NEW p, p = Answer(w, n, t, len, k)
  PROVE  /\ w \in EndState /\ w.ev.k = "None" /\ w.ch = x.ch
         /\ w.rx = x.rx /\ w.err = "ok" /\ w.out = x.out
         /\ w.log = x.log /\ w.handles = x.handles
         /\ p \in Packet /\ p.t = t /\ p.num = x.ch[n].num
         /\ p.id = x.ch[n].id /\ p.from = k
         /\ p.at = x.log[x.ch[n].id].wrote
<1>1. NoEvent \in ServEvent /\ NoEvent.k = "None"
  BY ChannelsAssumption DEF NoEvent, ServEvent
<1>2. x \in EndState /\ x.err = "ok" /\ Numbered(x, MaxOpen)
  BY Zenon DEF Sound
<1>3. /\ w \in EndState /\ w.ev = NoEvent /\ w.ch = x.ch
      /\ w.rx = x.rx /\ w.err = "ok" /\ w.out = x.out
      /\ w.log = x.log /\ w.handles = x.handles
  BY ZenonT(60), <1>1, <1>2 DEF EndState, Answered
<1>4. Numbered(w, MaxOpen)
  BY <1>2, <1>3 DEF Numbered
<1> DEFINE q == To(w, n, t, len)
<1>5. q \in Packet /\ q.t = t /\ q.num = x.ch[n].num /\ q.id = x.ch[n].id
      /\ q.at = x.log[x.ch[n].id].wrote
  BY <1>3, <1>4, ToFacts
<1> HIDE DEF q
<1>6. p = [q EXCEPT !.from = k]
  BY Zenon DEF q, Answer
<1>7. p \in Packet /\ p.t = t /\ p.num = q.num /\ p.id = q.id /\ p.from = k
      /\ p.at = q.at
  BY ZenonT(60), <1>5, <1>6 DEF Packet
<1> QED
  BY Zenon, <1>1, <1>3, <1>5, <1>7

LEMMA AcceptFields ==
  ASSUME NEW x, Sound(x), x.ev.k = "OpenSession", NEW n \in Slots,
         x.ev.num = n, x.ch[n].state = "InOpen",
         NEW w, w = Answered(x),
         NEW y, y = Send(Accepting(w, n), Answer(w, n, "Confirm", Window, n))
  PROVE  y \in EndState /\ Accepted(x, y, n)
<1> DEFINE p == Answer(w, n, "Confirm", Window, n)
           v == [w.ch[n] EXCEPT !.state = "Normal"]
           u == [w EXCEPT !.ch[n] = v]
           z == Accepting(w, n)
<1>1. y = Send(z, p)
  BY Zenon
<1>2. n \in 0 .. MaxChannels /\ Window \in Nat /\ "Confirm" \in PacketTypes
  BY ChannelsAssumption DEF Slots, PacketTypes
<1>3. /\ w \in EndState /\ w.ev.k = "None" /\ w.ch = x.ch
      /\ w.rx = x.rx /\ w.err = "ok" /\ w.out = x.out
      /\ w.log = x.log /\ w.handles = x.handles
      /\ p \in Packet /\ p.t = "Confirm" /\ p.num = x.ch[n].num
      /\ p.id = x.ch[n].id /\ p.from = n /\ p.at = x.log[p.id].wrote
  BY <1>2, Decided
<1>4. v \in Channel /\ v.state = "Normal" /\ v.id = x.ch[n].id
      /\ v.num = x.ch[n].num /\ v.done = x.ch[n].done
      /\ v.sentEof = x.ch[n].sentEof /\ v.sentClose = x.ch[n].sentClose
  <2> DEFINE h == w.ch[n]
  <2>1. h \in Channel /\ h = x.ch[n]
    BY Zenon, <1>3, SlotFacts
  <2> HIDE DEF h
  <2>2. /\ [h EXCEPT !.state = "Normal"] \in Channel
        /\ [h EXCEPT !.state = "Normal"].state = "Normal"
        /\ [h EXCEPT !.state = "Normal"].id = h.id
        /\ [h EXCEPT !.state = "Normal"].num = h.num
        /\ [h EXCEPT !.state = "Normal"].done = h.done
        /\ [h EXCEPT !.state = "Normal"].sentEof = h.sentEof
        /\ [h EXCEPT !.state = "Normal"].sentClose = h.sentClose
    BY ZenonT(60), <2>1 DEF Channel, ChanStates
  <2> QED
    BY ZenonT(60), <2>1, <2>2 DEF h
<1>5. z = [u EXCEPT !.handles = @ \cup {n}]
  BY ZenonT(60), <1>3 DEF EndState, Accepting
<1> HIDE DEF v
<1>6. /\ u \in EndState /\ u.ch[n] = v /\ OtherSlots(w, u, n)
      /\ u.rx = w.rx /\ u.ev = w.ev /\ u.err = w.err /\ u.out = w.out
      /\ u.log = w.log /\ u.handles = w.handles
  BY <1>3, <1>4, SetSlot
<1> HIDE DEF p, z, u
<1>7. /\ z \in EndState /\ z.ch = u.ch /\ z.rx = u.rx /\ z.ev = u.ev
      /\ z.err = u.err /\ z.out = u.out
      /\ z.log = u.log /\ z.handles = u.handles \cup {n}
  BY ZenonT(60), <1>5, <1>6 DEF EndState
<1>8. /\ y \in EndState /\ y.ch = z.ch /\ y.rx = z.rx /\ y.ev = z.ev
      /\ y.log = z.log /\ y.handles = z.handles
      /\ \/ y.err = z.err /\ y.out = Append(z.out, p)
         \/ y.err = "BusySend" /\ y.out = z.out
  BY <1>1, <1>3, <1>7, SendFields
<1>9. /\ y.ev.k = "None" /\ y.rx = x.rx /\ y.ch[n] = v
      /\ y.log = x.log /\ y.handles = x.handles \cup {n}
      /\ \A k \in Slots : k # n => y.ch[k] = x.ch[k]
  <2>1. y.log = x.log /\ y.handles = x.handles \cup {n}
    BY Zenon, <1>3, <1>6, <1>7, <1>8
  <2>2. y.ev.k = "None" /\ y.rx = x.rx /\ y.ch = u.ch /\ w.ch = x.ch
    BY Zenon, <1>3, <1>6, <1>7, <1>8
  <2>3. \A k \in Slots : k # n => y.ch[k] = x.ch[k]
    BY Zenon, <1>6, <2>2 DEF OtherSlots
  <2> QED
    BY Zenon, <1>6, <2>1, <2>2, <2>3
<1>10. \/ y.err = "BusySend" /\ y.out = x.out
       \/ /\ y.err = "ok" /\ Len(y.out) = Len(x.out) + 1
          /\ \A j \in 1 .. Len(x.out) : y.out[j] = x.out[j]
          /\ y.out[Len(y.out)] = p
  <2>1. x.out \in Seq(Packet)
    BY Zenon, Lengths DEF Sound
  <2> QED
    BY <1>3, <1>6, <1>7, <1>8, <2>1
<1>11. x.err = "ok"
  BY Zenon DEF Sound
<1> QED
  <2>1. \/ y.err = "BusySend" /\ y.out = x.out
        \/ /\ y.err = "ok" /\ Len(y.out) = Len(x.out) + 1
           /\ \A j \in 1 .. Len(x.out) : y.out[j] = x.out[j]
           /\ LET q == y.out[Len(y.out)] IN
              /\ q.t = "Confirm" /\ q.num = x.ch[n].num
              /\ q.id = x.ch[n].id /\ q.from = n
              /\ q.at = x.log[q.id].wrote
    BY Zenon, <1>3, <1>10
  <2>2. /\ y.ch[n].state = "Normal" /\ y.ch[n].id = x.ch[n].id
        /\ y.ch[n].num = x.ch[n].num /\ y.ch[n].done = x.ch[n].done
        /\ y.ch[n].sentEof = x.ch[n].sentEof
        /\ y.ch[n].sentClose = x.ch[n].sentClose
    BY Zenon, <1>4, <1>9
  <2> QED
    BY Zenon, <1>8, <1>9, <1>11, <2>1, <2>2 DEF Accepted

LEMMA RefuseFields ==
  ASSUME NEW x, Sound(x), x.ev.k = "OpenSession", NEW n \in Slots,
         x.ev.num = n, x.ch[n].state = "InOpen",
         NEW w, w = Answered(x),
         NEW z, z = Refusing(w, n),
         NEW y, y = Send(z, Answer(w, n, "Refuse", 0, 0))
  PROVE  /\ y \in EndState /\ z \in EndState /\ Dropped(x, z, n)
         /\ \A c : c.ch[x.ch[n].num].id = x.ch[n].id =>
                     Refused(c, z, y, x.ch[n].num)
<1> DEFINE p == Answer(w, n, "Refuse", 0, 0)
<1>2. 0 \in 0 .. MaxChannels /\ "Refuse" \in PacketTypes
  BY ChannelsAssumption DEF PacketTypes
<1>3. /\ w \in EndState /\ w.ev.k = "None" /\ w.ch = x.ch
      /\ w.rx = x.rx /\ w.err = "ok" /\ w.out = x.out
      /\ w.log = x.log /\ w.handles = x.handles
      /\ p \in Packet /\ p.t = "Refuse" /\ p.num = x.ch[n].num
      /\ p.id = x.ch[n].id /\ p.at = x.log[p.id].wrote
  BY <1>2, Decided
<1>4. y = Send(z, p)
  BY Zenon
<1> HIDE DEF p
<1>5. /\ NoChannel \in Channel /\ NoChannel.state = "Free"
      /\ NoChannel.pending = 0 /\ NoChannel.confirmed = FALSE
      /\ NoChannel.id = 0
  BY ZenonT(60), NewChannelFields DEF NoChannel, Channel, ChanStates
<1>6. /\ z \in EndState /\ z.ch[n] = NoChannel /\ OtherSlots(w, z, n)
      /\ z.rx = w.rx /\ z.ev = w.ev /\ z.err = w.err /\ z.out = w.out
      /\ z.log = w.log /\ z.handles = w.handles
  <2> DEFINE u == [w EXCEPT !.ch[n] = NoChannel]
  <2>1. z = u
    BY Zenon DEF Refusing
  <2>2. /\ u \in EndState /\ u.ch[n] = NoChannel /\ OtherSlots(w, u, n)
        /\ u.rx = w.rx /\ u.ev = w.ev /\ u.err = w.err /\ u.out = w.out
        /\ u.log = w.log /\ u.handles = w.handles
    BY ZenonT(60), <1>3, <1>5, SetSlot
  <2> HIDE DEF u
  <2> QED
    BY Zenon, <2>1, <2>2
<1>7. /\ y \in EndState /\ y.ch = z.ch /\ y.rx = z.rx /\ y.ev = z.ev
      /\ y.log = z.log /\ y.handles = z.handles
      /\ \/ y.err = z.err /\ y.out = Append(z.out, p)
         \/ y.err = "BusySend" /\ y.out = z.out
  BY <1>3, <1>4, <1>6, SendFields
<1>8. \A k \in Slots : k # n => z.ch[k] = x.ch[k]
  BY ZenonT(60), <1>3, <1>6 DEF OtherSlots
<1>9. x.err = "ok"
  BY Zenon DEF Sound
<1>10. Dropped(x, z, n)
  BY Zenon, <1>3, <1>5, <1>6, <1>8, <1>9 DEF Dropped
<1>11. \/ y.err = "BusySend" /\ y.out = z.out
       \/ /\ y.err = "ok" /\ Len(y.out) = Len(z.out) + 1
          /\ \A j \in 1 .. Len(z.out) : y.out[j] = z.out[j]
          /\ y.out[Len(y.out)] = p
  <2>1. z.out \in Seq(Packet) /\ p \in Packet /\ z.err = "ok"
    BY Zenon, <1>3, <1>6, Lengths
  <2>2. \/ y.err = z.err /\ y.out = Append(z.out, p)
        \/ y.err = "BusySend" /\ y.out = z.out
    BY Zenon, <1>7
  <2> QED
    BY <2>1, <2>2
<1>12. ASSUME NEW c, c.ch[x.ch[n].num].id = x.ch[n].id
       PROVE  Refused(c, z, y, x.ch[n].num)
  <2>1. z.err = "ok" /\ p.at \in {0, z.log[p.id].wrote}
    BY Zenon, <1>3, <1>6
  <2>2. /\ p.t = "Refuse" /\ p.num = x.ch[n].num
        /\ p.id = c.ch[x.ch[n].num].id
    BY Zenon, <1>3, <1>12
  <2>3. /\ y.ch = z.ch /\ y.rx = z.rx /\ y.ev = z.ev
        /\ y.log = z.log /\ y.handles = z.handles
    BY Zenon, <1>7
  <2> QED
    BY Zenon, <1>11, <2>1, <2>2, <2>3 DEF Refused
<1> QED
  BY Zenon, <1>6, <1>7, <1>10, <1>12

\* a peer whose first packet is taken
Rest(q) == [q EXCEPT !.out = Tail(@)]

LEMMA RestFields ==
  ASSUME NEW q \in EndState, Len(q.out) > q.deferred
  PROVE  /\ Rest(q) \in EndState /\ Taken(q, Rest(q))
         /\ Rest(q).handles = q.handles
         /\ 1 \in 1 .. Len(q.out) /\ Head(q.out) = q.out[1]
         /\ q.out[1] \in Packet
<1> DEFINE o == q.out
           r == Tail(o)
           y == Rest(q)
<1>1. o \in Seq(Packet) /\ Len(o) \in Nat
  BY Zenon, Lengths
<1>2. q.deferred \in 0 .. DeferCount
  BY Zenon DEF EndState
<1>3. Len(o) > 0
  BY <1>1, <1>2, ChannelsAssumption
<1> HIDE DEF o
<1>4. /\ r \in Seq(Packet) /\ Len(r) = Len(o) - 1
      /\ \A j \in 1 .. Len(r) : r[j] = o[j + 1]
      /\ 1 \in 1 .. Len(o) /\ Head(o) = o[1] /\ o[1] \in Packet
  BY <1>1, <1>3
<1>5. y = [q EXCEPT !.out = r]
  BY Zenon DEF Rest, o
<1> HIDE DEF r, y
<1>6. /\ y \in EndState /\ y.out = r /\ y.ch = q.ch /\ y.rx = q.rx
      /\ y.ev = q.ev /\ y.err = q.err /\ y.nOpen = q.nOpen /\ y.log = q.log
      /\ y.handles = q.handles
  BY ZenonT(60), <1>4, <1>5 DEF EndState
<1>7. Taken(q, y)
  BY Zenon, <1>3, <1>4, <1>6 DEF Taken, o
<1> QED
  BY Zenon, <1>4, <1>6, <1>7 DEF o, y

-----------------------------------------------------------------------------
(* Steps on one channel.                                                   *)

LEMMA OneSlotMoves ==
  ASSUME NEW x, Sound(x), NEW y \in EndState, NEW n \in Slots,
         OneSlot(x, y, n)
  PROVE  Moves(x, y)
<1>1. x \in EndState /\ x.err = "ok" /\ Tidy(x)
  BY Zenon DEF Sound
<1>2. SameSlots(x, y)
  BY Zenon DEF OneSlot, OtherSlots, SameSlots
<1>3. Tidy(y)
  BY Zenon, <1>1 DEF OneSlot, OtherSlots, Tidy
<1>4. Grown(x, y)
  <2>1. CASE y.out = x.out
    BY <1>1, <2>1, Lengths DEF Grown
  <2>2. CASE y.out # x.out
    <3>1. PICK p \in Packet :
            p.t \in Plain /\ Of(x, n, p) /\ y.out = Append(x.out, p)
      BY Zenon, <2>2 DEF OneSlot, Sends
    <3>2. x.out \in Seq(Packet) /\ Len(x.out) \in Nat
      BY Zenon, <1>1, Lengths
    <3> DEFINE q == x.out
               r == y.out
    <3>3. r = Append(q, p) /\ q \in Seq(Packet)
      BY Zenon, <3>1, <3>2
    <3> HIDE DEF q, r
    <3>4. /\ Len(r) = Len(q) + 1 /\ \A j \in 1 .. Len(q) : r[j] = q[j]
          /\ r[Len(q) + 1] = p
      BY <3>3
    <3>5. Proper(x, p)
      BY Zenon, <2>2, <3>1 DEF Proper, Of, OneSlot
    <3>6. \A j \in 1 .. Len(r) : j > Len(q) => r[j] = p
      BY <3>3, <3>4
    <3>7. Len(r) >= Len(q)
      BY <3>3, <3>4
    <3> QED
      BY Zenon, <3>4, <3>5, <3>6, <3>7 DEF Grown, q, r
  <2> QED
    BY Zenon, <2>1, <2>2
<1> QED
  BY Zenon, <1>1, <1>2, <1>3, <1>4 DEF Moves, OneSlot

\* The end does not fail when it handles the end of a conversation.
LEMMA HeardOneSlot ==
  ASSUME NEW x, Sound(x), NEW y, NEW n \in Slots, x.ch[n].state \in Usual,
         Aside(x, y, n),
         Stuck(x, y) \/ HeardEof(x, y, n) \/ HeardClose(x, y, n)
  PROVE  y \in EndState /\ OneSlot(x, y, n)
<1>1. x \in EndState /\ x.err = "ok" /\ Tidy(x)
  BY Zenon DEF Sound
<1>2. /\ y \in EndState /\ y.rx = x.rx /\ y.ev = x.ev /\ y.nOpen = x.nOpen
      /\ OtherSlots(x, y, n)
  BY Zenon DEF Aside
<1>3. /\ y.ch[n].id = x.ch[n].id /\ y.ch[n].num = x.ch[n].num
      /\ y.ch[n].state \in Usual /\ y.err \in {"ok", "BusySend"}
      /\ y.out = x.out \/ Sends(x, y, n, Plain)
  <2>1. CASE Stuck(x, y)
    BY Zenon, <2>1 DEF Stuck
  <2>2. CASE HeardEof(x, y, n)
    BY ZenonT(60), <1>1, <2>2 DEF HeardEof, Heard, SlotRest, Said, Sends, Plain, Usual
  <2>3. CASE HeardClose(x, y, n)
    BY ZenonT(60), <1>1, <2>3 DEF HeardClose, Heard, SlotRest, Said, Sends, Plain, Usual
  <2> QED
    BY Zenon, <2>1, <2>2, <2>3
<1>4. y.rx.num # 0 => y.ch[y.rx.num].state \in Usual
  BY Zenon, <1>1, <1>2, <1>3, RxFacts DEF Tidy, OtherSlots
<1> QED
  BY Zenon, <1>2, <1>3, <1>4 DEF OneSlot, SameOpen, Usual

-----------------------------------------------------------------------------
(* Receiving what is sent on an open channel.                              *)

LEMMA OneSlotSame ==
  ASSUME NEW x, Sound(x), NEW n \in Slots, x.rx.num = 0
  PROVE  x \in EndState /\ OneSlot(x, x, n) /\ Steady(x, x)
  BY Zenon DEF Sound, Tidy, OneSlot, OtherSlots, SameOpen, Steady

\* The end of a conversation, heard or not for want of an answer.
LEMMA HeardSteady ==
  ASSUME NEW x, NEW y, NEW n \in Slots, Aside(x, y, n), Stuck(x, y)
  PROVE  Steady(x, y)
  BY Zenon DEF Aside, Stuck, Steady

LEMMA HeardEofEnd ==
  ASSUME NEW x, NEW y, NEW n \in Slots, Aside(x, y, n), HeardEof(x, y, n)
  PROVE  EndHeard(x, y, n, "Eof")
<1> DEFINE k == x.log[x.ch[n].id]
           l == y.log[x.ch[n].id]
<1>1. /\ OtherLogs(x, y, x.ch[n].id)
      /\ y.ch[n].id = x.ch[n].id /\ y.ch[n].done = x.ch[n].done
      /\ y.ch[n].state = "RecvEof" /\ y.ch[n].sentEof
      /\ y.ch[n].sentClose = x.ch[n].sentClose
  BY Zenon DEF HeardEof, Heard, SlotRest
<1>2. /\ l.wrote = k.wrote /\ l.got = k.got /\ l.left = k.left
      /\ l.eof = (k.eof \/ ~ k.left)
      /\ l.ended = (k.ended \/ ~ x.ch[n].sentEof)
  BY Zenon DEF HeardEof, Heard
<1>3. \/ y.out = x.out
      \/ /\ ~ x.ch[n].sentEof
         /\ \E p \in Packet : /\ p.t = "Eof" /\ Of(x, n, p)
                              /\ y.out = Append(x.out, p)
  BY Zenon DEF HeardEof, Heard, Said
<1>4. (k.ended => l.ended) /\ (~ x.ch[n].sentEof => l.ended)
  BY Zenon, <1>2
<1>5. y.rx = x.rx /\ y.handles = x.handles /\ OtherSlots(x, y, n)
  BY Zenon DEF Aside
<1> QED
  BY Zenon, <1>1, <1>2, <1>3, <1>4, <1>5 DEF EndHeard, Early

LEMMA HeardCloseEnd ==
  ASSUME NEW x \in EndState, NEW y, NEW n \in Slots, Aside(x, y, n),
         HeardClose(x, y, n), x.ch[n].id \in Ids,
         x.log[x.ch[n].id].ended => x.ch[n].sentEof
  PROVE  EndHeard(x, y, n, "Close") /\ y.ch[n].state = "RecvClose"
<1> DEFINE k == x.log[x.ch[n].id]
           l == y.log[x.ch[n].id]
<1>1. /\ OtherLogs(x, y, x.ch[n].id)
      /\ y.ch[n].id = x.ch[n].id /\ y.ch[n].done = x.ch[n].done
      /\ y.ch[n].state = "RecvClose" /\ y.ch[n].sentClose
      /\ y.ch[n].sentEof = x.ch[n].sentEof
  BY Zenon DEF HeardClose, Heard, SlotRest
<1>2. /\ l.wrote = k.wrote /\ l.got = k.got /\ l.left = k.left
      /\ l.eof = (k.eof \/ ~ k.left)
      /\ l.ended = (k.ended \/ ("Close" = "Eof" /\ ~ x.ch[n].sentClose))
  BY Zenon DEF HeardClose, Heard
<1>3. \/ y.out = x.out
      \/ /\ ~ x.ch[n].sentClose
         /\ \E p \in Packet : /\ p.t = "Close" /\ Of(x, n, p)
                              /\ y.out = Append(x.out, p)
  BY Zenon DEF HeardClose, Heard, Said
<1>4. l.ended <=> k.ended
  BY Zenon, <1>2
<1>5. y.rx = x.rx /\ y.handles = x.handles /\ OtherSlots(x, y, n)
  BY Zenon DEF Aside
<1> QED
  BY Zenon, <1>1, <1>2, <1>3, <1>4, <1>5 DEF EndHeard, Early

LEMMA HearsAdjust ==
  ASSUME NEW x, NEW p, NEW n, Expects(x, p, n), NEW d,
         d = DispatchWindowAdjust(x, p)
  PROVE  d \in EndState /\ OneSlot(x, d, n) /\ Steady(x, d)
<1>1. Sound(x) /\ n \in Slots /\ x.rx.num = 0 /\ x.ch[n].num # 0
      /\ x.ch[n].state \in Usual \cup {"Free"} /\ p.num = n /\ p \in Packet
  BY DEF Expects, NoData
<1>2. CASE ~ Usable(x, n)
  BY Zenon, <1>1, <1>2, OneSlotSame DEF DispatchWindowAdjust
<1>3. CASE Usable(x, n)
  <2> DEFINE h == x.ch[n]
             v == [h EXCEPT !.window = @ + p.len]
             u == [x EXCEPT !.ch[n] = v]
  <2>1. x \in EndState /\ Tidy(x) /\ x.err = "ok"
    BY Zenon, <1>1 DEF Sound
  <2>2. h \in Channel /\ p.len \in Nat /\ h.window \in Nat
    BY Zenon, <1>1, <2>1, SlotFacts, PacketFacts DEF Channel
  <2>3. d = u
    BY ZenonT(60), <1>1, <1>3, <2>1 DEF DispatchWindowAdjust, EndState
  <2>4. h.window + p.len \in Nat
    BY <2>2
  <2> HIDE DEF h
  <2>5. /\ v \in Channel /\ v.id = h.id /\ v.num = h.num
        /\ v.state = h.state /\ v.pending = h.pending
        /\ v.confirmed = h.confirmed /\ v.done = h.done
        /\ v.sentEof = h.sentEof /\ v.sentClose = h.sentClose
    BY ZenonT(60), <2>2, <2>4 DEF Channel
  <2> HIDE DEF v
  <2>6. /\ u \in EndState /\ u.ch[n] = v /\ OtherSlots(x, u, n)
        /\ u.rx = x.rx /\ u.ev = x.ev /\ u.err = x.err
        /\ u.nOpen = x.nOpen /\ u.out = x.out
        /\ u.log = x.log /\ u.handles = x.handles
    BY <1>1, <2>1, <2>5, SetSlot
  <2> HIDE DEF u
  <2>7. OneSlot(x, u, n)
    BY Zenon, <1>1, <2>1, <2>5, <2>6 DEF OneSlot, SameOpen, Tidy, h
  <2>8. Steady(x, u)
    BY Zenon, <2>5, <2>6 DEF Steady, OtherSlots, h
  <2> QED
    BY Zenon, <2>3, <2>6, <2>7, <2>8
<1> QED
  BY Zenon, <1>2, <1>3

LEMMA HearsData ==
  ASSUME NEW x, NEW p, NEW n, Expects(x, p, n), NEW d,
         d = DispatchData(x, p)
  PROVE  /\ d \in EndState /\ OneSlot(x, d, n)
         /\ \/ /\ Steady(x, d)
               /\ p.len = 0 \/ ~ Usable(x, n) \/ x.ch[n].done
            \/ x.ch[n].state \in Usual /\ DataHeard(x, d, n, p)
<1>1. Sound(x) /\ n \in Slots /\ x.rx.num = 0 /\ x.ch[n].num # 0
      /\ x.ch[n].state \in Usual \cup {"Free"} /\ p.num = n /\ p \in Packet
  BY DEF Expects, NoData
<1>2. CASE p.len = 0 \/ ~ Usable(x, n) \/ x.ch[n].done
  <2>1. d = x
    BY Zenon, <1>1, <1>2 DEF DispatchData
  <2> QED
    BY Zenon, <1>1, <1>2, <2>1, OneSlotSame
<1>3. CASE ~ (p.len = 0 \/ ~ Usable(x, n) \/ x.ch[n].done)
  <2> DEFINE r == [num |-> p.num, len |-> p.len, left |-> p.len]
  <2>1. x \in EndState /\ Tidy(x) /\ x.err = "ok"
    BY Zenon, <1>1 DEF Sound
  <2>2. d = [x EXCEPT !.rx = r] /\ Usable(x, n)
    BY ZenonT(60), <1>1, <1>3 DEF DispatchData
  <2>3. r \in DataIn /\ r.num = n /\ r.left = p.len
    BY Zenon, <1>1 DEF DataIn, Packet
  <2> HIDE DEF r
  <2>4. /\ d \in EndState /\ d.rx = r /\ d.ch = x.ch /\ d.ev = x.ev
        /\ d.err = x.err /\ d.nOpen = x.nOpen /\ d.out = x.out
        /\ d.log = x.log /\ d.handles = x.handles
    BY ZenonT(60), <2>1, <2>2, <2>3 DEF EndState
  <2>5. x.ch[n].state \in Usual
    BY Zenon, <1>1, <2>2 DEF Usable, InUse
  <2>6. OneSlot(x, d, n)
    BY Zenon, <1>1, <2>1, <2>3, <2>4, <2>5
       DEF OneSlot, OtherSlots, SameOpen, Tidy
  <2>7. DataHeard(x, d, n, p)
    BY Zenon, <2>3, <2>4 DEF DataHeard
  <2> QED
    BY Zenon, <2>4, <2>5, <2>6, <2>7
<1> QED
  BY Zenon, <1>2, <1>3

LEMMA HearsRequest ==
  ASSUME NEW x, NEW p, NEW n, Expects(x, p, n), NEW e, NEW d,
         d = DispatchRequest(x, e, p)
  PROVE  d \in EndState /\ OneSlot(x, d, n) /\ Steady(x, d)
<1>1. Sound(x) /\ n \in Slots /\ x.rx.num = 0 /\ x.ev.k = "None"
      /\ p.num = n /\ p \in Packet
  BY DEF Expects, NoData, NoEvent
<1>2. CASE d = x
  BY Zenon, <1>1, <1>2, OneSlotSame
<1>3. CASE d # x
  <2> DEFINE r == [k |-> "Session", num |-> p.num]
  <2>1. x \in EndState /\ Tidy(x) /\ x.err = "ok"
    BY Zenon, <1>1 DEF Sound
  <2>2. d = [x EXCEPT !.ev = r]
    BY ZenonT(60), <1>1, <1>3 DEF DispatchRequest
  <2>3. r \in ServEvent /\ r.k = "Session"
    BY Zenon, <1>1 DEF ServEvent, Packet
  <2> HIDE DEF r
  <2>4. /\ d \in EndState /\ d.ev = r /\ d.ch = x.ch /\ d.rx = x.rx
        /\ d.err = x.err /\ d.nOpen = x.nOpen /\ d.out = x.out
        /\ d.log = x.log /\ d.handles = x.handles
    BY ZenonT(60), <2>1, <2>2, <2>3 DEF EndState
  <2>5. OneSlot(x, d, n)
    BY Zenon, <1>1, <2>1, <2>3, <2>4 DEF OneSlot, OtherSlots, SameOpen, Tidy
  <2>6. Steady(x, d)
    BY Zenon, <2>4 DEF Steady
  <2> QED
    BY Zenon, <2>4, <2>5, <2>6
<1> QED
  BY Zenon, <1>2, <1>3

LEMMA HearsEof ==
  ASSUME NEW x, NEW p, NEW n, Expects(x, p, n), NEW d,
         d = IF Usable(x, n) THEN HandleEof(x, n) ELSE x
  PROVE  /\ d \in EndState /\ OneSlot(x, d, n)
         /\ \/ Steady(x, d)
            \/ x.ch[n].state \in Usual /\ EndHeard(x, d, n, "Eof")
<1>1. Sound(x) /\ n \in Slots /\ x.rx.num = 0 /\ x.ch[n].num # 0
      /\ x.ch[n].state \in Usual \cup {"Free"}
  BY DEF Expects, NoData
<1>2. CASE ~ Usable(x, n)
  BY Zenon, <1>1, <1>2, OneSlotSame
<1>3. CASE Usable(x, n)
  <2>1. x.ch[n].state \in Usual /\ x.ch[n].state # "Free"
    BY Zenon, <1>1, <1>3 DEF Usable, InUse
  <2>2. x \in EndState /\ Numbered(x, MaxOpen) /\ x.err = "ok"
    BY Zenon, <1>1 DEF Sound
  <2>3. Aside(x, d, n) /\ (Stuck(x, d) \/ HeardEof(x, d, n))
    BY Zenon, <1>1, <1>3, <2>1, <2>2, HandleEofFields
  <2>4. d \in EndState /\ OneSlot(x, d, n)
    BY Zenon, <1>1, <2>1, <2>3, HeardOneSlot
  <2>5. Steady(x, d) \/ EndHeard(x, d, n, "Eof")
    BY Zenon, <1>1, <2>3, HeardSteady, HeardEofEnd
  <2> QED
    BY Zenon, <2>1, <2>4, <2>5
<1> QED
  BY Zenon, <1>2, <1>3

\* Another implementation frees the channel in one step with the answer.
LEMMA ForgetFields ==
  ASSUME NEW x, NEW z \in EndState, NEW e \in Ends, NEW n \in Slots,
         OneSlot(x, z, n), x.ch[n].state \in Usual, z.rx.num = 0,
         NEW d, d = Forget(z, e, n)
  PROVE  /\ d \in EndState /\ OneSlot(x, d, n)
         /\ d = z \/ z.err = "ok"
         /\ EndHeard(x, z, n, "Close") => EndHeard(x, d, n, "Close")
<1>1. CASE d = z
  BY Zenon, <1>1
<1>2. CASE d # z
  <2> DEFINE h == z.ch[n]
             v == [h EXCEPT !.state = "Free", !.pending = 0,
                            !.confirmed = FALSE]
             u == [z EXCEPT !.ch[n] = v]
  <2>1. Reuses /\ d = [u EXCEPT !.handles = @ \ {n}]
        /\ z.err = "ok"
    BY ZenonT(60), <1>2 DEF Forget, EndState
  <2>2. h \in Channel
    BY Zenon, SlotFacts
  <2> HIDE DEF h
  <2>3. /\ v \in Channel /\ v.id = h.id /\ v.num = h.num
        /\ v.state = "Free" /\ v.pending = 0 /\ v.confirmed = FALSE
        /\ v.done = h.done /\ v.sentEof = h.sentEof
        /\ v.sentClose = h.sentClose
    BY ZenonT(60), <2>2 DEF Channel, ChanStates
  <2> HIDE DEF v
  <2>4. /\ u \in EndState /\ u.ch[n] = v /\ OtherSlots(z, u, n)
        /\ u.rx = z.rx /\ u.ev = z.ev /\ u.err = z.err
        /\ u.nOpen = z.nOpen /\ u.out = z.out
        /\ u.log = z.log /\ u.handles = z.handles
    BY <2>3, SetSlot
  <2> HIDE DEF u
  <2>5. /\ d \in EndState /\ d.ch = u.ch /\ d.rx = u.rx /\ d.ev = u.ev
        /\ d.err = u.err /\ d.nOpen = u.nOpen /\ d.out = u.out
        /\ d.log = u.log /\ d.handles = u.handles \ {n}
    BY ZenonT(60), <2>1, <2>4 DEF EndState
  <2>6. OtherSlots(x, z, n) => OtherSlots(x, d, n)
    BY ZenonT(60), <2>4, <2>5 DEF OtherSlots
  <2>7. SameOpen(x, d) /\ (Sends(x, z, n, Plain) => Sends(x, d, n, Plain))
    BY ZenonT(60), <2>4, <2>5 DEF OneSlot, SameOpen, Sends
  <2>8. OneSlot(x, d, n)
    BY <2>1, <2>3, <2>4, <2>5, <2>6, <2>7 DEF OneSlot, h
  <2>9. ASSUME EndHeard(x, z, n, "Close")
        PROVE  EndHeard(x, d, n, "Close")
    <3>1. /\ d.rx = z.rx /\ d.log = z.log /\ d.out = z.out
          /\ d.ch[n].id = z.ch[n].id /\ d.ch[n].done = z.ch[n].done
          /\ d.ch[n].state = "Free" /\ d.ch[n].sentEof = z.ch[n].sentEof
          /\ d.ch[n].sentClose = z.ch[n].sentClose
          /\ d.handles \subseteq z.handles /\ n \notin d.handles
      BY Zenon, <2>3, <2>4, <2>5 DEF h
    <3>2. OtherLogs(x, d, x.ch[n].id) /\ OtherSlots(x, d, n)
      BY Zenon, <2>6, <2>9, <3>1 DEF EndHeard, OtherLogs
    <3> QED
      BY Zenon, <2>9, <3>1, <3>2 DEF EndHeard, Early
  <2> QED
    BY Zenon, <2>1, <2>5, <2>8, <2>9
<1> QED
  BY Zenon, <1>1, <1>2

LEMMA HearsClose ==
  ASSUME NEW x, NEW p, NEW n, Expects(x, p, n), NEW e \in Ends, NEW d,
         d = IF Usable(x, n) THEN Forget(HandleClose(x, n), e, n) ELSE x
  PROVE  /\ d \in EndState /\ OneSlot(x, d, n)
         /\ Neat(x) =>
              \/ Steady(x, d)
              \/ x.ch[n].state \in Usual /\ EndHeard(x, d, n, "Close")
<1>1. Sound(x) /\ n \in Slots /\ x.rx.num = 0 /\ x.ch[n].num # 0
      /\ x.ch[n].state \in Usual \cup {"Free"}
  BY DEF Expects, NoData
<1>2. CASE ~ Usable(x, n)
  BY Zenon, <1>1, <1>2, OneSlotSame
<1>3. CASE Usable(x, n)
  <2> DEFINE z == HandleClose(x, n)
  <2>1. x.ch[n].state \in Usual /\ x.ch[n].state # "Free"
    BY Zenon, <1>1, <1>3 DEF Usable, InUse
  <2>2. x \in EndState /\ Numbered(x, MaxOpen) /\ x.err = "ok"
    BY Zenon, <1>1 DEF Sound
  <2>3. Aside(x, z, n) /\ (Stuck(x, z) \/ HeardClose(x, z, n))
    BY Zenon, <1>1, <2>1, <2>2, HandleCloseFields
  <2>4. d = Forget(z, e, n)
    BY Zenon, <1>3
  <2> HIDE DEF z
  <2>5. z \in EndState /\ OneSlot(x, z, n)
    BY Zenon, <1>1, <2>1, <2>3, HeardOneSlot
  <2>6. z.rx.num = 0
    BY Zenon, <1>1, <2>3 DEF Aside
  <2>7. /\ d \in EndState /\ OneSlot(x, d, n)
        /\ d = z \/ z.err = "ok"
        /\ EndHeard(x, z, n, "Close") => EndHeard(x, d, n, "Close")
    BY ZenonT(60), <1>1, <2>1, <2>4, <2>5, <2>6, ForgetFields
  <2>8. ASSUME Neat(x)
        PROVE  Steady(x, d) \/ EndHeard(x, d, n, "Close")
    <3>1. CASE HeardClose(x, z, n)
      <4>1. /\ x.ch[n].id \in Ids
            /\ x.log[x.ch[n].id].ended => x.ch[n].sentEof
        BY Zenon, <1>1, <2>1, <2>2, <2>8, Known DEF Neat, Numbered
      <4>2. EndHeard(x, z, n, "Close")
        BY Zenon, <1>1, <2>2, <2>3, <3>1, <4>1, HeardCloseEnd
      <4> QED
        BY Zenon, <2>7, <4>2
    <3>2. CASE Stuck(x, z)
      <4>1. Steady(x, z)
        BY Zenon, <1>1, <2>3, <3>2, HeardSteady
      <4>2. z.err # "ok"
        BY Zenon, <3>2 DEF Stuck
      <4> QED
        BY Zenon, <2>7, <4>1, <4>2
    <3> QED
      BY Zenon, <2>3, <3>1, <3>2
  <2> QED
    BY Zenon, <2>1, <2>7, <2>8
<1> QED
  BY Zenon, <1>2, <1>3

LEMMA HearsPlain ==
  ASSUME NEW x, NEW p, NEW n, Expects(x, p, n), p.t \in Plain,
         NEW e \in Ends, NEW d, d = Dispatch(x, e, p)
  PROVE  d \in EndState /\ Moves(x, d) /\ (Neat(x) => Hears(x, d, n, p))
<1>1. p.num = n /\ n \in Slots /\ Sound(x)
  BY Zenon DEF Expects
<1> SUFFICES /\ d \in EndState /\ OneSlot(x, d, n)
             /\ Neat(x) => Hears(x, d, n, p)
  BY Zenon, <1>1, OneSlotMoves
<1>2. CASE p.t = "Adjust"
  <2>1. d = DispatchWindowAdjust(x, p)
    BY Zenon, <1>2 DEF Dispatch
  <2> QED
    BY Zenon, <1>2, <2>1, HearsAdjust DEF Hears
<1>3. CASE p.t = "Data"
  <2>1. d = DispatchData(x, p)
    BY Zenon, <1>3 DEF Dispatch
  <2> QED
    BY Zenon, <1>3, <2>1, HearsData DEF Hears
<1>4. CASE p.t = "Eof"
  <2>1. d = IF Usable(x, n) THEN HandleEof(x, n) ELSE x
    BY Zenon, <1>1, <1>4 DEF Dispatch
  <2> QED
    BY Zenon, <1>4, <2>1, HearsEof DEF Hears
<1>5. CASE p.t = "Close"
  <2>1. d = IF Usable(x, n) THEN Forget(HandleClose(x, n), e, n) ELSE x
    BY Zenon, <1>1, <1>5 DEF Dispatch
  <2> QED
    BY Zenon, <1>5, <2>1, HearsClose DEF Hears
<1>6. CASE p.t = "Request"
  <2>1. d = DispatchRequest(x, e, p)
    BY Zenon, <1>6 DEF Dispatch
  <2> QED
    BY Zenon, <1>6, <2>1, HearsRequest DEF Hears
<1> QED
  BY Zenon, <1>2, <1>3, <1>4, <1>5, <1>6 DEF Plain

-----------------------------------------------------------------------------
(* Receiving the answer to an Open, and an Open.                           *)

\* The client hears of the server's refusal.
LEMMA HearsRefuse ==
  ASSUME NEW c, Sound(c), NEW p \in Packet, p.num \in Slots,
         c.ch[p.num].state = "Opening", c.ch[p.num].num = 0,
         NEW d, d = DispatchOpenFailure(c, p)
  PROVE  d \in EndState /\ GivenUp(c, d, p.num)
<1> DEFINE n == p.num
           h == c.ch[n]
           v == [h EXCEPT !.state = "PendingDone"]
           u == [c EXCEPT !.ch[n] = v]
<1>1. c \in EndState /\ h \in Channel /\ ~ h.done /\ n \in Slots
  BY Zenon, SlotFacts DEF Sound, Tidy
<1>2. d = u
  BY ZenonT(60), <1>1 DEF DispatchOpenFailure, InUse, EndState
<1> HIDE DEF h, n
<1>3. /\ v \in Channel /\ v.state = "PendingDone" /\ v.id = h.id
      /\ v.num = h.num /\ v.pending = h.pending
      /\ v.confirmed = h.confirmed /\ v.done = h.done
      /\ v.sentEof = h.sentEof /\ v.sentClose = h.sentClose
  BY ZenonT(60), <1>1 DEF Channel, ChanStates
<1> HIDE DEF v
<1>4. /\ u \in EndState /\ u.ch[n] = v /\ OtherSlots(c, u, n)
      /\ u.rx = c.rx /\ u.ev = c.ev /\ u.err = c.err
      /\ u.nOpen = c.nOpen /\ u.out = c.out
      /\ u.log = c.log /\ u.handles = c.handles
  BY <1>1, <1>3, SetSlot
<1> HIDE DEF u
<1>5. GivenUp(c, u, n)
  BY Zenon, <1>3, <1>4 DEF GivenUp, OtherSlots, h
<1> QED
  BY Zenon, <1>2, <1>4, <1>5 DEF n

LEMMA HearsConfirm ==
  ASSUME NEW c, Sound(c), NEW p \in Packet, p.num \in Slots,
         c.ch[p.num].state = "Opening",
         NEW d, d = DispatchOpenConfirmation(c, p)
  PROVE  d \in EndState /\ Confirms(c, d, p.num, p)
<1> DEFINE n == p.num
           h == c.ch[n]
           v == [h EXCEPT !.num = p.from, !.window = p.len,
                          !.confirmed = TRUE, !.state = "Normal"]
           u == [c EXCEPT !.ch[n] = v]
<1>1. c \in EndState /\ h \in Channel /\ ~ h.done /\ n \in Slots
  BY Zenon, SlotFacts DEF Sound, Tidy
<1>2. d = u
  BY ZenonT(60), <1>1 DEF DispatchOpenConfirmation, InUse, EndState
<1>3. p.from \in 0 .. MaxChannels /\ p.len \in Nat
  BY Zenon DEF Packet
<1> HIDE DEF h, n
<1>4. /\ v \in Channel /\ v.state = "Normal" /\ v.id = h.id
      /\ v.num = p.from /\ v.done = h.done
      /\ v.sentEof = h.sentEof /\ v.sentClose = h.sentClose
  BY ZenonT(60), <1>1, <1>3 DEF Channel, ChanStates
<1> HIDE DEF v
<1>5. /\ u \in EndState /\ u.ch[n] = v /\ OtherSlots(c, u, n)
      /\ u.rx = c.rx /\ u.ev = c.ev /\ u.err = c.err
      /\ u.nOpen = c.nOpen /\ u.out = c.out
      /\ u.log = c.log /\ u.handles = c.handles
  BY <1>1, <1>4, SetSlot
<1> HIDE DEF u
<1>6. Confirms(c, u, n, p)
  BY Zenon, <1>4, <1>5 DEF Confirms, OtherSlots, h
<1> QED
  BY Zenon, <1>2, <1>5, <1>6 DEF n

\* The server hears of an Open: it takes a free slot, or refuses.
LEMMA HearsOpen ==
  ASSUME NEW c, NEW s, Sound(s), s.ev = NoEvent, NEW p \in Packet,
         p.from \in Slots, c.ch[p.from].id = p.id,
         NEW d, d = DispatchOpen(s, "server", p)
  PROVE  /\ d \in EndState
         /\ \/ Refused(c, s, d, p.from)
            \/ \E m \in Slots :
                 /\ s.ch[m].state = "Free"
                 /\ s.ch[m].id = 0 => Reserved(c, s, d, p.from, m)
<1>1. s \in EndState /\ s.err = "ok" /\ s.ev.k = "None"
  BY DEF Sound, NoEvent
<1>2. p.from \in 0 .. MaxChannels /\ p.len \in Nat /\ p.id \in Nat
  BY Zenon DEF Packet
<1>3. CASE Unused(s) = {}
  <2> DEFINE r == [t |-> "Refuse", num |-> p.from, from |-> 0, len |-> 0,
                   id |-> p.id, at |-> 0]
  <2>1. d = Send(s, r)
    BY Zenon, <1>3 DEF DispatchOpen
  <2>2. r \in Packet /\ r.t = "Refuse" /\ r.num = p.from /\ r.id = p.id
        /\ r.at = 0
    BY <1>2, ChannelsAssumption DEF Packet, PacketTypes
  <2> HIDE DEF r
  <2>3. /\ d \in EndState /\ d.ch = s.ch /\ d.rx = s.rx /\ d.ev = s.ev
        /\ d.log = s.log /\ d.handles = s.handles
        /\ \/ d.err = s.err /\ d.out = Append(s.out, r)
           \/ d.err = "BusySend" /\ d.out = s.out
    BY <1>1, <2>1, <2>2, SendFields
  <2>4. \/ d.err = "BusySend" /\ d.out = s.out
        \/ /\ d.err = "ok" /\ Len(d.out) = Len(s.out) + 1
           /\ \A j \in 1 .. Len(s.out) : d.out[j] = s.out[j]
           /\ d.out[Len(d.out)] = r
    <3>1. s.out \in Seq(Packet)
      BY Zenon, <1>1, Lengths
    <3> QED
      BY <1>1, <2>2, <2>3, <3>1
  <2>5. Refused(c, s, d, p.from)
    BY Zenon, <1>1, <2>2, <2>3, <2>4 DEF Refused
  <2> QED
    BY Zenon, <2>3, <2>5
<1>4. CASE Unused(s) # {}
  <2> DEFINE m == CHOOSE k \in Unused(s) : TRUE
             v == [NewChannel EXCEPT !.state = "InOpen", !.num = p.from,
                                     !.window = p.len, !.id = p.id]
             r == [k |-> "OpenSession", num |-> m]
             u == [s EXCEPT !.ch[m] = v]
  <2>1. m \in Slots /\ s.ch[m].state = "Free"
    BY Zenon, <1>4, FirstUnused
  <2>2. d = [u EXCEPT !.ev = r]
    BY Zenon, <1>4 DEF DispatchOpen
  <2> HIDE DEF m
  <2>3. r \in ServEvent /\ r.k = "OpenSession" /\ r.num = m
    BY <2>1, ChannelsAssumption DEF ServEvent, Slots
  <2>4. /\ v \in Channel /\ v.state = "InOpen" /\ v.num = p.from
        /\ v.id = p.id /\ v.pending = 0 /\ v.confirmed = FALSE
        /\ v.done = FALSE /\ v.sentClose = FALSE
    <3> DEFINE k == NewChannel
    <3>1. k \in Channel /\ k.pending = 0 /\ k.confirmed = FALSE
          /\ k.done = FALSE /\ k.sentClose = FALSE
      BY Zenon, NewChannelFields
    <3>2. v = [k EXCEPT !.state = "InOpen", !.num = p.from,
                        !.window = p.len, !.id = p.id]
      BY Zenon
    <3> HIDE DEF k, v
    <3>3. /\ v \in Channel /\ v.state = "InOpen" /\ v.num = p.from
          /\ v.id = p.id /\ v.pending = k.pending
          /\ v.confirmed = k.confirmed /\ v.done = k.done
          /\ v.sentClose = k.sentClose
      BY ZenonT(60), <1>2, <3>1, <3>2 DEF Channel, ChanStates
    <3> QED
      BY Zenon, <3>1, <3>3
  <2> HIDE DEF v, r
  <2>5. /\ u \in EndState /\ u.ch[m] = v /\ OtherSlots(s, u, m)
        /\ u.rx = s.rx /\ u.err = s.err /\ u.out = s.out
        /\ u.log = s.log /\ u.handles = s.handles
    BY <1>1, <2>1, <2>4, SetSlot
  <2> HIDE DEF u
  <2>6. /\ d \in EndState /\ d.ev = r /\ d.ch = u.ch /\ d.rx = u.rx
        /\ d.err = u.err /\ d.out = u.out
        /\ d.log = u.log /\ d.handles = u.handles
    BY ZenonT(60), <2>2, <2>3, <2>5 DEF EndState
  <2>7. \A k \in Slots : k # m => d.ch[k] = s.ch[k]
    BY ZenonT(60), <2>5, <2>6 DEF OtherSlots
  <2>8. s.ch[m].id = 0 => Reserved(c, s, d, p.from, m)
    BY Zenon, <1>1, <2>1, <2>3, <2>4, <2>5, <2>6, <2>7 DEF Reserved
  <2> QED
    BY Zenon, <2>1, <2>6, <2>8
<1> QED
  BY Zenon, <1>3, <1>4
=============================================================================
