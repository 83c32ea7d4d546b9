------------------------- MODULE ChannelsStepProofs -------------------------
(***************************************************************************)
(* Each action of Channels is one of the changes that ChannelsProofs and   *)
(* ChannelsStreamProofs reason about.  So every step keeps Route and       *)
(* Streaming and is a step of ByteStreams: the theorems NeverCrossed,      *)
(* ImplementsByteStreams and BytesInOrder.                                 *)
(***************************************************************************)
EXTENDS ChannelsFieldProofs, ChannelsStreamProofs

-----------------------------------------------------------------------------
(* Steps of either end.                                                    *)

LEMMA EndsTwo == Ends = {"client", "server"} /\ Peer("client") = "server"
                 /\ Peer("server") = "client"
  BY Zenon DEF Ends, Peer

LEMMA TopNumbered ==
  ASSUME NEW c \in EndState, NEW s \in EndState, Route(c, s)
  PROVE  Numbered(c, MaxOpen) /\ Numbered(s, MaxOpen)
<1>1. c.nOpen \in Nat /\ c.nOpen <= MaxOpen
  BY Zenon DEF EndState, Route
<1>2. Numbered(c, c.nOpen) /\ Numbered(s, c.nOpen)
  BY Zenon DEF Route
<1>3. \A n \in Slots : c.ch[n].id \in Nat /\ s.ch[n].id \in Nat
  BY Zenon, SlotFacts
<1> QED
  BY <1>1, <1>2, <1>3, ChannelsAssumption DEF Numbered

LEMMA SoundEnd ==
  ASSUME RouteInv, NEW e \in Ends
  PROVE  /\ end[e] \in EndState
         /\ Tidy(end[e]) /\ Numbered(end[e], MaxOpen)
         /\ Alive(e) => Sound(end[e])
<1>1. end["client"] \in EndState /\ end["server"] \in EndState
  BY Zenon, EndsTwo DEF RouteInv, TypeOK
<1>2. Route(end["client"], end["server"])
  BY Zenon DEF RouteInv
<1>3. end[e] \in EndState /\ Tidy(end[e]) /\ Numbered(end[e], MaxOpen)
  BY Zenon, <1>1, <1>2, TopNumbered, EndsTwo DEF Route
<1> QED
  BY Zenon, <1>3 DEF Sound, Alive

\* A channel with the number of a peer is open.
LEMMA OpenSlot ==
  ASSUME RouteInv, NEW e \in Ends, NEW n \in Slots, Usable(end[e], n),
         end[e].ch[n].num # 0
  PROVE  end[e].ch[n].state \in Usual
<1>1. end[e].ch[n].state \notin {"Free", "InOpen", "Opening"}
  BY Zenon DEF Usable, InUse
<1>2. end[e].ch[n].id # 0
  BY Zenon, <1>1, SoundEnd DEF Numbered
<1>3. CASE e = "client"
  <2>1. ClientSlot(end["client"], end["server"], n)
    BY Zenon, <1>2, <1>3 DEF RouteInv, Route, Connected
  <2> QED
    BY Zenon, <1>1, <1>3, <2>1 DEF ClientSlot
<1>4. CASE e = "server"
  <2>1. ServerSlot(end["client"], end["server"], n)
    BY Zenon, <1>2, <1>4 DEF RouteInv, Route, Connected
  <2> QED
    BY Zenon, <1>1, <1>4, <2>1 DEF ServerSlot
<1> QED
  BY Zenon, <1>3, <1>4, EndsTwo

LEMMA PutMoves ==
  ASSUME RouteInv, NEW e \in Ends, NEW y \in EndState, Put(e, y),
         Moves(end[e], y)
  PROVE  RouteInv'
<1>1. TypeOK /\ Route(end["client"], end["server"])
  BY Zenon DEF RouteInv
<1>2. end["client"] \in EndState /\ end["server"] \in EndState
  BY Zenon, <1>1, EndsTwo DEF TypeOK
<1>3. TypeOK'
  BY Zenon, <1>1 DEF TypeOK, Put
<1>4. CASE e = "client"
  <2>1. end'["client"] = y /\ end'["server"] = end["server"]
    BY Zenon, <1>1, <1>4, EndsTwo DEF Put, TypeOK
  <2>2. Route(y, end["server"])
    BY Zenon, <1>1, <1>2, <1>4, ClientMoves
  <2> QED
    BY Zenon, <1>3, <2>1, <2>2 DEF RouteInv
<1>5. CASE e = "server"
  <2>1. end'["server"] = y /\ end'["client"] = end["client"]
    BY Zenon, <1>1, <1>5, EndsTwo DEF Put, TypeOK
  <2>2. Route(end["client"], y)
    BY Zenon, <1>1, <1>2, <1>5, ServerMoves
  <2> QED
    BY Zenon, <1>3, <2>1, <2>2 DEF RouteInv
<1> QED
  BY Zenon, <1>4, <1>5, EndsTwo

\* A step on one channel keeps the invariant.
LEMMA PutOneSlot ==
  ASSUME RouteInv, NEW e \in Ends, Alive(e), NEW y \in EndState, Put(e, y),
         NEW n \in Slots, OneSlot(end[e], y, n)
  PROVE  RouteInv'
  BY Zenon, SoundEnd, OneSlotMoves, PutMoves

\* A step that neither touches a channel nor sends anything.
LEMMA PutAside ==
  ASSUME RouteInv, NEW e \in Ends, Alive(e), NEW y \in EndState, Put(e, y),
         y.ch = end[e].ch, y.rx = end[e].rx, y.err = "ok",
         y.nOpen = end[e].nOpen, y.out = end[e].out, SameOpen(end[e], y)
  PROVE  RouteInv'
<1> DEFINE x == end[e]
<1>1. Sound(x)
  BY Zenon, SoundEnd
<1> HIDE DEF x
<1>2. Tidy(y) /\ SameSlots(x, y) /\ x \in EndState /\ x.err = "ok"
  BY Zenon, <1>1 DEF Sound, Tidy, SameSlots, x
<1>3. Grown(x, y)
  BY <1>2, Lengths DEF Grown, x
<1> QED
  BY Zenon, <1>2, <1>3, PutMoves DEF Moves, x

\* A step that touches no channel, sends nothing and hands nothing over.
LEMMA IdleFields ==
  ASSUME NEW e \in Ends, end[e] \in EndState,
         ResumeRequest(e) \/ EnterBusy(e) \/ LeaveBusy(e)
  PROVE  \E y \in EndState :
           /\ Put(e, y) /\ y.ch = end[e].ch /\ y.rx = end[e].rx
           /\ y.err = end[e].err /\ y.nOpen = end[e].nOpen
           /\ y.out = end[e].out /\ SameOpen(end[e], y)
           /\ y.log = end[e].log /\ y.handles = end[e].handles
<1> DEFINE x == end[e]
<1>1. x.nBusy + 1 \in Nat /\ 0 \in 0 .. DeferCount
  BY ChannelsAssumption DEF EndState
<1>2. CASE ResumeRequest(e)
  <2> DEFINE y == [x EXCEPT !.ev = NoEvent]
  <2>1. Put(e, y) /\ x.ev.k = "Session"
    BY Zenon, <1>2 DEF ResumeRequest
  <2>2. NoEvent \in ServEvent /\ NoEvent.k = "None"
    BY ChannelsAssumption DEF NoEvent, ServEvent
  <2> HIDE DEF x
  <2>3. /\ y \in EndState /\ y.ev = NoEvent /\ y.ch = x.ch /\ y.rx = x.rx
        /\ y.err = x.err /\ y.nOpen = x.nOpen /\ y.out = x.out
        /\ y.log = x.log /\ y.handles = x.handles
    BY ZenonT(60), <2>2 DEF EndState, x
  <2>4. SameOpen(x, y)
    BY Zenon, <2>1, <2>2, <2>3 DEF SameOpen
  <2> HIDE DEF y
  <2> QED
    BY ZenonT(60), <2>1, <2>3, <2>4 DEF x
<1>3. CASE EnterBusy(e)
  <2> DEFINE y == [x EXCEPT !.busy = TRUE, !.nBusy = @ + 1]
  <2>1. Put(e, y)
    BY Zenon, <1>3 DEF EnterBusy
  <2> HIDE DEF x
  <2>2. /\ y \in EndState /\ y.ev = x.ev /\ y.ch = x.ch /\ y.rx = x.rx
        /\ y.err = x.err /\ y.nOpen = x.nOpen /\ y.out = x.out
        /\ y.log = x.log /\ y.handles = x.handles
    BY ZenonT(60), <1>1 DEF EndState, x
  <2>3. SameOpen(x, y)
    BY Zenon, <2>2 DEF SameOpen
  <2> HIDE DEF y
  <2> QED
    BY ZenonT(60), <2>1, <2>2, <2>3 DEF x
<1>4. CASE LeaveBusy(e)
  <2> DEFINE y == [x EXCEPT !.busy = FALSE, !.deferred = 0]
  <2>1. Put(e, y)
    BY Zenon, <1>4 DEF LeaveBusy
  <2> HIDE DEF x
  <2>2. /\ y \in EndState /\ y.ev = x.ev /\ y.ch = x.ch /\ y.rx = x.rx
        /\ y.err = x.err /\ y.nOpen = x.nOpen /\ y.out = x.out
        /\ y.log = x.log /\ y.handles = x.handles
    BY ZenonT(60), <1>1 DEF EndState, x
  <2>3. SameOpen(x, y)
    BY Zenon, <2>2 DEF SameOpen
  <2> HIDE DEF y
  <2> QED
    BY ZenonT(60), <2>1, <2>2, <2>3 DEF x
<1> QED
  BY Zenon, <1>2, <1>3, <1>4

LEMMA RouteIdle ==
  ASSUME RouteInv, NEW e \in Ends,
         ResumeRequest(e) \/ EnterBusy(e) \/ LeaveBusy(e)
  PROVE  RouteInv'
<1>1. end[e] \in EndState /\ Alive(e)
  BY Zenon, SoundEnd DEF ResumeRequest, EnterBusy, LeaveBusy
<1>2. PICK y \in EndState :
           /\ Put(e, y) /\ y.ch = end[e].ch /\ y.rx = end[e].rx
           /\ y.err = end[e].err /\ y.nOpen = end[e].nOpen
           /\ y.out = end[e].out /\ SameOpen(end[e], y)
           /\ y.log = end[e].log /\ y.handles = end[e].handles
  BY Zenon, <1>1, IdleFields
<1> QED
  BY Zenon, <1>1, <1>2, PutAside DEF Alive

LEMMA RouteSendChannelEof ==
  ASSUME RouteInv, NEW e \in Ends, NEW n \in Slots, SendChannelEof(e, n)
  PROVE  RouteInv'
<1> DEFINE x == end[e]
           y == SendEof(x, n)
<1>1. /\ Sound(x) /\ Alive(e) /\ Put(e, y) /\ x.ch[n].num # 0
      /\ Usable(x, n)
  BY Zenon, SoundEnd DEF SendChannelEof
<1>2. x.ch[n].state \in Usual
  BY Zenon, <1>1, OpenSlot
<1> HIDE DEF x
<1>3. Aside(x, y, n) /\ Ended(x, y, n)
  BY Zenon, <1>1, <1>2, SendEofFields DEF Sound, Usual
<1> HIDE DEF y
<1>4. x \in EndState /\ x.err = "ok" /\ Tidy(x) /\ x.ch[n] \in Channel
  BY Zenon, <1>1, SlotFacts DEF Sound
<1>5. /\ y.ch[n].id = x.ch[n].id /\ y.ch[n].num = x.ch[n].num
      /\ y.ch[n].state = x.ch[n].state /\ y.err \in {"ok", "BusySend"}
      /\ y.out = x.out \/ Sends(x, y, n, Plain)
  <2>1. CASE Stuck(x, y) \/ y = x
    BY Zenon, <1>4, <2>1 DEF Stuck
  <2>2. CASE Said(x, y, n, "Eof") /\ y.ch[n] = [x.ch[n] EXCEPT !.sentEof = TRUE]
    <3>1. /\ y.ch[n].id = x.ch[n].id /\ y.ch[n].num = x.ch[n].num
          /\ y.ch[n].state = x.ch[n].state
      BY Zenon, <1>4, <2>2 DEF Channel
    <3> QED
      BY Zenon, <1>4, <2>2, <3>1 DEF Said, Sends, Plain
  <2> QED
    BY Zenon, <1>3, <2>1, <2>2 DEF Ended
<1>6. y.rx.num # 0 => y.ch[y.rx.num].state \in Usual
  BY Zenon, <1>2, <1>3, <1>4, <1>5, RxFacts DEF Aside, Tidy, OtherSlots
<1>7. y \in EndState /\ OneSlot(x, y, n)
  BY Zenon, <1>2, <1>3, <1>5, <1>6 DEF Aside, OneSlot, SameOpen, Usual
<1> QED
  BY Zenon, <1>1, <1>7, PutOneSlot DEF x

LEMMA RouteWrite ==
  ASSUME RouteInv, NEW e \in Ends, NEW n \in Slots,
         NEW k \in 1 .. MaxPacket, Write(e, n, k)
  PROVE  RouteInv'
<1> DEFINE x == end[e]
<1>1. Sound(x) /\ Alive(e) /\ x.ch[n].num # 0 /\ Usable(x, n)
  BY ZenonT(60), SoundEnd DEF Write
<1>2. x.ch[n].state \in Usual
  BY Zenon, <1>1, OpenSlot
<1>3. PICK y \in EndState : Put(e, y) /\ Wrote(x, y, n, k)
  BY Zenon, <1>1, WriteFields
<1> HIDE DEF x
<1>4. x \in EndState /\ x.err = "ok" /\ Tidy(x) /\ Aside(x, y, n)
  BY Zenon, <1>1, <1>3 DEF Sound, Wrote
<1>5. Sends(x, y, n, Plain)
  BY Zenon, <1>3 DEF Wrote, Sends, Plain
<1>6. /\ y.ch[n].id = x.ch[n].id /\ y.ch[n].num = x.ch[n].num
      /\ y.ch[n].state = x.ch[n].state /\ y.err = "ok"
  BY Zenon, <1>3 DEF Wrote, SlotRest
<1>7. y.rx.num # 0 => y.ch[y.rx.num].state \in Usual
  BY Zenon, <1>2, <1>4, <1>6, RxFacts DEF Aside, Tidy, OtherSlots
<1>8. OneSlot(x, y, n)
  BY Zenon, <1>2, <1>4, <1>5, <1>6, <1>7 DEF Aside, OneSlot, SameOpen, Usual
<1> QED
  BY Zenon, <1>1, <1>3, <1>8, PutOneSlot DEF x

LEMMA RouteRead ==
  ASSUME RouteInv, NEW e \in Ends, NEW n \in Slots,
         NEW k \in 1 .. MaxPacket, Read(e, n, k)
  PROVE  RouteInv'
<1> DEFINE x == end[e]
<1>1. Sound(x) /\ Alive(e) /\ x.rx.num = n /\ n # 0
  BY SoundEnd, ChannelsAssumption DEF Read, Slots
<1>2. PICK y \in EndState : Put(e, y) /\ Reading(x, y, n, k)
  BY Zenon, <1>1, ReadFields
<1> HIDE DEF x
<1>3. x \in EndState /\ x.err = "ok" /\ Tidy(x) /\ x.ch[n].state \in Usual
  BY Zenon, <1>1 DEF Sound, Tidy
<1>4. Sends(x, y, n, Plain)
  BY Zenon, <1>2 DEF Reading, Sends, Plain
<1>5. y.rx.num # 0 => y.rx.num = n
  BY <1>2 DEF Reading, NoData
<1>6. y.ch[n].state \in Usual
  BY Zenon, <1>2, <1>3 DEF Reading
<1>7. OneSlot(x, y, n)
  BY Zenon, <1>2, <1>3, <1>4, <1>5, <1>6 DEF Reading, OneSlot, SameOpen, Usual
<1> QED
  BY Zenon, <1>1, <1>2, <1>7, PutOneSlot DEF x

\* A reader that leaves an open or a refused channel.
LEMMA LeavesOneSlot ==
  ASSUME NEW x, Sound(x), NEW y \in EndState, NEW n \in Slots, Leaves(x, y, n),
         x.ch[n].state # "Opening",
         y.out = x.out \/ (x.ch[n].state \in Usual /\ Sends(x, y, n, Plain))
  PROVE  OneSlot(x, y, n)
<1>1. x \in EndState /\ x.err = "ok" /\ Tidy(x)
  BY Zenon DEF Sound
<1>2. y.rx.num # 0 => y.ch[y.rx.num].state \in Usual
  BY <1>1, RxFacts DEF Leaves, Tidy, NoData, OtherSlots
<1>3. y.ch[n].pending # 0 \/ y.ch[n].confirmed => y.ch[n].state \in Usual
  BY Zenon, <1>1 DEF Leaves, Tidy
<1> QED
  BY Zenon, <1>2, <1>3 DEF Leaves, OneSlot, SameOpen

LEMMA RouteChannelDone ==
  ASSUME RouteInv, NEW e \in Ends, NEW n \in Slots, ChannelDone(e, n)
  PROVE  RouteInv'
<1> DEFINE x == end[e]
<1>1. Sound(x) /\ Alive(e)
  BY Zenon, SoundEnd DEF ChannelDone
<1>2. PICK y \in EndState :
        /\ Put(e, y)
        /\ IF Usable(x, n) THEN Done(x, y, n)
           ELSE /\ y.ch = x.ch /\ y.rx = x.rx /\ y.ev = x.ev /\ y.err = "ok"
                /\ y.nOpen = x.nOpen /\ y.out = x.out
  BY Zenon, <1>1, ChannelDoneFields
<1>3. CASE Usable(x, n)
  <2>1. Leaves(x, y, n) /\ y.out = x.out /\ x.ch[n].state # "Opening"
    BY Zenon, <1>2, <1>3 DEF Done, Usable
  <2>2. OneSlot(x, y, n)
    <3> HIDE DEF x
    <3> QED
      BY Zenon, <1>1, <2>1, LeavesOneSlot
  <2> QED
    BY Zenon, <1>1, <1>2, <2>2, PutOneSlot
<1>4. CASE ~ Usable(x, n)
  BY Zenon, <1>1, <1>2, <1>4, PutAside DEF SameOpen
<1> QED
  BY Zenon, <1>3, <1>4

LEMMA RouteForeignClose ==
  ASSUME RouteInv, NEW e \in Ends, NEW n \in Slots, ForeignClose(e, n)
  PROVE  RouteInv'
<1> DEFINE x == end[e]
<1>1. Sound(x) /\ Alive(e) /\ Usable(x, n) /\ x.ch[n].num # 0
  BY ZenonT(60), SoundEnd DEF ForeignClose
<1>2. x.ch[n].state \in Usual
  BY Zenon, <1>1, OpenSlot
<1>3. PICK y \in EndState : Put(e, y) /\ Closes(x, y, n)
  BY Zenon, <1>1, ForeignCloseFields
<1>4. OneSlot(x, y, n)
  <2> HIDE DEF x
  <2>1. Leaves(x, y, n) /\ Sends(x, y, n, Plain)
    BY Zenon, <1>3 DEF Closes, Said, Sends, Plain
  <2> QED
    BY Zenon, <1>1, <1>2, <2>1, LeavesOneSlot DEF Usual
<1> QED
  BY Zenon, <1>1, <1>3, <1>4, PutOneSlot

LEMMA RouteProgress ==
  ASSUME RouteInv, NEW e \in Ends, Progress(e)
  PROVE  RouteInv'
<1> DEFINE x == end[e]
<1>1. Sound(x) /\ Alive(e)
  BY Zenon, SoundEnd DEF Progress
<1>2. PICK y \in EndState : Put(e, y) /\ Progressed(x, y)
  BY Zenon, <1>1, ProgressFields
<1>3. Moves(x, y)
  <2> HIDE DEF x
  <2>1. x \in EndState /\ x.err = "ok" /\ Tidy(x)
    BY Zenon, <1>1 DEF Sound
  <2>2. SameSlots(x, y)
    BY Zenon, <1>2 DEF Progressed, SameSlots
  <2>3. Tidy(y)
    BY <1>2, <2>1, RxFacts DEF Progressed, Tidy
  <2>4. Grown(x, y)
    <3>1. \A p \in Notices(x) : Proper(x, p)
      BY Zenon DEF Notices, Proper, Of, Plain
    <3> QED
      BY Zenon, <1>2, <3>1 DEF Progressed, Grown
  <2> QED
    BY Zenon, <1>2, <2>1, <2>2, <2>3, <2>4 DEF Moves, Progressed, SameOpen
<1> QED
  BY Zenon, <1>2, <1>3, PutMoves

-----------------------------------------------------------------------------
(* Opening a channel.                                                      *)

LEMMA OpenedBy ==
  ASSUME NumbersOnce, RouteInv, NEW e \in Ends, OpenSession(e)
  PROVE  /\ e = "client"
         /\ \E y \in EndState, n \in Slots :
              Put(e, y) /\ Opened(end["client"], y, n)
<1>1. Sound(end[e])
  BY Zenon, SoundEnd DEF OpenSession
<1>2. PICK y \in EndState, n \in Slots :
           /\ Put(e, y) /\ e = "client" /\ end[e].nOpen < MaxOpen
           /\ end[e].ch[n].state = "Free"
           /\ end[e].ch[n].id = 0 => Opened(end[e], y, n)
  BY Zenon, <1>1, OpenSessionFields
<1> DEFINE c == end["client"]
<1>3. c \in EndState /\ Route(c, end["server"])
  BY Zenon, EndsTwo, SoundEnd DEF RouteInv
<1>4. c.ch[n].state = "Free" /\ c.nOpen < MaxOpen
      /\ (c.ch[n].id = 0 => Opened(c, y, n))
  BY Zenon, <1>2
<1> HIDE DEF c
<1>5. c.nOpen \in Nat /\ c.nOpen <= MaxOpen /\ Numbered(c, c.nOpen)
  BY Zenon, <1>3 DEF Route, EndState
<1>6. c.ch[n].id = 0
  BY Zenon, <1>3, <1>4, <1>5, FreeSlot
<1> QED
  BY Zenon, <1>2, <1>4, <1>6 DEF c

LEMMA RouteOpenSession ==
  ASSUME NumbersOnce, RouteInv, NEW e \in Ends, OpenSession(e)
  PROVE  RouteInv'
<1> DEFINE c == end["client"]
           s == end["server"]
<1>1. PICK y \in EndState, n \in Slots :
           e = "client" /\ Put(e, y) /\ Opened(c, y, n)
  BY Zenon, OpenedBy
<1>2. c \in EndState /\ s \in EndState /\ Route(c, s) /\ TypeOK
  BY Zenon, EndsTwo, SoundEnd DEF RouteInv
<1>3. TypeOK' /\ end'["client"] = y /\ end'["server"] = s
  BY Zenon, <1>1, <1>2, EndsTwo DEF TypeOK, Put
<1> HIDE DEF c, s
<1>4. Route(y, s)
  BY Zenon, <1>1, <1>2, ClientOpens
<1> QED
  BY Zenon, <1>3, <1>4 DEF RouteInv

\* The application accepts or refuses a channel of the client.
LEMMA ResumedBy ==
  ASSUME RouteInv, NEW e \in Ends, NEW accept \in BOOLEAN,
         ResumeOpen(e, accept)
  PROVE  /\ e = "server"
         /\ \E y \in EndState, n \in Slots :
              LET c == end["client"]
                  x == end["server"]
                  m == x.ch[n].num
              IN /\ Put(e, y) /\ x.ch[n].state = "InOpen"
                 /\ \/ Accepted(x, y, n)
                    \/ \E z \in EndState :
                         /\ Dropped(x, z, n) /\ Route(c, z) /\ m \in Slots
                         /\ c.ch[m].id = x.ch[n].id /\ Unmet(c, z, m)
                         /\ Refused(c, z, y, m)
<1> DEFINE c == end["client"]
           x == end["server"]
           w == Answered(x)
           n == x.ev.num
           m == x.ch[n].num
           z == Refusing(w, n)
           yes == Send(Accepting(w, n), Answer(w, n, "Confirm", Window, n))
           no == Send(z, Answer(w, n, "Refuse", 0, 0))
<1>1. c \in EndState /\ x \in EndState /\ Route(c, x)
  BY Zenon, EndsTwo, SoundEnd DEF RouteInv
<1>2. end[e].ev.k = "OpenSession" /\ Alive(e)
  BY Zenon DEF ResumeOpen
<1>3. c.ev.k # "OpenSession"
  BY Zenon, <1>1 DEF Route, Connected
<1>4. e = "server"
  BY Zenon, <1>2, <1>3, EndsTwo
<1>5. Put(e, IF accept THEN yes ELSE no)
  BY Zenon, <1>4 DEF ResumeOpen, Answered, Accepting, Refusing, Answer
<1>6. Sound(x) /\ x.ev.k = "OpenSession"
  BY Zenon, <1>2, <1>4, SoundEnd
<1>7. n \in Slots /\ x.ch[n].state = "InOpen"
  BY Zenon, <1>1, <1>6, RxFacts DEF Route, Connected
<1>8. CASE accept
  <2>1. yes \in EndState /\ Accepted(x, yes, n)
    <3> HIDE DEF x
    <3> QED
      BY Zenon, <1>6, <1>7, AcceptFields
  <2>2. Put(e, yes)
    BY Zenon, <1>5, <1>8
  <2> HIDE DEF yes, n
  <2> QED
    BY Zenon, <1>4, <1>7, <2>1, <2>2
<1>9. CASE ~ accept
  <2>1. /\ no \in EndState /\ z \in EndState /\ Dropped(x, z, n)
        /\ \A d : d.ch[m].id = x.ch[n].id => Refused(d, z, no, m)
    <3> HIDE DEF x
    <3> QED
      BY Zenon, <1>6, <1>7, RefuseFields
  <2>2. Put(e, no)
    BY Zenon, <1>5, <1>9
  <2> HIDE DEF no, z, n, c, x
  <2>3. Route(c, z) /\ m \in Slots /\ c.ch[m].id = x.ch[n].id /\ Unmet(c, z, m)
    <3>1. z \in EndState /\ Dropped(x, z, n) /\ n \in Slots
      BY Zenon, <1>7, <2>1
    <3> QED
      BY Zenon, <1>1, <3>1, ServerDrops
  <2>4. Refused(c, z, no, m)
    BY Zenon, <2>1, <2>3
  <2> QED
    BY Zenon, <1>4, <1>7, <2>1, <2>2, <2>3, <2>4 DEF c, x
<1> QED
  BY Zenon, <1>8, <1>9

LEMMA RouteResumeOpen ==
  ASSUME RouteInv, NEW e \in Ends, NEW accept \in BOOLEAN,
         ResumeOpen(e, accept)
  PROVE  RouteInv'
<1> DEFINE c == end["client"]
           x == end["server"]
<1>1. c \in EndState /\ x \in EndState /\ Route(c, x) /\ TypeOK
  BY Zenon, EndsTwo, SoundEnd DEF RouteInv
<1>2. PICK y \in EndState, n \in Slots :
        /\ e = "server" /\ Put(e, y) /\ x.ch[n].state = "InOpen"
        /\ \/ Accepted(x, y, n)
           \/ \E z \in EndState :
                /\ Dropped(x, z, n) /\ Route(c, z) /\ x.ch[n].num \in Slots
                /\ c.ch[x.ch[n].num].id = x.ch[n].id
                /\ Unmet(c, z, x.ch[n].num)
                /\ Refused(c, z, y, x.ch[n].num)
  BY Zenon, ResumedBy
<1>3. TypeOK' /\ end'["server"] = y /\ end'["client"] = c
  BY Zenon, <1>1, <1>2, EndsTwo DEF TypeOK, Put
<1> HIDE DEF c, x
<1>4. CASE Accepted(x, y, n)
  <2>1. Route(c, y)
    BY Zenon, <1>1, <1>2, <1>4, ServerAccepts
  <2> QED
    BY Zenon, <1>3, <2>1 DEF RouteInv
<1>5. CASE ~ Accepted(x, y, n)
  <2>1. PICK z \in EndState :
                /\ Dropped(x, z, n) /\ Route(c, z) /\ x.ch[n].num \in Slots
                /\ c.ch[x.ch[n].num].id = x.ch[n].id
                /\ Unmet(c, z, x.ch[n].num)
                /\ Refused(c, z, y, x.ch[n].num)
    BY Zenon, <1>2, <1>5
  <2>2. Route(c, y)
    BY Zenon, <1>1, <2>1, ServerRefuses
  <2> QED
    BY Zenon, <1>3, <2>2 DEF RouteInv
<1> QED
  BY Zenon, <1>4, <1>5

-----------------------------------------------------------------------------
(* Receiving the first packet of the peer.                                 *)

\* The first packet on an open channel finds a channel that is open or freed.
LEMMA ServerHead ==
  ASSUME NEW c \in EndState, NEW s \in EndState, Route(c, s),
         1 \in 1 .. Len(c.out), c.out[1].t # "Open"
  PROVE  /\ c.out[1].t \in Plain /\ c.out[1].num \in Slots
         /\ s.ch[c.out[1].num].state \in Usual \cup {"Free"}
         /\ s.ch[c.out[1].num].num # 0
         /\ c.out[1].id # 0 /\ s.ch[c.out[1].num].id = c.out[1].id
<1> DEFINE p == c.out[1]
<1>1. p \in Packet
  BY Zenon, Lengths
<1>2. ClientAt(c, s, 1)
  BY Zenon DEF Route, Addressed, OpenAt
<1>3. p.t \in Plain /\ p.id # 0 /\ p.num \in Slots /\ s.ch[p.num].id = p.id
  BY ZenonT(60), <1>1, <1>2, PacketFacts DEF ClientAt
<1>4. ~ Nothing(c, p.id)
  BY Zenon DEF Nothing
<1> HIDE DEF p
<1>5. ServerSlot(c, s, p.num)
  BY Zenon, <1>3, ServerSlotOf
<1>6. s.ch[p.num].state # "InOpen"
  BY Zenon, <1>3, <1>4, <1>5 DEF ServerSlot
<1>7. s.ch[p.num].num # 0 /\ s.ch[p.num].state \in Usual \cup {"Free"}
  BY Zenon, <1>5, <1>6 DEF ServerSlot
<1> QED
  BY Zenon, <1>3, <1>7 DEF p

LEMMA ClientHead ==
  ASSUME NEW c \in EndState, NEW s \in EndState, Route(c, s),
         1 \in 1 .. Len(s.out), s.out[1].t \notin {"Refuse", "Confirm"}
  PROVE  /\ s.out[1].t \in Plain /\ s.out[1].num \in Slots
         /\ c.ch[s.out[1].num].state \in Usual \cup {"Free"}
         /\ c.ch[s.out[1].num].num # 0
         /\ s.out[1].id # 0 /\ c.ch[s.out[1].num].id = s.out[1].id
<1> DEFINE p == s.out[1]
<1>1. p \in Packet
  BY Zenon, Lengths
<1>2. UnderWayTo(c, s, 1)
  BY Zenon DEF Route, Addressed
<1>3. p.id # 0 /\ p.num \in Slots /\ c.ch[p.num].id = p.id
  BY Zenon, <1>1, <1>2, PacketFacts DEF UnderWayTo
<1>4. ServerAt(c, s, 1)
  BY Zenon, <1>2 DEF UnderWayTo, RefuseAt, ConfirmAt
<1>5. p.t \in Plain
  BY Zenon, <1>4 DEF ServerAt
<1>6. ~ Confirming(s, p.id)
  <2> SUFFICES ASSUME NEW j \in 1 .. Len(s.out), s.out[j].t = "Confirm",
                      s.out[j].id = p.id
               PROVE  FALSE
    BY Zenon DEF Confirming
  <2>1. UnderWayTo(c, s, j)
    BY Zenon DEF Route, Addressed
  <2>2. ConfirmAt(c, s, j)
    BY Zenon, <2>1 DEF UnderWayTo, RefuseAt, ServerAt, Plain
  <2>3. 1 = j \/ 1 > j
    BY Zenon, <2>2 DEF ConfirmAt
  <2> QED
    BY <1>5, <2>3, Lengths DEF Plain
<1>7. c.ch[p.num].num # 0
  BY Zenon, <1>4, <1>6 DEF ServerAt
<1> HIDE DEF p
<1>8. ClientSlot(c, s, p.num)
  BY Zenon, <1>3 DEF Route, Connected
<1> QED
  BY ZenonT(60), <1>3, <1>5, <1>7, <1>8 DEF ClientSlot, p

LEMMA SlotIds ==
  ASSUME NEW x, Sound(x), NEW n \in Slots, x.ch[n].id # 0
  PROVE  x.ch[n].id \in Ids
<1>1. x.ch[n].id \in Nat /\ x.ch[n].id <= MaxOpen
  BY Zenon, SlotFacts DEF Sound, Numbered
<1> QED
  BY <1>1, ChannelsAssumption DEF Ids

\* A packet that does nothing to a stream.
LEMMA QuietReceipt ==
  ASSUME NEW x, Sound(x), Neat(x), NEW y \in EndState, NEW t \in EndState,
         Route(y, t) \/ Route(t, y), Quiet(x, y), x.rx = NoData,
         NEW p \in Packet, p.t # "Data", NEW z
  PROVE  Handles(x, y, z, p)
<1>1. Numbered(y, MaxOpen) /\ x.rx.num = 0
  BY Zenon, TopNumbered, NoDataNum
<1> QED
  BY Zenon, <1>1, QuietHandles DEF Sound

LEMMA ClientReceives ==
  ASSUME NEW c \in EndState, NEW s \in EndState, Route(c, s), Sound(c),
         c.rx = NoData, c.ev = NoEvent, Len(s.out) > s.deferred,
         NEW d, d = Dispatch(c, "client", s.out[1])
  PROVE  /\ d \in EndState /\ Route(d, Rest(s))
         /\ Streaming(c, s) => Handles(c, d, s, s.out[1])
<1> DEFINE p == s.out[1]
           t == Rest(s)
<1>1. t \in EndState /\ Taken(s, t) /\ 1 \in 1 .. Len(s.out) /\ p \in Packet
  BY Zenon, RestFields
<1>2. UnderWayTo(c, s, 1)
  BY Zenon, <1>1 DEF Route, Addressed
<1> HIDE DEF t
<1>3. CASE p.t = "Refuse"
  <2>1. Route(c, t) /\ p.num \in Slots /\ Unmet(c, t, p.num)
    BY Zenon, <1>1, <1>3, RefuseTaken
  <2>2. c.ch[p.num].state = "Opening"
    BY Zenon, <2>1 DEF Unmet
  <2>3. c.ch[p.num].num = 0
    <3>1. c.ch[p.num].id # 0
      BY Zenon, <2>1, <2>2 DEF Route, Numbered
    <3>2. ClientSlot(c, t, p.num)
      BY Zenon, <2>1, <3>1 DEF Route, Connected
    <3> QED
      BY Zenon, <2>2, <3>2 DEF ClientSlot, Usual
  <2>4. d = DispatchOpenFailure(c, p)
    BY Zenon, <1>3 DEF Dispatch
  <2> HIDE DEF p
  <2>5. d \in EndState /\ GivenUp(c, d, p.num)
    BY Zenon, <1>1, <2>1, <2>2, <2>3, <2>4, HearsRefuse
  <2>6. Route(d, t)
    BY Zenon, <1>1, <2>1, <2>5, ClientGivesUp
  <2>7. Quiet(c, d)
    BY Zenon, <2>1, <2>2, <2>5, ConfirmsQuiet
  <2>8. Neat(c) => Handles(c, d, s, p)
    BY Zenon, <1>1, <1>3, <2>5, <2>6, <2>7, QuietReceipt
  <2> QED
    BY Zenon, <2>5, <2>6, <2>8 DEF t, p, Streaming
<1>4. CASE p.t = "Confirm"
  <2>1. c.ch[p.num].state = "Opening" /\ p.num \in Slots
    BY Zenon, <1>1, <1>2, <1>4, PacketFacts
       DEF UnderWayTo, RefuseAt, ConfirmAt, ServerAt, Plain
  <2>2. d = DispatchOpenConfirmation(c, p)
    BY Zenon, <1>4 DEF Dispatch
  <2>3. d \in EndState /\ Confirms(c, d, p.num, p)
    BY Zenon, <1>1, <2>1, <2>2, HearsConfirm
  <2>4. Route(d, t)
    BY Zenon, <1>1, <1>4, <2>3, ClientConfirms
  <2>5. Quiet(c, d)
    BY Zenon, <2>1, <2>3, ConfirmsQuiet
  <2> HIDE DEF p
  <2>6. Neat(c) => Handles(c, d, s, p)
    BY Zenon, <1>1, <1>4, <2>3, <2>4, <2>5, QuietReceipt
  <2> QED
    BY Zenon, <2>3, <2>4, <2>6 DEF t, p, Streaming
<1>5. CASE p.t \notin {"Refuse", "Confirm"}
  <2>1. /\ p.t \in Plain /\ p.num \in Slots
        /\ c.ch[p.num].state \in Usual \cup {"Free"} /\ c.ch[p.num].num # 0
        /\ p.id # 0 /\ c.ch[p.num].id = p.id
    BY Zenon, <1>1, <1>5, ClientHead
  <2>2. Route(c, t)
    BY Zenon, <1>1, <1>5, ServerTaken
  <2> HIDE DEF p
  <2>3. Expects(c, p, p.num)
    BY Zenon, <1>1, <2>1 DEF Expects
  <2>4. d = Dispatch(c, "client", p)
    BY Zenon DEF p
  <2>5. d \in EndState /\ Moves(c, d) /\ (Neat(c) => Hears(c, d, p.num, p))
    BY Zenon, <2>1, <2>3, <2>4, HearsPlain, EndsTwo
  <2>6. Route(d, t)
    BY Zenon, <1>1, <2>2, <2>5, ClientMoves
  <2>7. ASSUME Streaming(c, s)
        PROVE  Handles(c, d, s, p)
    <3>1. p.id \in Ids
      BY Zenon, <2>1, SlotIds
    <3>2. Neat(c) /\ StreamOf(s, c, p.id) /\ Hears(c, d, p.num, p)
      BY Zenon, <2>5, <2>7, <3>1 DEF Streaming
    <3>3. Numbered(d, MaxOpen) /\ c.rx.num = 0 /\ s.out[1] = p
      BY Zenon, <1>1, <2>5, <2>6, TopNumbered, NoDataNum DEF p
    <3> QED
      BY Zenon, <1>1, <2>1, <2>5, <3>2, <3>3, HearsHandles
  <2> QED
    BY Zenon, <2>5, <2>6, <2>7 DEF t, p
<1> QED
  BY Zenon, <1>3, <1>4, <1>5

LEMMA ServerReceives ==
  ASSUME NumbersOnce,
         NEW c \in EndState, NEW s \in EndState, Route(c, s), Sound(s),
         s.rx = NoData, s.ev = NoEvent, Len(c.out) > c.deferred,
         NEW d, d = Dispatch(s, "server", c.out[1])
  PROVE  /\ d \in EndState /\ Route(Rest(c), d)
         /\ Streaming(c, s) => Handles(s, d, c, c.out[1])
<1> DEFINE p == c.out[1]
           t == Rest(c)
<1>1. t \in EndState /\ Taken(c, t) /\ 1 \in 1 .. Len(c.out) /\ p \in Packet
  BY Zenon, RestFields
<1> HIDE DEF t
<1>2. CASE p.t = "Open"
  <2>1. /\ Route(t, s) /\ p.from \in Slots /\ t.ch[p.from].id = p.id
        /\ Unmet(t, s, p.from)
    BY Zenon, <1>1, <1>2, OpenTaken
  <2>2. d = DispatchOpen(s, "server", p)
    BY Zenon, <1>2 DEF Dispatch
  <2> HIDE DEF p
  <2>3. /\ d \in EndState
        /\ \/ Refused(t, s, d, p.from)
           \/ \E m \in Slots :
                /\ s.ch[m].state = "Free"
                /\ s.ch[m].id = 0 => Reserved(t, s, d, p.from, m)
    BY Zenon, <1>1, <2>1, <2>2, HearsOpen
  <2>4. CASE Refused(t, s, d, p.from)
    <3>1. Route(t, d)
      BY Zenon, <1>1, <2>1, <2>3, <2>4, ServerRefuses
    <3>2. Neat(s) => Quiet(s, d)
      BY Zenon, <2>1, <2>3, <2>4, RefusedQuiet DEF Unmet
    <3>3. Neat(s) => Handles(s, d, c, p)
      BY Zenon, <1>1, <1>2, <2>3, <3>1, <3>2, QuietReceipt
    <3> QED
      BY Zenon, <2>3, <3>1, <3>3 DEF t, p, Streaming
  <2>5. CASE \E m \in Slots :
               /\ s.ch[m].state = "Free"
               /\ s.ch[m].id = 0 => Reserved(t, s, d, p.from, m)
    <3>1. PICK m \in Slots :
               /\ s.ch[m].state = "Free"
               /\ s.ch[m].id = 0 => Reserved(t, s, d, p.from, m)
      BY Zenon, <2>5
    <3>2. t.nOpen \in Nat /\ t.nOpen <= MaxOpen /\ Numbered(s, t.nOpen)
      BY Zenon, <1>1, <2>1 DEF Route, EndState
    <3>3. t.ch[p.from].id \in 1 .. t.nOpen /\ NoSlot(s, t.ch[p.from].id)
      <4>1. t.ch[p.from].id # 0 /\ t.ch[p.from].id <= t.nOpen
        BY Zenon, <2>1 DEF Unmet, Route, Numbered
      <4>2. t.ch[p.from].id \in Nat
        BY Zenon, <1>1, <2>1, SlotFacts
      <4> QED
        BY <2>1, <3>2, <4>1, <4>2 DEF Unmet
    <3>4. s.ch[m].id = 0
      BY Zenon, <3>1, <3>2, <3>3, FreeSlot
    <3>5. Route(t, d)
      BY Zenon, <1>1, <2>1, <2>3, <3>1, <3>4, ServerReserves
    <3>6. Neat(s) => Quiet(s, d)
      BY Zenon, <3>1, <3>3, <3>4, ReservedQuiet
    <3>7. Neat(s) => Handles(s, d, c, p)
      BY Zenon, <1>1, <1>2, <2>3, <3>5, <3>6, QuietReceipt
    <3> QED
      BY Zenon, <2>3, <3>5, <3>7 DEF t, p, Streaming
  <2> QED
    BY Zenon, <2>3, <2>4, <2>5
<1>3. CASE p.t # "Open"
  <2>1. /\ p.t \in Plain /\ p.num \in Slots
        /\ s.ch[p.num].state \in Usual \cup {"Free"} /\ s.ch[p.num].num # 0
        /\ p.id # 0 /\ s.ch[p.num].id = p.id
    BY Zenon, <1>1, <1>3, ServerHead
  <2>2. Route(t, s)
    BY Zenon, <1>1, ClientTaken
  <2> HIDE DEF p
  <2>3. Expects(s, p, p.num)
    BY Zenon, <1>1, <2>1 DEF Expects
  <2>4. d = Dispatch(s, "server", p)
    BY Zenon DEF p
  <2>5. d \in EndState /\ Moves(s, d) /\ (Neat(s) => Hears(s, d, p.num, p))
    BY Zenon, <2>1, <2>3, <2>4, HearsPlain, EndsTwo
  <2>6. Route(t, d)
    BY Zenon, <1>1, <2>2, <2>5, ServerMoves
  <2>7. ASSUME Streaming(c, s)
        PROVE  Handles(s, d, c, p)
    <3>1. p.id \in Ids
      BY Zenon, <2>1, SlotIds
    <3>2. Neat(s) /\ StreamOf(c, s, p.id) /\ Hears(s, d, p.num, p)
      BY Zenon, <2>5, <2>7, <3>1 DEF Streaming
    <3>3. Numbered(d, MaxOpen) /\ s.rx.num = 0 /\ c.out[1] = p
      BY Zenon, <1>1, <2>5, <2>6, TopNumbered, NoDataNum DEF p
    <3> QED
      BY Zenon, <1>1, <2>1, <2>5, <3>2, <3>3, HearsHandles
  <2> QED
    BY Zenon, <2>5, <2>6, <2>7 DEF t, p
<1> QED
  BY Zenon, <1>2, <1>3

LEMMA ReceivedBy ==
  ASSUME NumbersOnce, RouteInv, NEW e \in Ends, Receive(e)
  PROVE  /\ RouteInv' /\ end[e].rx = NoData
         /\ Len(end[Peer(e)].out) > end[Peer(e)].deferred
         /\ end'[Peer(e)] = Rest(end[Peer(e)])
         /\ Streaming(end["client"], end["server"]) =>
              Handles(end[e], end'[e], end[Peer(e)], end[Peer(e)].out[1])
<1> DEFINE c == end["client"]
           s == end["server"]
<1>1. c \in EndState /\ s \in EndState /\ Route(c, s) /\ TypeOK
  BY Zenon, EndsTwo, SoundEnd DEF RouteInv
<1>2. Sound(end[e]) /\ end[e].rx = NoData /\ end[e].ev = NoEvent
  BY Zenon, SoundEnd DEF Receive
<1>3. CASE e = "client"
  <2> DEFINE d == Dispatch(c, "client", s.out[1])
  <2>1. Len(s.out) > s.deferred
    BY Zenon, <1>3, EndsTwo DEF Receive
  <2>2. Head(s.out) = s.out[1] /\ Rest(s) \in EndState
    BY Zenon, <1>1, <2>1, RestFields
  <2>3. end' = [end EXCEPT !["client"] = d, !["server"] = Rest(s)]
    <3>1. end' = [end EXCEPT !["client"] = Dispatch(c, "client", Head(s.out)),
                             !["server"].out = Tail(@)]
      BY ZenonT(60), <1>3, EndsTwo DEF Receive
    <3> QED
      BY ZenonT(60), <1>1, <2>2, <3>1 DEF Rest, TypeOK
  <2>4. /\ d \in EndState /\ Route(d, Rest(s))
        /\ Streaming(c, s) => Handles(c, d, s, s.out[1])
    BY Zenon, <1>1, <1>2, <1>3, <2>1, ClientReceives
  <2> HIDE DEF d
  <2>5. end'["client"] = d /\ end'["server"] = Rest(s) /\ TypeOK'
    BY Zenon, <1>1, <2>2, <2>3, <2>4, EndsTwo DEF TypeOK
  <2>6. RouteInv'
    BY Zenon, <2>4, <2>5 DEF RouteInv
  <2> QED
    BY Zenon, <1>2, <1>3, <2>1, <2>4, <2>5, <2>6, EndsTwo
<1>4. CASE e = "server"
  <2> DEFINE d == Dispatch(s, "server", c.out[1])
  <2>1. Len(c.out) > c.deferred
    BY Zenon, <1>4, EndsTwo DEF Receive
  <2>2. Head(c.out) = c.out[1] /\ Rest(c) \in EndState
    BY Zenon, <1>1, <2>1, RestFields
  <2>3. end' = [end EXCEPT !["server"] = d, !["client"] = Rest(c)]
    <3>1. end' = [end EXCEPT !["server"] = Dispatch(s, "server", Head(c.out)),
                             !["client"].out = Tail(@)]
      BY ZenonT(60), <1>4, EndsTwo DEF Receive
    <3> QED
      BY ZenonT(60), <1>1, <2>2, <3>1 DEF Rest, TypeOK
  <2>4. /\ d \in EndState /\ Route(Rest(c), d)
        /\ Streaming(c, s) => Handles(s, d, c, c.out[1])
    BY Zenon, <1>1, <1>2, <1>4, <2>1, ServerReceives
  <2> HIDE DEF d
  <2>5. end'["server"] = d /\ end'["client"] = Rest(c) /\ TypeOK'
    BY Zenon, <1>1, <2>2, <2>3, <2>4, EndsTwo DEF TypeOK
  <2>6. RouteInv'
    BY Zenon, <2>4, <2>5 DEF RouteInv
  <2> QED
    BY Zenon, <1>2, <1>4, <2>1, <2>4, <2>5, <2>6, EndsTwo
<1> QED
  BY Zenon, <1>3, <1>4, EndsTwo

-----------------------------------------------------------------------------
(* Packets find their channels.                                            *)

LEMMA RouteInit == Init => RouteInv
<1> SUFFICES ASSUME Init PROVE RouteInv
  BY Zenon
<1>1. /\ NoChannel \in Channel /\ NoChannel.state = "Free"
      /\ NoChannel.pending = 0 /\ NoChannel.confirmed = FALSE
      /\ NoChannel.id = 0
  BY ZenonT(60), NewChannelFields DEF NoChannel, Channel, ChanStates
<1>2. NoData \in DataIn /\ NoEvent \in ServEvent /\ NewLog \in Log
  BY ChannelsAssumption DEF NoData, DataIn, NoEvent, ServEvent, NewLog, Log
<1>3. New \in EndState
  BY <1>1, <1>2, ChannelsAssumption DEF New, EndState, Errors
<1>4. /\ \A n \in Slots : New.ch[n] = NoChannel
      /\ New.rx.num = 0 /\ New.ev.k = "None" /\ New.err = "ok"
      /\ New.nOpen = 0 /\ Len(New.out) = 0
  BY Zenon DEF New, NoData, NoEvent
<1>5. end["client"] = New /\ end["server"] = New /\ TypeOK
  BY Zenon, <1>3, EndsTwo DEF Init, TypeOK
<1>6. Numbered(New, 0) /\ Tidy(New)
  BY <1>1, <1>4 DEF Numbered, Tidy
<1>7. Connected(New, New) /\ Addressed(New, New)
  BY <1>1, <1>4 DEF Connected, Addressed
<1> QED
  BY <1>4, <1>5, <1>6, <1>7, ChannelsAssumption DEF RouteInv, Route

LEMMA RouteNext == NumbersOnce /\ RouteInv /\ [Next]_vars => RouteInv'
<1> SUFFICES ASSUME NumbersOnce, RouteInv, [Next]_vars
             PROVE  RouteInv'
  BY Zenon
<1>1. CASE UNCHANGED vars
  BY Zenon, <1>1 DEF RouteInv, TypeOK, vars
<1>2. CASE Next
  <2>1. PICK e \in Ends :
          \/ OpenSession(e)
          \/ Receive(e)
          \/ \E accept \in BOOLEAN : ResumeOpen(e, accept)
          \/ ResumeRequest(e)
          \/ Progress(e)
          \/ EnterBusy(e)
          \/ LeaveBusy(e)
          \/ \E n \in Slots :
               \/ \E k \in 1 .. MaxPacket : Write(e, n, k) \/ Read(e, n, k)
               \/ SendChannelEof(e, n)
               \/ ChannelDone(e, n)
               \/ ForeignClose(e, n)
    BY Zenon, <1>2 DEF Next
  <2>2. CASE OpenSession(e)
    BY Zenon, <2>2, RouteOpenSession
  <2>3. CASE Receive(e)
    BY Zenon, <2>3, ReceivedBy
  <2>4. CASE \E accept \in BOOLEAN : ResumeOpen(e, accept)
    BY Zenon, <2>4, RouteResumeOpen
  <2>5. CASE Progress(e)
    BY Zenon, <2>5, RouteProgress
  <2>6. CASE ResumeRequest(e) \/ EnterBusy(e) \/ LeaveBusy(e)
    BY Zenon, <2>6, RouteIdle
  <2>7. ASSUME NEW n \in Slots, NEW k \in 1 .. MaxPacket,
               Write(e, n, k) \/ Read(e, n, k)
        PROVE  RouteInv'
    BY Zenon, <2>7, RouteWrite, RouteRead
  <2>8. ASSUME NEW n \in Slots,
               SendChannelEof(e, n) \/ ChannelDone(e, n) \/ ForeignClose(e, n)
        PROVE  RouteInv'
    BY Zenon, <2>8, RouteSendChannelEof, RouteChannelDone, RouteForeignClose
  <2> QED
    BY Zenon, <2>1, <2>2, <2>3, <2>4, <2>5, <2>6, <2>7, <2>8
<1> QED
  BY Zenon, <1>1, <1>2

\* What is addressed to a slot in use is of the conversation it has.
LEMMA RouteAgrees == RouteInv => PeersAgree
<1> SUFFICES ASSUME RouteInv PROVE PeersAgree
  BY Zenon
<1> DEFINE c == end["client"]
           s == end["server"]
<1>1. c \in EndState /\ s \in EndState /\ Route(c, s) /\ TypeOK
  BY Zenon, EndsTwo, SoundEnd DEF RouteInv
<1>2. \A j \in 1 .. Len(s.out) : c.ch[s.out[j].num].id = s.out[j].id
  BY Zenon, <1>1 DEF Route, Addressed, UnderWayTo
<1>3. \A j \in 1 .. Len(c.out) :
        c.out[j].t # "Open" => s.ch[c.out[j].num].id = c.out[j].id
  BY ZenonT(60), <1>1 DEF Route, Addressed, OpenAt, ClientAt
<1>4. c.err \in {"ok", "BusySend"} /\ s.err \in {"ok", "BusySend"}
  BY Zenon, <1>1 DEF Route, Tidy
<1>5. ASSUME NEW e \in Ends
      PROVE  /\ end[e].err \notin {"SSHProto", "Bug"}
             /\ \A i \in 1 .. Len(end[Peer(e)].out) :
                  end[Peer(e)].out[i].t # "Open" =>
                    end[e].ch[end[Peer(e)].out[i].num].id
                      = end[Peer(e)].out[i].id
  <2>1. CASE e = "client"
    BY ZenonT(60), <1>2, <1>4, <2>1, EndsTwo
  <2>2. CASE e = "server"
    BY ZenonT(60), <1>3, <1>4, <2>2, EndsTwo
  <2> QED
    BY ZenonT(60), <2>1, <2>2, EndsTwo
<1> QED
  BY ZenonT(60), <1>1, <1>5 DEF PeersAgree

\* Two ends never misunderstand each other: however many channels there are,
\* however often they are opened, refused, written to, left and closed, with
\* packets delayed as they may be and the transport busy at any time, neither
\* end takes a packet of the other for a protocol error or reaches a Bug trap,
\* and no packet finds its slot in another conversation.
THEOREM NeverCrossed ==
  ASSUME NumbersOnce
  PROVE  Spec => []PeersAgree
<1>1. RouteInv /\ [Next]_vars => RouteInv'
  BY Zenon, RouteNext
<1> QED
  BY <1>1, RouteInit, RouteAgrees, PTL DEF Spec

-----------------------------------------------------------------------------
(* Every step of an end is a step of its streams.                          *)

LEMMA FlowsBack ==
  ASSUME NEW x, NEW y, NEW z, NEW t, Flows(x, y, z, t)
  PROVE  Flows(z, t, x, y)
  BY Zenon DEF Flows

\* the streams of an end and its peer
LEMMA StreamEnds ==
  ASSUME StreamInv, NEW e \in Ends
  PROVE  /\ RouteInv /\ end[e] \in EndState /\ end[Peer(e)] \in EndState
         /\ Neat(end[e]) /\ Neat(end[Peer(e)])
         /\ \A i \in Ids : StreamOf(end[e], end[Peer(e)], i)
                           /\ StreamOf(end[Peer(e)], end[e], i)
<1>1. RouteInv /\ Streaming(end["client"], end["server"])
  BY Zenon DEF StreamInv
<1>2. end["client"] \in EndState /\ end["server"] \in EndState
  BY Zenon, <1>1, EndsTwo DEF RouteInv, TypeOK
<1>3. CASE e = "client"
  BY Zenon, <1>1, <1>2, <1>3, EndsTwo DEF Streaming
<1>4. CASE e = "server"
  BY Zenon, <1>1, <1>2, <1>4, EndsTwo DEF Streaming
<1> QED
  BY Zenon, <1>3, <1>4, EndsTwo

LEMMA PutEnd ==
  ASSUME StreamInv, RouteInv', NEW e \in Ends, NEW y \in EndState, Put(e, y)
  PROVE  Numbered(y, MaxOpen)
<1>1. end'["client"] \in EndState /\ end'["server"] \in EndState
  BY Zenon, EndsTwo DEF RouteInv, TypeOK
<1>2. Route(end'["client"], end'["server"])
  BY Zenon DEF RouteInv
<1>3. end'[e] = y
  BY Zenon DEF StreamInv, RouteInv, TypeOK, Put
<1>4. Numbered(end'["client"], MaxOpen) /\ Numbered(end'["server"], MaxOpen)
  BY Zenon, <1>1, <1>2, TopNumbered
<1> QED
  BY Zenon, <1>3, <1>4, EndsTwo

LEMMA PutActs ==
  ASSUME StreamInv, NEW e \in Ends, NEW y \in EndState, Put(e, y),
         Acts(end[e], y, end[Peer(e)])
  PROVE  Flowing
<1>1. Flows(end[e], y, end[Peer(e)], end[Peer(e)])
  BY Zenon, StreamEnds, ActsFlow
<1>2. CASE e = "client"
  <2>1. end'["client"] = y /\ end'["server"] = end["server"]
    BY Zenon, <1>2, EndsTwo DEF StreamInv, RouteInv, TypeOK, Put
  <2> QED
    BY Zenon, <1>1, <1>2, <2>1, EndsTwo DEF Flowing
<1>3. CASE e = "server"
  <2>1. end'["server"] = y /\ end'["client"] = end["client"]
    BY Zenon, <1>3, EndsTwo DEF StreamInv, RouteInv, TypeOK, Put
  <2>2. Flows(end["server"], y, end["client"], end["client"])
    BY Zenon, <1>1, <1>3, EndsTwo
  <2> QED
    BY Zenon, <2>1, <2>2, FlowsBack DEF Flowing
<1> QED
  BY Zenon, <1>2, <1>3, EndsTwo

LEMMA PutQuiet ==
  ASSUME StreamInv, RouteInv', NEW e \in Ends, NEW y \in EndState, Put(e, y),
         Quiet(end[e], y)
  PROVE  Flowing
<1>1. /\ end[e] \in EndState /\ Neat(end[e]) /\ Tidy(end[e])
      /\ Numbered(end[e], MaxOpen)
  BY Zenon, StreamEnds, SoundEnd
<1>2. Numbered(y, MaxOpen)
  BY Zenon, PutEnd
<1>3. Acts(end[e], y, end[Peer(e)])
  BY Zenon, <1>1, <1>2, QuietActs
<1> QED
  BY Zenon, <1>3, PutActs

LEMMA StreamIdle ==
  ASSUME StreamInv, RouteInv', NEW e \in Ends,
         ResumeRequest(e) \/ EnterBusy(e) \/ LeaveBusy(e)
  PROVE  Flowing
<1>1. end[e] \in EndState
  BY Zenon, StreamEnds
<1>2. PICK y \in EndState :
           /\ Put(e, y) /\ y.ch = end[e].ch /\ y.rx = end[e].rx
           /\ y.err = end[e].err /\ y.nOpen = end[e].nOpen
           /\ y.out = end[e].out /\ SameOpen(end[e], y)
           /\ y.log = end[e].log /\ y.handles = end[e].handles
  BY Zenon, <1>1, IdleFields
<1>3. Steady(end[e], y)
  BY Zenon, <1>2 DEF Steady
<1> QED
  BY Zenon, <1>1, <1>2, <1>3, SteadyQuiet, PutQuiet

LEMMA StreamProgress ==
  ASSUME StreamInv, RouteInv', NEW e \in Ends, Progress(e)
  PROVE  Flowing
<1>1. Sound(end[e]) /\ end[e] \in EndState
  BY Zenon, StreamEnds, SoundEnd DEF Progress
<1>2. PICK y \in EndState : Put(e, y) /\ Progressed(end[e], y)
  BY Zenon, <1>1, ProgressFields
<1> QED
  BY Zenon, <1>1, <1>2, ProgressedQuiet, PutQuiet

\* A slot with a channel that is open
LEMMA UsableSlot ==
  ASSUME NEW x, NEW n, Usable(x, n)
  PROVE  x.ch[n].state \notin Early /\ x.ch[n].state # "Free"
  BY Zenon DEF Usable, InUse, Early

LEMMA StreamWrite ==
  ASSUME StreamInv, NEW e \in Ends, NEW n \in Slots,
         NEW k \in 1 .. MaxPacket, Write(e, n, k)
  PROVE  Flowing
<1>1. Sound(end[e]) /\ Neat(end[e]) /\ Usable(end[e], n)
  BY ZenonT(60), StreamEnds, SoundEnd DEF Write
<1>2. PICK y \in EndState : Put(e, y) /\ Wrote(end[e], y, n, k)
  BY Zenon, <1>1, WriteFields
<1>3. k \in Nat \ {0}
  BY ChannelsAssumption
<1>4. end[e].ch[n].state \notin Early /\ end[e].ch[n].state # "Free"
  BY Zenon, <1>1, UsableSlot
<1>5. Acts(end[e], y, end[Peer(e)])
  BY Zenon, <1>1, <1>2, <1>3, <1>4, WroteActs
<1> QED
  BY Zenon, <1>2, <1>5, PutActs

LEMMA StreamRead ==
  ASSUME StreamInv, NEW e \in Ends, NEW n \in Slots,
         NEW k \in 1 .. MaxPacket, Read(e, n, k)
  PROVE  Flowing
<1>1. /\ Sound(end[e]) /\ Neat(end[e]) /\ n \in end[e].handles
      /\ end[e].rx.num = n /\ k <= end[e].rx.left
  BY ZenonT(60), StreamEnds, SoundEnd DEF Read
<1>2. PICK y \in EndState : Put(e, y) /\ Reading(end[e], y, n, k)
  BY Zenon, <1>1, ReadFields
<1>3. k \in Nat \ {0}
  BY ChannelsAssumption
<1>4. Acts(end[e], y, end[Peer(e)])
  BY Zenon, <1>1, <1>2, <1>3, ReadingActs
<1> QED
  BY Zenon, <1>2, <1>4, PutActs

LEMMA StreamSendChannelEof ==
  ASSUME StreamInv, NEW e \in Ends, NEW n \in Slots, SendChannelEof(e, n)
  PROVE  Flowing
<1> DEFINE x == end[e]
           y == SendEof(x, n)
<1>1. /\ Sound(x) /\ Neat(x) /\ Put(e, y) /\ x.ch[n].num # 0
      /\ Usable(x, n) /\ ~ x.ch[n].sentEof /\ Sendable(x, "Eof")
  BY Zenon, StreamEnds, SoundEnd DEF SendChannelEof
<1> HIDE DEF x
<1>2. x.ch[n].state \notin Early /\ x.ch[n].state # "Free"
  BY Zenon, <1>1, UsableSlot
<1>3. y \in EndState /\ Aside(x, y, n) /\ Ended(x, y, n) /\ y.err = "ok"
  BY Zenon, <1>1, <1>2, SendEofFields DEF Sound, Aside
<1> HIDE DEF y
<1>4. Acts(x, y, end[Peer(e)])
  BY Zenon, <1>1, <1>2, <1>3, EndedActs
<1> QED
  BY Zenon, <1>1, <1>3, <1>4, PutActs DEF x

LEMMA StreamChannelDone ==
  ASSUME StreamInv, RouteInv', NEW e \in Ends, NEW n \in Slots,
         ChannelDone(e, n)
  PROVE  Flowing
<1>1. Sound(end[e]) /\ Neat(end[e]) /\ end[e] \in EndState
  BY Zenon, StreamEnds, SoundEnd DEF ChannelDone
<1>2. PICK y \in EndState :
        /\ Put(e, y)
        /\ IF Usable(end[e], n) THEN Done(end[e], y, n)
           ELSE /\ y.ch = end[e].ch /\ y.rx = end[e].rx
                /\ y.ev = end[e].ev /\ y.err = "ok"
                /\ y.nOpen = end[e].nOpen /\ y.out = end[e].out
                /\ y.log = end[e].log
                /\ y.handles = end[e].handles \ {n}
  BY Zenon, <1>1, ChannelDoneFields
<1>3. CASE Usable(end[e], n)
  <2>1. end[e].ch[n].state \notin Early /\ end[e].ch[n].state # "Free"
    BY Zenon, <1>3, UsableSlot
  <2>2. Done(end[e], y, n)
    BY Zenon, <1>2, <1>3
  <2>3. Acts(end[e], y, end[Peer(e)])
    BY Zenon, <1>1, <2>1, <2>2, DoneActs
  <2> QED
    BY Zenon, <1>2, <2>3, PutActs
<1>4. CASE ~ Usable(end[e], n)
  <2>1. Steady(end[e], y)
    BY Zenon, <1>2, <1>4 DEF Steady
  <2> QED
    BY Zenon, <1>1, <1>2, <2>1, SteadyQuiet, PutQuiet
<1> QED
  BY Zenon, <1>3, <1>4

LEMMA StreamForeignClose ==
  ASSUME StreamInv, NEW e \in Ends, NEW n \in Slots, ForeignClose(e, n)
  PROVE  Flowing
<1>1. Sound(end[e]) /\ Neat(end[e]) /\ Usable(end[e], n)
  BY ZenonT(60), StreamEnds, SoundEnd DEF ForeignClose
<1>2. PICK y \in EndState : Put(e, y) /\ Closes(end[e], y, n)
  BY Zenon, <1>1, ForeignCloseFields
<1>3. end[e].ch[n].state \notin Early /\ end[e].ch[n].state # "Free"
  BY Zenon, <1>1, UsableSlot
<1>4. Acts(end[e], y, end[Peer(e)])
  BY Zenon, <1>1, <1>2, <1>3, ClosesActs
<1> QED
  BY Zenon, <1>2, <1>4, PutActs


LEMMA StreamOpenSession ==
  ASSUME NumbersOnce, StreamInv, RouteInv', NEW e \in Ends, OpenSession(e)
  PROVE  Flowing
<1> DEFINE c == end["client"]
<1>1. PICK y \in EndState, n \in Slots :
           e = "client" /\ Put(e, y) /\ Opened(c, y, n)
  BY Zenon, StreamEnds, OpenedBy
<1>2. c \in EndState /\ Neat(c) /\ Numbered(c, c.nOpen)
  BY Zenon, StreamEnds, EndsTwo DEF RouteInv, Route
<1>3. Quiet(end[e], y)
  <2> HIDE DEF c
  <2>1. Quiet(c, y)
    BY Zenon, <1>1, <1>2, OpenedQuiet
  <2> QED
    BY Zenon, <1>1, <2>1 DEF c
<1> QED
  BY Zenon, <1>1, <1>3, PutQuiet

LEMMA StreamResumeOpen ==
  ASSUME StreamInv, RouteInv', NEW e \in Ends, NEW accept \in BOOLEAN,
         ResumeOpen(e, accept)
  PROVE  Flowing
<1> DEFINE c == end["client"]
           x == end["server"]
<1>1. x \in EndState /\ Neat(x) /\ Numbered(x, MaxOpen) /\ RouteInv
  BY Zenon, EndsTwo, StreamEnds, SoundEnd
<1>2. PICK y \in EndState, n \in Slots :
        /\ e = "server" /\ Put(e, y) /\ x.ch[n].state = "InOpen"
        /\ \/ Accepted(x, y, n)
           \/ \E z \in EndState :
                /\ Dropped(x, z, n) /\ Route(c, z) /\ x.ch[n].num \in Slots
                /\ c.ch[x.ch[n].num].id = x.ch[n].id
                /\ Unmet(c, z, x.ch[n].num)
                /\ Refused(c, z, y, x.ch[n].num)
  BY Zenon, <1>1, ResumedBy
<1>3. Quiet(x, y)
  <2> HIDE DEF c, x
  <2>1. CASE Accepted(x, y, n)
    BY Zenon, <1>1, <1>2, <2>1, AcceptedQuiet
  <2>2. CASE ~ Accepted(x, y, n)
    <3>1. PICK z \in EndState : /\ Dropped(x, z, n)
                                /\ c.ch[x.ch[n].num].id = x.ch[n].id
                                /\ Refused(c, z, y, x.ch[n].num)
      BY Zenon, <1>2, <2>2
    <3> QED
      BY Zenon, <1>1, <1>2, <3>1, DroppedQuiet
  <2> QED
    BY Zenon, <2>1, <2>2
<1> QED
  BY Zenon, <1>2, <1>3, PutQuiet

LEMMA StreamReceive ==
  ASSUME NumbersOnce, StreamInv, NEW e \in Ends, Receive(e)
  PROVE  Flowing
<1> DEFINE z == end[Peer(e)]
<1>1. Streaming(end["client"], end["server"])
  BY Zenon DEF StreamInv
<1>2. /\ RouteInv /\ z \in EndState /\ end[e] \in EndState /\ Neat(z)
      /\ \A i \in Ids : StreamOf(end[e], z, i) /\ StreamOf(z, end[e], i)
  BY Zenon, StreamEnds
<1>3. /\ RouteInv' /\ end[e].rx = NoData /\ Len(z.out) > z.deferred
      /\ end'[Peer(e)] = Rest(z) /\ Handles(end[e], end'[e], z, z.out[1])
  BY Zenon, <1>1, <1>2, ReceivedBy
<1>4. Rest(z) \in EndState /\ Taken(z, Rest(z)) /\ Rest(z).handles = z.handles
  BY Zenon, <1>2, <1>3, RestFields
<1>5. end'[e] \in EndState
  BY Zenon, <1>3 DEF RouteInv, TypeOK
<1>6. end[e].rx.num = 0
  BY Zenon, <1>3, NoDataNum
<1> HIDE DEF z
<1>7. Flows(end[e], end'[e], z, Rest(z))
  BY Zenon, <1>2, <1>3, <1>4, <1>5, <1>6, HandlesFlow
<1>8. Flows(end[e], end'[e], end[Peer(e)], end'[Peer(e)])
  BY Zenon, <1>3, <1>7 DEF z
<1>9. CASE e = "client"
  BY Zenon, <1>8, <1>9, EndsTwo DEF Flowing
<1>10. CASE e = "server"
  <2>1. Flows(end["server"], end'["server"], end["client"], end'["client"])
    BY Zenon, <1>8, <1>10, EndsTwo
  <2> QED
    BY Zenon, <2>1, FlowsBack DEF Flowing
<1> QED
  BY Zenon, <1>9, <1>10, EndsTwo

LEMMA StreamInit == Init => StreamInv
<1> SUFFICES ASSUME Init PROVE StreamInv
  BY Zenon
<1>1. end["client"] = New /\ end["server"] = New
  BY Zenon, EndsTwo DEF Init
<1>2. /\ \A n \in Slots : New.ch[n] = NoChannel
      /\ New.rx.num = 0 /\ Len(New.out) = 0 /\ New.handles = {}
      /\ \A i \in Ids : New.log[i] = NewLog
  BY Zenon DEF New, NoData
<1>3. NoChannel.state = "Free" /\ NoChannel.id = 0
  BY ZenonT(60), NewChannelFields DEF NoChannel, Channel, ChanStates
<1>4. NewLog.wrote = 0 /\ NewLog.got = 0 /\ ~ NewLog.left /\ ~ NewLog.eof
  BY DEF NewLog
<1>5. Neat(New)
  BY Zenon, <1>2, <1>3 DEF Neat
<1>6. ASSUME NEW i \in Ids
      PROVE  StreamOf(New, New, i)
  <2>1. Reach(New, i) = 0
    BY <1>2, <1>4 DEF Reach, Holds
  <2>2. Leads(New.out, i, 0, 0)
    <3> DEFINE f == [j \in 0 .. 0 |-> 0]
    <3>1. f \in [0 .. 0 -> 0 .. 0] /\ f[0] = 0 /\ \A j \in 1 .. 0 : FALSE
      OBVIOUS
    <3> HIDE DEF f
    <3> QED
      BY Zenon, <1>2, <3>1 DEF Leads
  <2>3. ~ Freed(New, i)
    <3>1. i # 0
      BY DEF Ids
    <3> QED
      BY Zenon, <1>2, <1>3, <3>1 DEF Freed
  <2>4. \A j \in 1 .. Len(New.out) : FALSE
    BY <1>2
  <2> QED
    BY Zenon, <1>2, <1>4, <2>1, <2>2, <2>3, <2>4 DEF StreamOf
<1> QED
  BY Zenon, <1>1, <1>5, <1>6, RouteInit DEF StreamInv, Streaming

LEMMA FlowingNext == NumbersOnce /\ StreamInv /\ RouteInv' /\ Next => Flowing
<1> SUFFICES ASSUME NumbersOnce, StreamInv, RouteInv', Next
             PROVE  Flowing
  BY Zenon
<1>1. PICK e \in Ends :
        \/ OpenSession(e)
        \/ Receive(e)
        \/ \E accept \in BOOLEAN : ResumeOpen(e, accept)
        \/ ResumeRequest(e)
        \/ Progress(e)
        \/ EnterBusy(e)
        \/ LeaveBusy(e)
        \/ \E n \in Slots :
             \/ \E k \in 1 .. MaxPacket : Write(e, n, k) \/ Read(e, n, k)
             \/ SendChannelEof(e, n)
             \/ ChannelDone(e, n)
             \/ ForeignClose(e, n)
  BY Zenon DEF Next
<1>2. CASE OpenSession(e)
  BY Zenon, <1>2, StreamOpenSession
<1>3. CASE Receive(e)
  BY Zenon, <1>3, StreamReceive
<1>4. CASE \E accept \in BOOLEAN : ResumeOpen(e, accept)
  BY Zenon, <1>4, StreamResumeOpen
<1>5. CASE Progress(e)
  BY Zenon, <1>5, StreamProgress
<1>6. CASE ResumeRequest(e) \/ EnterBusy(e) \/ LeaveBusy(e)
  BY Zenon, <1>6, StreamIdle
<1>7. ASSUME NEW n \in Slots, NEW k \in 1 .. MaxPacket,
             Write(e, n, k) \/ Read(e, n, k)
      PROVE  Flowing
  BY Zenon, <1>7, StreamWrite, StreamRead
<1>8. ASSUME NEW n \in Slots,
             SendChannelEof(e, n) \/ ChannelDone(e, n) \/ ForeignClose(e, n)
      PROVE  Flowing
  BY Zenon, <1>8, StreamSendChannelEof, StreamChannelDone, StreamForeignClose
<1> QED
  BY Zenon, <1>1, <1>2, <1>3, <1>4, <1>5, <1>6, <1>7, <1>8

\* Every step keeps the invariant, and is a step of every stream.
LEMMA StreamNext ==
  NumbersOnce /\ StreamInv /\ [Next]_vars => StreamInv' /\ Flowing
<1> SUFFICES ASSUME NumbersOnce, StreamInv, [Next]_vars
             PROVE  StreamInv' /\ Flowing
  BY Zenon
<1>1. RouteInv'
  BY Zenon, RouteNext DEF StreamInv
<1>2. Flowing
  <2>1. CASE Next
    BY Zenon, <1>1, <2>1, FlowingNext
  <2>2. CASE end' = end
    <3>1. Flows(end["client"], end["client"], end["server"], end["server"])
      BY Zenon DEF Flows, StreamInv, Streaming, Stream!Step
    <3> QED
      BY Zenon, <2>2, <3>1 DEF Flowing
  <2> QED
    BY Zenon, <2>1, <2>2 DEF vars
<1>3. Streaming(end'["client"], end'["server"])
  BY Zenon, <1>2 DEF Flowing, Flows, Streaming
<1> QED
  BY Zenon, <1>1, <1>2, <1>3 DEF StreamInv

\* The initial state has every stream empty.
LEMMA StreamsBegin == Init => Stream!Init
<1> SUFFICES ASSUME Init PROVE Stream!Init
  BY Zenon
<1>1. \A s \in Streams : s[1] \in Ends /\ Peer(s[1]) \in Ends /\ s[2] \in Ids
  BY EndsTwo DEF Streams
<1>2. \A e \in Ends, i \in Ids : end[e].log[i] = NewLog
  BY Zenon DEF Init, New
<1>3. /\ NewLog.wrote = 0 /\ NewLog.got = 0 /\ NewLog.ended = FALSE
      /\ NewLog.eof = FALSE /\ NewLog.left = FALSE
  BY Zenon DEF NewLog
<1>4. \A s \in Streams : Abstract(s) = Stream!NewStream
  <2> SUFFICES ASSUME NEW s \in Streams
               PROVE  Abstract(s) = Stream!NewStream
    BY Zenon
  <2>1. end[s[1]].log[s[2]] = NewLog /\ end[Peer(s[1])].log[s[2]] = NewLog
    BY Zenon, <1>1, <1>2
  <2>2. Abstract(s) = [wrote |-> NewLog.wrote, ended |-> NewLog.ended,
                       got |-> NewLog.got, told |-> NewLog.eof,
                       left |-> NewLog.left]
    BY Zenon, <2>1 DEF Abstract
  <2>3. Abstract(s) = [wrote |-> 0, ended |-> FALSE, got |-> 0, told |-> FALSE,
                       left |-> FALSE]
    BY Zenon, <1>3, <2>2
  <2> QED
    BY <2>3 DEF Stream!NewStream
<1> QED
  BY Zenon, <1>4 DEF Stream!Init

\* A step of every stream is a step of ByteStreams.
LEMMA StreamsFlow == Flowing => Stream!Next
<1> SUFFICES ASSUME Flowing PROVE Stream!Next
  BY Zenon
<1> DEFINE old == [s \in Streams |-> Abstract(s)]
           new == [s \in Streams |-> Abstract(s)']
<1>1. ASSUME NEW s \in Streams
      PROVE  Stream!Step(Abstract(s), Abstract(s)')
  <2>1. s[1] \in Ends /\ s[2] \in Ids
    BY DEF Streams
  <2>2. Abstract(s) = Carried(end[s[1]], end[Peer(s[1])], s[2])
    BY Zenon DEF Abstract, Carried
  <2>3. Abstract(s)' = Carried(end'[s[1]], end'[Peer(s[1])], s[2])
    BY Zenon DEF Abstract, Carried
  <2>4. Stream!Step(Carried(end[s[1]], end[Peer(s[1])], s[2]),
                    Carried(end'[s[1]], end'[Peer(s[1])], s[2]))
    <3>1. CASE s[1] = "client"
      BY Zenon, <2>1, <3>1, EndsTwo DEF Flowing, Flows
    <3>2. CASE s[1] = "server"
      BY Zenon, <2>1, <3>2, EndsTwo DEF Flowing, Flows
    <3> QED
      BY Zenon, <2>1, <3>1, <3>2, EndsTwo
  <2> QED
    BY Zenon, <2>2, <2>3, <2>4
<1>2. DOMAIN new = Streams /\ \A s \in Streams : Stream!Step(old[s], new[s])
  BY Zenon, <1>1
<1> QED
  BY Zenon, <1>2 DEF Stream!Next

\* The channels of two ends are byte streams: for every number of channels
\* and slots, every size of window and packet, and every order in which
\* packets are handled, a reader gets no more bytes than were written, is told
\* of the end only when it has had all of them, and nothing is written after
\* the end or read after it was told (write_channel, read_channel, send_eof,
\* handle_eof, handle_close).
THEOREM ImplementsByteStreams ==
  ASSUME NumbersOnce
  PROVE  Spec => IsByteStreams
<1>1. StreamInv /\ [Next]_vars => StreamInv' /\ Flowing
  BY Zenon, StreamNext
<1>2. Flowing => [Stream!Next]_([s \in Streams |-> Abstract(s)])
  BY Zenon, StreamsFlow
<1> QED
  BY <1>1, <1>2, StreamInit, StreamsBegin, PTL
     DEF Spec, IsByteStreams, Stream!Spec

\* A packet under way belongs to a conversation that has a slot.
LEMMA UnderWayIds ==
  ASSUME RouteInv, NEW e \in Ends, NEW j \in 1 .. Len(end[e].out)
  PROVE  end[e].out[j].id \in Ids
<1> DEFINE c == end["client"]
           s == end["server"]
           p == end[e].out[j]
<1>1. c \in EndState /\ s \in EndState /\ Route(c, s)
  BY Zenon, EndsTwo DEF RouteInv, TypeOK
<1>2. p \in Packet
  <2>1. end[e] \in EndState
    BY Zenon, <1>1, EndsTwo
  <2>2. end[e].out \in Seq(Packet)
    BY Zenon, <2>1 DEF EndState
  <2> QED
    BY <2>2
<1>3. ASSUME NEW x \in EndState, Numbered(x, MaxOpen), NEW n \in Slots,
             x.ch[n].id # 0
      PROVE  x.ch[n].id \in Ids
  <2>1. x.ch[n].id \in Nat /\ x.ch[n].id <= MaxOpen
    BY Zenon, <1>3, SlotFacts DEF Numbered
  <2> QED
    BY <1>3, <2>1, ChannelsAssumption DEF Ids
<1>4. /\ \A n \in Slots : c.ch[n].id # 0 => c.ch[n].id \in Ids
      /\ \A n \in Slots : s.ch[n].id # 0 => s.ch[n].id \in Ids
  BY Zenon, <1>1, <1>3, TopNumbered
<1>5. CASE e = "client"
  <2>1. OpenAt(c, s, j) \/ ClientAt(c, s, j)
    BY Zenon, <1>1, <1>5 DEF Route, Addressed
  <2>2. p.id # 0 /\ \/ p.from # 0 /\ c.ch[p.from].id = p.id
                    \/ p.num # 0 /\ s.ch[p.num].id = p.id
    BY Zenon, <1>5, <2>1 DEF OpenAt, ClientAt
  <2> QED
    BY Zenon, <1>2, <1>4, <2>2, PacketFacts
<1>6. CASE e = "server"
  <2>1. p.id # 0 /\ p.num # 0 /\ c.ch[p.num].id = p.id
    BY Zenon, <1>1, <1>6 DEF Route, Addressed, UnderWayTo
  <2> QED
    BY Zenon, <1>2, <1>4, <2>1, PacketFacts
<1> QED
  BY Zenon, <1>5, <1>6, EndsTwo

\* The bytes arrive in the order in which they were written: no packet is
\* skipped, handled twice or given to another channel (write_channel,
\* read_channel, Channels::dispatch).
THEOREM BytesInOrder ==
  ASSUME NumbersOnce
  PROVE  Spec => []NextInOrder
<1>1. StreamInv => NextInOrder
  <2> SUFFICES ASSUME StreamInv, NEW e \in Ends, end[Peer(e)].out # <<>>,
                      ~ end[e].log[end[Peer(e)].out[1].id].left
               PROVE  end[Peer(e)].out[1].at
                        = Reach(end[e], end[Peer(e)].out[1].id)
    BY Zenon DEF NextInOrder
  <2> DEFINE q == end[Peer(e)].out
             i == q[1].id
  <2>1. Peer(e) \in Ends /\ 1 \in 1 .. Len(q)
    <3>1. Peer(e) \in Ends
      BY Zenon, EndsTwo
    <3>2. end[Peer(e)] \in EndState
      BY Zenon, <3>1 DEF StreamInv, RouteInv, TypeOK
    <3>3. q \in Seq(Packet)
      BY Zenon, <3>2 DEF EndState
    <3> QED
      BY <3>1, <3>3
  <2>2. i \in Ids
    BY Zenon, <2>1, UnderWayIds DEF StreamInv
  <2>3. Leads(q, i, Reach(end[e], i), end[Peer(e)].log[i].wrote)
    <3>1. CASE e = "client"
      BY Zenon, <2>2, <3>1, EndsTwo DEF StreamInv, Streaming, StreamOf
    <3>2. CASE e = "server"
      BY Zenon, <2>2, <3>2, EndsTwo DEF StreamInv, Streaming, StreamOf
    <3> QED
      BY Zenon, <3>1, <3>2, EndsTwo
  <2>4. q[1].at = Reach(end[e], i)
    <3>1. PICK f : /\ f[0] = Reach(end[e], i)
                   /\ \A j \in 1 .. Len(q) : q[j].id = i => q[j].at = f[j - 1]
      BY Zenon, <2>3 DEF Leads
    <3>2. q[1].at = f[1 - 1]
      BY Zenon, <2>1, <3>1
    <3> QED
      BY <3>1, <3>2
  <2> QED
    BY Zenon, <2>4
<1>2. StreamInv /\ [Next]_vars => StreamInv'
  BY Zenon, StreamNext
<1> QED
  BY <1>1, <1>2, StreamInit, PTL DEF Spec
=============================================================================
