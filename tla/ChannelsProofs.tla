--------------------------- MODULE ChannelsProofs ---------------------------
(***************************************************************************)
(* The changes of an end that keep Route, the inductive invariant behind   *)
(* PeersAgree of Channels.                                                 *)
(*                                                                         *)
(* Route follows each conversation from end to end: where its Open or the  *)
(* answer to it is, which slot it has at either end, and that what is      *)
(* under way is addressed to that slot.  c is always the client and s the  *)
(* server.                                                                 *)
(***************************************************************************)
EXTENDS ChannelsChanges, TLAPS

-----------------------------------------------------------------------------
(* Steps that open and close nothing.                                      *)

LEMMA Lengths ==
  ASSUME NEW x \in EndState
  PROVE  /\ Len(x.out) \in Nat /\ x.out \in Seq(Packet)
         /\ \A j \in 1 .. Len(x.out) : x.out[j] \in Packet
  BY DEF EndState

LEMMA SlotFacts ==
  ASSUME NEW x \in EndState, NEW n \in Slots
  PROVE  /\ x.ch[n] \in Channel /\ x.ch[n].id \in Nat
         /\ x.ch[n].num # 0 => x.ch[n].num \in Slots
         /\ x.ch[n].num \in 0 .. MaxChannels /\ n # 0
         /\ x.ch[n].state \in ChanStates
<1>1. x.ch[n] \in Channel
  BY Zenon DEF EndState
<1> DEFINE k == x.ch[n]
<1> HIDE DEF k
<1>2. k \in Channel => /\ k.id \in Nat /\ k.num \in 0 .. MaxChannels
                       /\ k.state \in ChanStates
  BY Zenon DEF Channel
<1> QED
  BY <1>1, <1>2, ChannelsAssumption DEF Slots, k

LEMMA PacketFacts ==
  ASSUME NEW p \in Packet
  PROVE  /\ p.id \in Nat /\ p.at \in Nat /\ p.len \in Nat
         /\ p.num # 0 => p.num \in Slots
         /\ p.from # 0 => p.from \in Slots
  BY ChannelsAssumption DEF Packet, Slots

LEMMA RxFacts ==
  ASSUME NEW x \in EndState
  PROVE  /\ x.rx.num # 0 => x.rx.num \in Slots
         /\ x.rx.len \in Nat /\ x.rx.left \in Nat
         /\ x.ev.num # 0 => x.ev.num \in Slots
<1>1. x.rx \in DataIn /\ x.ev \in ServEvent
  BY Zenon DEF EndState
<1> QED
  BY <1>1, ChannelsAssumption DEF DataIn, ServEvent, Slots

\* Slot n of an end in use.
LEMMA Known ==
  ASSUME NEW x \in EndState, Numbered(x, MaxOpen), NEW n \in Slots,
         x.ch[n].state # "Free"
  PROVE  x.ch[n].id \in Ids /\ x.log[x.ch[n].id] \in Log
<1>1. x.ch[n].id \in Nat /\ x.ch[n].id # 0 /\ x.ch[n].id <= MaxOpen
  BY Zenon, SlotFacts DEF Numbered
<1>2. x.ch[n].id \in Ids
  BY <1>1, ChannelsAssumption DEF Ids
<1> QED
  BY Zenon, <1>2 DEF EndState

LEMMA SameSlotsNumbered ==
  ASSUME NEW x \in EndState, NEW y \in EndState, NEW top \in Nat,
         SameSlots(x, y), Numbered(x, top)
  PROVE  Numbered(y, top)
  BY DEF SameSlots, Numbered, Usual

\* What is sent on an open channel is of another conversation than that of a
\* slot which is not open.
LEMMA ProperOther ==
  ASSUME NEW x \in EndState, NEW top \in Nat, Numbered(x, top), NEW p,
         Proper(x, p), NEW n \in Slots, x.ch[n].state \notin Usual
  PROVE  p.id # x.ch[n].id
<1>1. PICK m \in Slots : x.ch[m].state \in Usual /\ p.id = x.ch[m].id
  BY Zenon DEF Proper
<1>2. x.ch[m].id # 0 /\ m # n
  BY Zenon, <1>1 DEF Numbered, Usual
<1> QED
  BY Zenon, <1>1, <1>2 DEF Numbered

\* The slots that two connected slots name.
LEMMA ServerSlotOf ==
  ASSUME NEW c, NEW s \in EndState, Route(c, s),
         NEW m \in Slots, s.ch[m].id # 0
  PROVE  /\ ServerSlot(c, s, m) /\ s.ch[m].num \in Slots
         /\ c.ch[s.ch[m].num].id = s.ch[m].id
<1>1. ServerSlot(c, s, m)
  BY Zenon DEF Route, Connected
<1>2. s.ch[m].num # 0 /\ c.ch[s.ch[m].num].id = s.ch[m].id
  BY Zenon, <1>1 DEF ServerSlot
<1> QED
  BY Zenon, <1>1, <1>2, SlotFacts

LEMMA ClientSlotOf ==
  ASSUME NEW c \in EndState, NEW s, Route(c, s),
         NEW n \in Slots, c.ch[n].state \in Usual
  PROVE  /\ c.ch[n].num \in Slots /\ c.ch[n].id # 0
         /\ s.ch[c.ch[n].num].id = c.ch[n].id
         /\ s.ch[c.ch[n].num].state # "InOpen"
<1>1. c.ch[n].id # 0
  BY Zenon DEF Route, Numbered, Usual
<1>2. ClientSlot(c, s, n)
  BY Zenon, <1>1 DEF Route, Connected
<1> QED
  BY Zenon, <1>1, <1>2, SlotFacts DEF ClientSlot, Usual

\* What a client that knows the server's number sends is addressed to the
\* server's slot.
LEMMA ClientProper ==
  ASSUME NEW c \in EndState, NEW s \in EndState, NEW p \in Packet,
         Route(c, s), Proper(c, p)
  PROVE  /\ p.id # 0 /\ p.num # 0 /\ p.num \in Slots
         /\ s.ch[p.num].id = p.id /\ s.ch[p.num].state # "InOpen"
         /\ s.ch[p.num].num \in Slots /\ c.ch[s.ch[p.num].num].num # 0
<1>1. PICK n \in Slots : /\ c.ch[n].state \in Usual
                         /\ p.num = c.ch[n].num /\ p.id = c.ch[n].id
  BY Zenon DEF Proper
<1>2. /\ c.ch[n].num \in Slots /\ c.ch[n].id # 0
      /\ s.ch[c.ch[n].num].id = c.ch[n].id
      /\ s.ch[c.ch[n].num].state # "InOpen"
  BY <1>1, ClientSlotOf
<1>3. s.ch[p.num].num \in Slots /\ c.ch[s.ch[p.num].num].id = p.id
  BY <1>1, <1>2, ServerSlotOf
<1>4. s.ch[p.num].num = n
  BY ZenonT(60), <1>1, <1>2, <1>3 DEF Route, Numbered
<1> QED
  BY Zenon, <1>1, <1>2, <1>3, <1>4, SlotFacts

\* The packets of y are those of x and proper ones.
LEMMA GrownFacts ==
  ASSUME NEW x \in EndState, NEW y \in EndState, Grown(x, y),
         NEW j \in 1 .. Len(y.out)
  PROVE  /\ y.out[j] \in Packet
         /\ \/ j \in 1 .. Len(x.out) /\ y.out[j] = x.out[j]
            \/ j > Len(x.out) /\ Proper(x, y.out[j])
  BY Lengths DEF Grown

\* A client that opens and closes nothing.
LEMMA ClientMoves ==
  ASSUME NEW c \in EndState, NEW s \in EndState, NEW d \in EndState,
         Route(c, s), Moves(c, d)
  PROVE  Route(d, s)
<1>1. d.nOpen = c.nOpen /\ c.nOpen \in Nat /\ Numbered(c, c.nOpen)
  BY Zenon DEF Moves, EndState, Route
<1>2. Numbered(d, d.nOpen) /\ Numbered(s, d.nOpen) /\ d.nOpen <= MaxOpen
  BY Zenon, <1>1, SameSlotsNumbered DEF Route, Moves
<1>3. \A n \in Slots :
        /\ d.ch[n].id = c.ch[n].id /\ d.ch[n].num = c.ch[n].num
        /\ c.ch[n].state = "Opening" <=> d.ch[n].state = "Opening"
  BY Zenon DEF Moves, SameSlots, Usual
<1>4. ASSUME NEW n \in Slots, c.ch[n].state = "Opening", Nothing(c, c.ch[n].id)
      PROVE  Nothing(d, c.ch[n].id)
  <2> SUFFICES ASSUME NEW j \in 1 .. Len(d.out)
               PROVE  d.out[j].id # c.ch[n].id
    BY Zenon DEF Nothing
  <2>1. CASE j \in 1 .. Len(c.out) /\ d.out[j] = c.out[j]
    BY Zenon, <1>4, <2>1 DEF Nothing
  <2>2. CASE Proper(c, d.out[j])
    BY Zenon, <1>1, <1>4, <2>2, ProperOther DEF Usual
  <2> QED
    BY Zenon, <2>1, <2>2, GrownFacts DEF Moves
<1>5. Connected(d, s)
  <2>1. d.ev.k # "OpenSession"
    BY Zenon DEF Route, Connected, Moves, SameOpen
  <2>2. ASSUME NEW n \in Slots, d.ch[n].id # 0
        PROVE  ClientSlot(d, s, n)
    BY <2>2, <1>3 DEF Route, Connected, Moves, SameSlots, ClientSlot, Usual
  <2>3. ASSUME NEW m \in Slots, s.ch[m].id # 0
        PROVE  ServerSlot(d, s, m)
    <3>1. ServerSlot(c, s, m) /\ s.ch[m].num \in Slots
      BY Zenon, <2>3, ServerSlotOf
    <3>2. /\ d.ch[s.ch[m].num].id = s.ch[m].id
          /\ c.ch[s.ch[m].num].num # 0 => d.ch[s.ch[m].num].num # 0
          /\ c.ch[s.ch[m].num].state = "Opening" =>
               d.ch[s.ch[m].num].state = "Opening"
      BY <1>3, <2>3, <3>1, ServerSlotOf
    <3>3. ASSUME s.ch[m].state = "InOpen"
          PROVE  Nothing(d, s.ch[m].id)
      <4>1. /\ c.ch[s.ch[m].num].state = "Opening"
            /\ c.ch[s.ch[m].num].id = s.ch[m].id /\ Nothing(c, s.ch[m].id)
        BY Zenon, <3>1, <3>3 DEF ServerSlot
      <4> QED
        BY Zenon, <1>4, <3>1, <4>1
    <3> QED
      BY Zenon, <3>1, <3>2, <3>3 DEF ServerSlot
  <2> QED
    BY Zenon, <2>1, <2>2, <2>3 DEF Route, Connected
<1>6. ASSUME NEW j \in 1 .. Len(d.out)
      PROVE  OpenAt(d, s, j) \/ ClientAt(d, s, j)
  <2>1. CASE Proper(c, d.out[j])
    <3>1. d.out[j] \in Packet
      BY Zenon, GrownFacts DEF Moves
    <3>2. /\ d.out[j].id # 0 /\ d.out[j].num # 0
          /\ s.ch[d.out[j].num].id = d.out[j].id
          /\ s.ch[d.out[j].num].num \in Slots
          /\ c.ch[s.ch[d.out[j].num].num].num # 0
      BY ZenonT(60), <2>1, <3>1, ClientProper
    <3>3. d.ch[s.ch[d.out[j].num].num].num # 0
      BY ZenonT(60), <1>3, <3>2
    <3> QED
      BY ZenonT(60), <2>1, <3>2, <3>3 DEF ClientAt, Proper
  <2>2. CASE j \in 1 .. Len(c.out) /\ d.out[j] = c.out[j] /\ OpenAt(c, s, j)
    <3>1. c.out[j].from \in Slots
      BY Zenon, <2>2, Lengths, PacketFacts DEF OpenAt
    <3>2. ASSUME NEW k \in 1 .. Len(d.out), d.out[k].id = d.out[j].id
          PROVE  k = j
      <4>1. CASE k \in 1 .. Len(c.out) /\ d.out[k] = c.out[k]
        BY Zenon, <2>2, <3>2, <4>1 DEF OpenAt
      <4>2. CASE Proper(c, d.out[k])
        <5>1. /\ c.ch[c.out[j].from].state \notin Usual
              /\ c.ch[c.out[j].from].id = d.out[k].id
          BY Zenon, <2>2, <3>2 DEF OpenAt, Usual
        <5> QED
          BY Zenon, <1>1, <3>1, <4>2, <5>1, ProperOther
      <4> QED
        BY Zenon, <4>1, <4>2, GrownFacts DEF Moves
    <3> QED
      BY Zenon, <1>3, <2>2, <3>1, <3>2 DEF OpenAt
  <2>3. CASE j \in 1 .. Len(c.out) /\ d.out[j] = c.out[j] /\ ClientAt(c, s, j)
    <3>1. c.out[j].num \in Slots
      BY ZenonT(60), <2>3, Lengths, PacketFacts DEF ClientAt
    <3>2. s.ch[c.out[j].num].num \in Slots
      BY ZenonT(60), <2>3, <3>1, ServerSlotOf DEF ClientAt
    <3> QED
      BY ZenonT(60), <1>3, <2>3, <3>1, <3>2 DEF ClientAt
  <2> QED
    BY Zenon, <2>1, <2>2, <2>3, GrownFacts DEF Moves, Route, Addressed
<1>7. ASSUME NEW j \in 1 .. Len(s.out)
      PROVE  UnderWayTo(d, s, j)
  <2>1. UnderWayTo(c, s, j) /\ s.out[j] \in Packet
    BY Zenon, Lengths DEF Route, Addressed
  <2>2. s.out[j].num \in Slots
    BY Zenon, <2>1, PacketFacts DEF UnderWayTo
  <2>3. CASE RefuseAt(c, s, j)
    <3>1. Nothing(d, s.out[j].id)
      BY Zenon, <1>4, <2>1, <2>2, <2>3 DEF RefuseAt, UnderWayTo
    <3> QED
      BY Zenon, <1>3, <2>1, <2>2, <2>3, <3>1 DEF UnderWayTo, RefuseAt
  <2>4. CASE ConfirmAt(c, s, j)
    <3>1. Nothing(d, s.out[j].id)
      BY Zenon, <1>4, <2>1, <2>2, <2>4 DEF ConfirmAt, UnderWayTo
    <3> QED
      BY Zenon, <1>3, <2>1, <2>2, <2>4, <3>1 DEF UnderWayTo, ConfirmAt
  <2>5. CASE ServerAt(c, s, j)
    BY Zenon, <1>3, <2>1, <2>2, <2>5 DEF UnderWayTo, ServerAt
  <2> QED
    BY Zenon, <2>1, <2>3, <2>4, <2>5 DEF UnderWayTo
<1> QED
  BY Zenon, <1>2, <1>5, <1>6, <1>7 DEF Route, Addressed, Moves

\* A confirmation that is under way stays so.
LEMMA GrownConfirming ==
  ASSUME NEW x \in EndState, NEW y \in EndState, Grown(x, y), NEW i,
         Confirming(x, i)
  PROVE  Confirming(y, i)
<1>1. PICK j \in 1 .. Len(x.out) : x.out[j].t = "Confirm" /\ x.out[j].id = i
  BY Zenon DEF Confirming
<1>2. j \in 1 .. Len(y.out) /\ y.out[j] = x.out[j]
  BY Lengths DEF Grown
<1> QED
  BY Zenon, <1>1, <1>2 DEF Confirming

\* What a server sends on an open channel is addressed to the client's slot.
LEMMA ServerProper ==
  ASSUME NEW c \in EndState, NEW s \in EndState, NEW p \in Packet,
         Route(c, s), Proper(s, p), s.err = "ok"
  PROVE  /\ p.id # 0 /\ p.num # 0 /\ c.ch[p.num].id = p.id
         /\ p.from # 0 /\ s.ch[p.from].id = p.id /\ s.ch[p.from].state \in Usual
         /\ c.ch[p.num].num # 0 \/ Confirming(s, p.id)
<1>1. PICK n \in Slots : /\ s.ch[n].state \in Usual /\ p.from = n
                         /\ p.num = s.ch[n].num /\ p.id = s.ch[n].id
  BY Zenon DEF Proper
<1>2. s.ch[n].id # 0
  BY Zenon, <1>1 DEF Route, Numbered, Usual
<1>3. /\ s.ch[n].num \in Slots /\ c.ch[s.ch[n].num].id = s.ch[n].id
      /\ ServerSlot(c, s, n)
  BY <1>1, <1>2, ServerSlotOf
<1>4. c.ch[s.ch[n].num].num # 0 \/ Confirming(s, s.ch[n].id)
  BY Zenon, <1>1, <1>3 DEF ServerSlot, Usual
<1> QED
  BY Zenon, <1>1, <1>2, <1>3, <1>4, SlotFacts DEF Slots

\* A server that opens and closes nothing.
LEMMA ServerMoves ==
  ASSUME NEW c \in EndState, NEW s \in EndState, NEW d \in EndState,
         Route(c, s), Moves(s, d)
  PROVE  Route(c, d)
<1>1. /\ c.nOpen \in Nat /\ Numbered(s, c.nOpen) /\ Grown(s, d)
      /\ s.err = "ok"
  BY Zenon DEF Moves, EndState, Route
<1>2. Numbered(d, c.nOpen)
  BY Zenon, <1>1, SameSlotsNumbered DEF Moves
<1>3. \A n \in Slots :
        /\ d.ch[n].id = s.ch[n].id /\ d.ch[n].num = s.ch[n].num
        /\ s.ch[n].state = "InOpen" <=> d.ch[n].state = "InOpen"
        /\ s.ch[n].state \in Usual \cup {"Free", "InOpen"} =>
             d.ch[n].state \in Usual \cup {"Free", "InOpen"}
  BY Zenon DEF Moves, SameSlots, Usual
<1>4. ASSUME NEW i, Nothing(s, i),
             \A m \in Slots : s.ch[m].id = i => s.ch[m].state \notin Usual
      PROVE  Nothing(d, i)
  <2> SUFFICES ASSUME NEW j \in 1 .. Len(d.out)
               PROVE  d.out[j].id # i
    BY Zenon DEF Nothing
  <2>1. CASE j \in 1 .. Len(s.out) /\ d.out[j] = s.out[j]
    BY Zenon, <1>4, <2>1 DEF Nothing
  <2>2. CASE Proper(s, d.out[j])
    BY Zenon, <1>4, <2>2 DEF Proper
  <2> QED
    BY Zenon, <1>1, <2>1, <2>2, GrownFacts
<1>5. Connected(c, d)
  <2>1. d.ev.k = "OpenSession" =>
          d.ev.num # 0 /\ d.ch[d.ev.num].state = "InOpen"
    <3> SUFFICES ASSUME d.ev.k = "OpenSession"
                 PROVE  d.ev.num # 0 /\ d.ch[d.ev.num].state = "InOpen"
      BY Zenon
    <3>1. d.ev = s.ev
      BY Zenon DEF Moves, SameOpen
    <3>2. s.ev.num # 0 /\ s.ch[s.ev.num].state = "InOpen"
      BY Zenon, <3>1 DEF Route, Connected
    <3>3. s.ev.num \in Slots
      BY <3>2 DEF EndState, ServEvent, Slots
    <3> QED
      BY Zenon, <1>3, <3>1, <3>2, <3>3
  <2>2. ASSUME NEW n \in Slots, c.ch[n].id # 0
        PROVE  ClientSlot(c, d, n)
    <3>1. ClientSlot(c, s, n)
      BY Zenon, <2>2 DEF Route, Connected
    <3>2. c.ch[n].num # 0 => c.ch[n].num \in Slots
      BY Zenon, SlotFacts
    <3> QED
      BY Zenon, <1>3, <3>1, <3>2 DEF ClientSlot
  <2>3. ASSUME NEW m \in Slots, d.ch[m].id # 0
        PROVE  ServerSlot(c, d, m)
    <3>1. /\ ServerSlot(c, s, m) /\ d.ch[m].id = s.ch[m].id
          /\ d.ch[m].num = s.ch[m].num
      BY Zenon, <1>3, <2>3, ServerSlotOf
    <3>2. /\ d.ch[m].num # 0 /\ c.ch[d.ch[m].num].id = d.ch[m].id
          /\ d.ch[m].state \in Usual \cup {"Free", "InOpen"}
      BY Zenon, <1>3, <3>1 DEF ServerSlot
    <3>3. ASSUME d.ch[m].state = "InOpen"
          PROVE  /\ d.ev.k = "OpenSession" /\ d.ev.num = m
                 /\ c.ch[d.ch[m].num].state = "Opening"
                 /\ Nothing(c, d.ch[m].id) /\ Nothing(d, d.ch[m].id)
      <4>1. s.ch[m].state = "InOpen"
        BY Zenon, <1>3, <3>3
      <4>2. /\ s.ev.k = "OpenSession" /\ s.ev.num = m
            /\ c.ch[s.ch[m].num].state = "Opening"
            /\ Nothing(c, s.ch[m].id) /\ Nothing(s, s.ch[m].id)
        BY Zenon, <3>1, <4>1 DEF ServerSlot
      <4>3. \A k \in Slots : s.ch[k].id = s.ch[m].id => k = m
        BY Zenon, <1>1, <2>3, <3>1 DEF Numbered
      <4>4. Nothing(d, s.ch[m].id)
        BY Zenon, <1>4, <4>1, <4>2, <4>3 DEF Usual
      <4>5. d.ev = s.ev
        BY Zenon, <4>2 DEF Moves, SameOpen
      <4> QED
        BY Zenon, <3>1, <4>2, <4>4, <4>5
    <3>4. ASSUME d.ch[m].state # "InOpen", d.err = "ok"
          PROVE  c.ch[d.ch[m].num].num # 0 \/ Confirming(d, d.ch[m].id)
      <4>1. s.ch[m].state # "InOpen"
        BY Zenon, <1>3, <3>4
      <4>2. c.ch[s.ch[m].num].num # 0 \/ Confirming(s, s.ch[m].id)
        BY Zenon, <1>1, <3>1, <4>1 DEF ServerSlot
      <4> QED
        BY <1>1, <3>1, <4>2, GrownConfirming
    <3> QED
      BY Zenon, <3>2, <3>3, <3>4 DEF ServerSlot
  <2> QED
    BY Zenon, <2>1, <2>2, <2>3 DEF Route, Connected
<1>6. ASSUME NEW j \in 1 .. Len(c.out)
      PROVE  OpenAt(c, d, j) \/ ClientAt(c, d, j)
  <2>1. c.out[j] \in Packet
    BY Zenon, Lengths
  <2>2. CASE OpenAt(c, s, j)
    <3>1. NoSlot(d, c.out[j].id)
      BY Zenon, <1>3, <2>2 DEF OpenAt, NoSlot
    <3>2. Nothing(d, c.out[j].id)
      BY Zenon, <1>4, <2>2 DEF OpenAt, NoSlot
    <3> QED
      BY Zenon, <2>2, <3>1, <3>2 DEF OpenAt
  <2>3. CASE ClientAt(c, s, j)
    <3>1. c.out[j].num \in Slots
      BY ZenonT(60), <2>1, <2>3, PacketFacts DEF ClientAt
    <3> QED
      BY ZenonT(60), <1>3, <2>3, <3>1 DEF ClientAt
  <2> QED
    BY Zenon, <2>2, <2>3 DEF Route, Addressed
<1>7. ASSUME NEW j \in 1 .. Len(d.out)
      PROVE  UnderWayTo(c, d, j)
  <2>1. /\ d.out[j] \in Packet
        /\ \/ j \in 1 .. Len(s.out) /\ d.out[j] = s.out[j]
           \/ Proper(s, d.out[j])
    BY Zenon, <1>1, GrownFacts
  <2>2. CASE Proper(s, d.out[j])
    <3>1. /\ d.out[j].id # 0 /\ d.out[j].num # 0
          /\ c.ch[d.out[j].num].id = d.out[j].id
          /\ d.out[j].from # 0 /\ s.ch[d.out[j].from].id = d.out[j].id
          /\ s.ch[d.out[j].from].state \in Usual
          /\ c.ch[d.out[j].num].num # 0 \/ Confirming(s, d.out[j].id)
      BY Zenon, <1>1, <2>1, <2>2, ServerProper
    <3>2. d.out[j].from \in Slots /\ d.out[j].t \in Plain
      BY Zenon, <2>1, <2>2, <3>1, PacketFacts DEF Proper
    <3>3. /\ d.ch[d.out[j].from].id = d.out[j].id
          /\ d.ch[d.out[j].from].state # "InOpen"
      BY Zenon, <1>3, <3>1, <3>2 DEF Usual
    <3>4. Confirming(s, d.out[j].id) => Confirming(d, d.out[j].id)
      BY <1>1, GrownConfirming
    <3> QED
      BY Zenon, <3>1, <3>2, <3>3, <3>4 DEF UnderWayTo, ServerAt
  <2>3. ASSUME j \in 1 .. Len(s.out), d.out[j] = s.out[j]
        PROVE  UnderWayTo(c, d, j)
    <3>1. /\ UnderWayTo(c, s, j)
          /\ s.out[j].id # 0 /\ s.out[j].num # 0
          /\ c.ch[s.out[j].num].id = s.out[j].id
          /\ RefuseAt(c, s, j) \/ ConfirmAt(c, s, j) \/ ServerAt(c, s, j)
      BY Zenon, <2>3 DEF Route, Addressed, UnderWayTo
    <3>2. CASE RefuseAt(c, s, j)
      <4>1. NoSlot(d, d.out[j].id) /\ NoSlot(s, d.out[j].id)
        BY Zenon, <1>3, <2>3, <3>2 DEF RefuseAt, NoSlot
      <4>2. ASSUME NEW k \in 1 .. Len(d.out), d.out[k].id = d.out[j].id
            PROVE  k = j
        <5>1. CASE k \in 1 .. Len(s.out) /\ d.out[k] = s.out[k]
          BY Zenon, <2>3, <3>2, <4>2, <5>1 DEF RefuseAt
        <5>2. CASE Proper(s, d.out[k])
          BY Zenon, <4>1, <4>2, <5>2 DEF Proper, NoSlot
        <5> QED
          BY Zenon, <1>1, <5>1, <5>2, GrownFacts
      <4>3. RefuseAt(c, d, j)
        BY Zenon, <2>3, <3>2, <4>1, <4>2 DEF RefuseAt
      <4> QED
        BY Zenon, <2>3, <3>1, <4>3 DEF UnderWayTo
    <3>3. CASE ConfirmAt(c, s, j)
      <4>1. s.out[j].from \in Slots
        BY Zenon, <2>1, <2>3, <3>3, PacketFacts DEF ConfirmAt
      <4>2. /\ d.ch[d.out[j].from].id = d.out[j].id
            /\ d.ch[d.out[j].from].state # "InOpen"
        BY Zenon, <1>3, <2>3, <3>3, <4>1 DEF ConfirmAt
      <4>3. ASSUME NEW k \in 1 .. Len(d.out), d.out[k].id = d.out[j].id
            PROVE  k = j \/ (k > j /\ d.out[k].t \in Plain)
        <5>1. CASE k \in 1 .. Len(s.out) /\ d.out[k] = s.out[k]
          BY Zenon, <2>3, <3>3, <4>3, <5>1 DEF ConfirmAt
        <5>2. CASE k > Len(s.out) /\ Proper(s, d.out[k])
          BY <2>3, <5>2, Lengths DEF Proper
        <5> QED
          BY Zenon, <1>1, <5>1, <5>2, GrownFacts
      <4>4. ConfirmAt(c, d, j)
        BY Zenon, <2>3, <3>3, <4>2, <4>3 DEF ConfirmAt
      <4> QED
        BY Zenon, <2>3, <3>1, <4>4 DEF UnderWayTo
    <3>4. CASE ServerAt(c, s, j)
      <4>1. s.out[j].from \in Slots
        BY Zenon, <2>1, <2>3, <3>4, PacketFacts DEF ServerAt
      <4>2. Confirming(s, s.out[j].id) => Confirming(d, s.out[j].id)
        BY <1>1, GrownConfirming
      <4>3. ServerAt(c, d, j)
        BY Zenon, <1>3, <2>3, <3>4, <4>1, <4>2 DEF ServerAt
      <4> QED
        BY Zenon, <2>3, <3>1, <4>3 DEF UnderWayTo
    <3> QED
      BY Zenon, <3>1, <3>2, <3>3, <3>4
  <2> QED
    BY Zenon, <2>1, <2>2, <2>3
<1> QED
  BY Zenon, <1>2, <1>5, <1>6, <1>7 DEF Route, Addressed, Moves

-----------------------------------------------------------------------------
(* A packet is taken from the front.                                       *)

LEMMA TakenNothing ==
  ASSUME NEW x \in EndState, NEW y \in EndState, Taken(x, y), NEW i,
         Nothing(x, i)
  PROVE  Nothing(y, i)
  BY Lengths DEF Taken, Nothing

LEMMA TakenNumbered ==
  ASSUME NEW x, NEW y, Taken(x, y), NEW top
  PROVE  Numbered(x, top) <=> Numbered(y, top)
  BY DEF Taken, Numbered

\* The server has taken a packet.
LEMMA ClientTaken ==
  ASSUME NEW c \in EndState, NEW s \in EndState, NEW d \in EndState,
         Route(c, s), Taken(c, d)
  PROVE  Route(d, s)
<1>1. /\ Numbered(d, d.nOpen) /\ Numbered(s, d.nOpen) /\ d.nOpen <= MaxOpen
      /\ Tidy(d) /\ Tidy(s)
  BY ZenonT(60), TakenNumbered DEF Route, Taken, Tidy
<1>2. d.ch = c.ch /\ d.ev = c.ev
  BY Zenon DEF Taken
<1>3. ASSUME NEW m \in Slots, s.ch[m].id # 0
      PROVE  ServerSlot(d, s, m)
  <2>1. ServerSlot(c, s, m)
    BY Zenon, <1>3, ServerSlotOf
  <2>2. Nothing(c, s.ch[m].id) => Nothing(d, s.ch[m].id)
    BY TakenNothing
  <2> QED
    BY Zenon, <1>2, <2>1, <2>2 DEF ServerSlot
<1>4. ASSUME NEW n \in Slots, d.ch[n].id # 0
      PROVE  ClientSlot(d, s, n)
  BY Zenon, <1>2, <1>4 DEF Route, Connected, ClientSlot
<1>5. Connected(d, s)
  BY Zenon, <1>2, <1>3, <1>4 DEF Route, Connected
<1>6. ASSUME NEW j \in 1 .. Len(d.out)
      PROVE  OpenAt(d, s, j) \/ ClientAt(d, s, j)
  <2>1. j + 1 \in 1 .. Len(c.out) /\ d.out[j] = c.out[j + 1]
    BY Lengths DEF Taken
  <2>2. CASE OpenAt(c, s, j + 1)
    <3>1. ASSUME NEW k \in 1 .. Len(d.out), d.out[k].id = d.out[j].id
          PROVE  k = j
      <4>1. k + 1 \in 1 .. Len(c.out) /\ d.out[k] = c.out[k + 1]
        BY Lengths DEF Taken
      <4>2. k + 1 = j + 1
        BY Zenon, <2>1, <2>2, <3>1, <4>1 DEF OpenAt
      <4> QED
        BY <4>2
    <3> QED
      BY Zenon, <1>2, <2>1, <2>2, <3>1 DEF OpenAt
  <2>3. CASE ClientAt(c, s, j + 1)
    BY ZenonT(60), <1>2, <2>1, <2>3 DEF ClientAt
  <2> QED
    BY Zenon, <2>1, <2>2, <2>3 DEF Route, Addressed
<1>7. ASSUME NEW j \in 1 .. Len(s.out)
      PROVE  UnderWayTo(d, s, j)
  <2>1. UnderWayTo(c, s, j)
    BY Zenon DEF Route, Addressed
  <2>2. Nothing(c, s.out[j].id) => Nothing(d, s.out[j].id)
    BY TakenNothing
  <2> QED
    BY ZenonT(60), <1>2, <2>1, <2>2 DEF UnderWayTo, RefuseAt, ConfirmAt, ServerAt
<1> QED
  BY Zenon, <1>1, <1>5, <1>6, <1>7 DEF Route, Addressed

\* The client has taken a packet that is not a confirmation.
LEMMA ServerTaken ==
  ASSUME NEW c \in EndState, NEW s \in EndState, NEW d \in EndState,
         Route(c, s), Taken(s, d), s.out[1].t # "Confirm"
  PROVE  Route(c, d)
<1>1. /\ Numbered(d, c.nOpen) /\ Numbered(c, c.nOpen) /\ c.nOpen <= MaxOpen
      /\ Tidy(d) /\ Tidy(c)
  BY ZenonT(60), TakenNumbered DEF Route, Taken, Tidy
<1>2. d.ch = s.ch /\ d.ev = s.ev /\ d.err = s.err
  BY Zenon DEF Taken
<1>3. ASSUME NEW i, Confirming(s, i)
      PROVE  Confirming(d, i)
  <2>1. PICK j \in 1 .. Len(s.out) : s.out[j].t = "Confirm" /\ s.out[j].id = i
    BY Zenon, <1>3 DEF Confirming
  <2>2. j # 1
    BY Zenon, <2>1
  <2>3. j - 1 \in 1 .. Len(d.out) /\ d.out[j - 1] = s.out[j]
    BY <2>2, Lengths DEF Taken
  <2> QED
    BY Zenon, <2>1, <2>3 DEF Confirming
<1>4. ASSUME NEW m \in Slots, d.ch[m].id # 0
      PROVE  ServerSlot(c, d, m)
  <2>1. ServerSlot(c, s, m)
    BY Zenon, <1>2, <1>4, ServerSlotOf
  <2>2. /\ Nothing(s, s.ch[m].id) => Nothing(d, s.ch[m].id)
        /\ Confirming(s, s.ch[m].id) => Confirming(d, s.ch[m].id)
    BY <1>3, TakenNothing
  <2> QED
    BY Zenon, <1>2, <2>1, <2>2 DEF ServerSlot
<1>5. ASSUME NEW n \in Slots, c.ch[n].id # 0
      PROVE  ClientSlot(c, d, n)
  BY Zenon, <1>2, <1>5 DEF Route, Connected, ClientSlot
<1>6. Connected(c, d)
  BY Zenon, <1>2, <1>4, <1>5 DEF Route, Connected
<1>7. ASSUME NEW j \in 1 .. Len(c.out)
      PROVE  OpenAt(c, d, j) \/ ClientAt(c, d, j)
  <2>1. CASE OpenAt(c, s, j)
    <3>1. Nothing(d, c.out[j].id)
      BY <2>1, TakenNothing DEF OpenAt
    <3> QED
      BY Zenon, <1>2, <2>1, <3>1 DEF OpenAt, NoSlot
  <2>2. CASE ClientAt(c, s, j)
    BY ZenonT(60), <1>2, <2>2 DEF ClientAt
  <2> QED
    BY Zenon, <2>1, <2>2 DEF Route, Addressed
<1>8. ASSUME NEW j \in 1 .. Len(d.out)
      PROVE  UnderWayTo(c, d, j)
  <2>1. j + 1 \in 1 .. Len(s.out) /\ d.out[j] = s.out[j + 1]
    BY Lengths DEF Taken
  <2>2. /\ UnderWayTo(c, s, j + 1)
        /\ d.out[j].id # 0 /\ d.out[j].num # 0
        /\ c.ch[d.out[j].num].id = d.out[j].id
    BY Zenon, <2>1 DEF Route, Addressed, UnderWayTo
  <2>3. ASSUME NEW k \in 1 .. Len(d.out)
        PROVE  /\ k + 1 \in 1 .. Len(s.out) /\ d.out[k] = s.out[k + 1]
               /\ k + 1 = j + 1 => k = j
               /\ k + 1 > j + 1 => k > j
    BY Lengths DEF Taken
  <2>4. CASE RefuseAt(c, s, j + 1)
    <3>1. \A k \in 1 .. Len(d.out) : d.out[k].id = d.out[j].id => k = j
      BY Zenon, <2>1, <2>3, <2>4 DEF RefuseAt
    <3> QED
      BY Zenon, <1>2, <2>1, <2>2, <2>4, <3>1 DEF UnderWayTo, RefuseAt, NoSlot
  <2>5. CASE ConfirmAt(c, s, j + 1)
    <3>1. \A k \in 1 .. Len(d.out) : d.out[k].id = d.out[j].id =>
            k = j \/ (k > j /\ d.out[k].t \in Plain)
      BY ZenonT(60), <2>1, <2>3, <2>5 DEF ConfirmAt
    <3>2. ConfirmAt(c, d, j)
      BY Zenon, <1>2, <2>1, <2>5, <3>1 DEF ConfirmAt
    <3> QED
      BY Zenon, <2>2, <3>2 DEF UnderWayTo
  <2>6. CASE ServerAt(c, s, j + 1)
    <3>1. Confirming(s, d.out[j].id) => Confirming(d, d.out[j].id)
      BY Zenon, <1>3
    <3> QED
      BY ZenonT(60), <1>2, <2>1, <2>2, <2>6, <3>1 DEF UnderWayTo, ServerAt
  <2> QED
    BY Zenon, <2>2, <2>4, <2>5, <2>6 DEF UnderWayTo
<1> QED
  BY Zenon, <1>1, <1>6, <1>7, <1>8 DEF Route, Addressed

-----------------------------------------------------------------------------
(* Steps that open a channel.                                              *)

\* Every conversation was opened by the client.
LEMMA Fresh ==
  ASSUME NEW c \in EndState, NEW s \in EndState, Route(c, s),
         NEW i \in Nat, i > c.nOpen
  PROVE  NoSlot(c, i) /\ NoSlot(s, i) /\ Nothing(c, i) /\ Nothing(s, i)
<1>0. c.nOpen \in Nat
  BY Zenon DEF EndState
<1>1. \A n \in Slots : c.ch[n].id # i /\ s.ch[n].id # i
  BY <1>0, SlotFacts DEF Route, Numbered
<1>2. ASSUME NEW j \in 1 .. Len(c.out)
      PROVE  c.out[j].id # i
  <2>1. c.out[j] \in Packet /\ (OpenAt(c, s, j) \/ ClientAt(c, s, j))
    BY Zenon, Lengths DEF Route, Addressed
  <2>2. CASE OpenAt(c, s, j)
    BY Zenon, <1>1, <2>1, <2>2, PacketFacts DEF OpenAt
  <2>3. CASE ClientAt(c, s, j)
    BY ZenonT(60), <1>1, <2>1, <2>3, PacketFacts DEF ClientAt
  <2> QED
    BY Zenon, <2>1, <2>2, <2>3
<1>3. ASSUME NEW j \in 1 .. Len(s.out)
      PROVE  s.out[j].id # i
  <2>1. s.out[j] \in Packet /\ UnderWayTo(c, s, j)
    BY Zenon, Lengths DEF Route, Addressed
  <2> QED
    BY Zenon, <1>1, <2>1, PacketFacts DEF UnderWayTo
<1> QED
  BY Zenon, <1>1, <1>2, <1>3 DEF NoSlot, Nothing

LEMMA ClientOpens ==
  ASSUME NEW c \in EndState, NEW s \in EndState, NEW d \in EndState,
         Route(c, s), NEW n \in Slots, Opened(c, d, n)
  PROVE  Route(d, s)
<1> DEFINE i == d.nOpen
<1>1. c.nOpen \in Nat /\ i \in Nat /\ i = c.nOpen + 1 /\ i > c.nOpen /\ i # 0
      /\ i <= MaxOpen
  BY ChannelsAssumption DEF Opened, EndState
<1> HIDE DEF i
<1>2. NoSlot(c, i) /\ NoSlot(s, i) /\ Nothing(c, i) /\ Nothing(s, i)
  BY Zenon, <1>1, Fresh
<1>3. \A m \in Slots :
        /\ c.ch[m].id # 0 => m # n /\ d.ch[m] = c.ch[m]
        /\ c.ch[m].state # "Free" => m # n /\ d.ch[m] = c.ch[m]
        /\ m # n => d.ch[m] = c.ch[m]
  BY Zenon DEF Opened, Route, Numbered
<1>4. ASSUME NEW j \in 1 .. Len(d.out)
      PROVE  \/ j \in 1 .. Len(c.out) /\ d.out[j] = c.out[j] /\ d.out[j].id # i
             \/ /\ d.out[j].t = "Open" /\ d.out[j].from = n
                /\ d.out[j].id = i /\ j = Len(d.out) /\ Len(d.out) > Len(c.out)
  BY <1>2, Lengths DEF Opened, Nothing, i
<1>5. Numbered(d, i) /\ Numbered(s, i)
  <2>1. Numbered(s, i)
    BY <1>1, SlotFacts DEF Route, Numbered
  <2>2. /\ d.ch[n].id = i /\ d.ch[n].state = "Opening"
        /\ \A m \in Slots : c.ch[m].id # i
    BY Zenon, <1>2 DEF Opened, NoSlot, i
  <2>3. \A m \in Slots : c.ch[m].id <= i
    BY <1>1, SlotFacts DEF Route, Numbered
  <2> QED
    <3>1. \A m \in Slots :
            /\ d.ch[m].id <= i
            /\ d.ch[m].state # "Free" => d.ch[m].id # 0
            /\ d.ch[m].state = "Free" /\ d.ch[m].id # 0 => Reuses
      BY <1>1, <1>3, <2>2, <2>3 DEF Route, Numbered
    <3>2. \A k, m \in Slots :
            d.ch[k].id # 0 /\ d.ch[k].id = d.ch[m].id => k = m
      BY <1>3, <2>2 DEF Route, Numbered
    <3> QED
      BY Zenon, <2>1, <3>1, <3>2 DEF Numbered
<1>6. Tidy(d)
  <2>1. c.rx.num # 0 => c.rx.num \in Slots
    BY Zenon, RxFacts
  <2>2. c.rx.num # 0 => c.ch[c.rx.num].state \in Usual
    BY Zenon DEF Route, Tidy
  <2>3. c.rx.num # 0 => d.ch[c.rx.num].state \in Usual
    BY Zenon, <1>3, <2>1, <2>2 DEF Usual
  <2>4. d.rx = c.rx /\ d.err = c.err
    BY Zenon DEF Opened
  <2>5. \A m \in Slots :
          /\ d.ch[m].pending # 0 \/ d.ch[m].confirmed => d.ch[m].state \in Usual
          /\ d.ch[m].state = "Opening" => ~ d.ch[m].done
    BY Zenon, <1>3 DEF Opened, Route, Tidy
  <2> QED
    BY Zenon, <2>3, <2>4, <2>5 DEF Route, Tidy
<1>7. ASSUME NEW x, x # i, Nothing(c, x)
      PROVE  Nothing(d, x)
  BY Zenon, <1>4, <1>7 DEF Nothing
<1>8. Connected(d, s)
  <2>1. ASSUME NEW m \in Slots, d.ch[m].id # 0
        PROVE  ClientSlot(d, s, m)
    <3>1. CASE m = n
      BY Zenon, <3>1 DEF ClientSlot, Opened
    <3>2. CASE m # n
      <4>1. d.ch[m] = c.ch[m]
        BY Zenon, <1>3, <3>2
      <4>2. ClientSlot(c, s, m)
        BY Zenon, <2>1, <4>1 DEF Route, Connected
      <4> QED
        BY Zenon, <4>1, <4>2 DEF ClientSlot
    <3> QED
      BY Zenon, <3>1, <3>2
  <2>2. ASSUME NEW m \in Slots, s.ch[m].id # 0
        PROVE  ServerSlot(d, s, m)
    <3>1. /\ ServerSlot(c, s, m) /\ s.ch[m].num \in Slots
          /\ c.ch[s.ch[m].num].id = s.ch[m].id
      BY <2>2, ServerSlotOf
    <3>2. d.ch[s.ch[m].num] = c.ch[s.ch[m].num]
      BY Zenon, <1>3, <2>2, <3>1
    <3>3. Nothing(c, s.ch[m].id) => Nothing(d, s.ch[m].id)
      BY Zenon, <1>2, <1>7 DEF NoSlot
    <3> QED
      BY Zenon, <3>1, <3>2, <3>3 DEF ServerSlot
  <2> QED
    BY Zenon, <2>1, <2>2 DEF Route, Connected, Opened
<1>9. ASSUME NEW j \in 1 .. Len(d.out)
      PROVE  OpenAt(d, s, j) \/ ClientAt(d, s, j)
  <2>1. CASE /\ d.out[j].t = "Open" /\ d.out[j].from = n
             /\ d.out[j].id = i /\ j = Len(d.out) /\ Len(d.out) > Len(c.out)
    <3>1. \A k \in 1 .. Len(d.out) : d.out[k].id = i => k = j
      BY Zenon, <1>4, <2>1
    <3>2. d.ch[n].id = i /\ d.ch[n].state = "Opening" /\ n # 0
      BY Zenon, SlotFacts DEF Opened, i
    <3> QED
      BY Zenon, <1>1, <1>2, <2>1, <3>1, <3>2 DEF OpenAt
  <2>2. CASE /\ j \in 1 .. Len(c.out) /\ d.out[j] = c.out[j]
             /\ d.out[j].id # i /\ OpenAt(c, s, j)
    <3>1. c.out[j].from \in Slots
      BY Zenon, <2>2, Lengths, PacketFacts DEF OpenAt
    <3>2. d.ch[c.out[j].from] = c.ch[c.out[j].from]
      BY Zenon, <1>3, <2>2, <3>1 DEF OpenAt
    <3>3. \A k \in 1 .. Len(d.out) : d.out[k].id = d.out[j].id => k = j
      BY Zenon, <1>4, <2>2 DEF OpenAt
    <3> QED
      BY Zenon, <2>2, <3>2, <3>3 DEF OpenAt
  <2>3. CASE /\ j \in 1 .. Len(c.out) /\ d.out[j] = c.out[j]
             /\ d.out[j].id # i /\ ClientAt(c, s, j)
    <3> DEFINE m == c.out[j].num
    <3>1. m \in Slots /\ s.ch[m].id # 0
      BY ZenonT(60), <2>3, Lengths, PacketFacts DEF ClientAt
    <3> HIDE DEF m
    <3>2. s.ch[m].num \in Slots /\ c.ch[s.ch[m].num].id = s.ch[m].id
      BY <3>1, ServerSlotOf
    <3>3. d.ch[s.ch[m].num] = c.ch[s.ch[m].num]
      BY Zenon, <1>3, <3>1, <3>2
    <3> USE DEF m
    <3> QED
      BY ZenonT(60), <2>3, <3>3 DEF ClientAt
  <2> QED
    BY Zenon, <1>4, <2>1, <2>2, <2>3 DEF Route, Addressed
<1>10. ASSUME NEW j \in 1 .. Len(s.out)
       PROVE  UnderWayTo(d, s, j)
  <2>1. UnderWayTo(c, s, j) /\ s.out[j] \in Packet
    BY Zenon, Lengths DEF Route, Addressed
  <2>2. s.out[j].num \in Slots
    BY Zenon, <2>1, PacketFacts DEF UnderWayTo
  <2>3. d.ch[s.out[j].num] = c.ch[s.out[j].num]
    BY Zenon, <1>3, <2>1, <2>2 DEF UnderWayTo
  <2>4. Nothing(c, s.out[j].id) => Nothing(d, s.out[j].id)
    BY ZenonT(60), <1>2, <1>7 DEF Nothing
  <2> QED
    BY ZenonT(60), <2>1, <2>3, <2>4 DEF UnderWayTo, RefuseAt, ConfirmAt, ServerAt
<1> QED
  BY Zenon, <1>1, <1>5, <1>6, <1>8, <1>9, <1>10 DEF Route, Addressed, i

\* The server has taken the Open of a client.
LEMMA OpenTaken ==
  ASSUME NEW c \in EndState, NEW s \in EndState, NEW d \in EndState,
         Route(c, s), Taken(c, d), c.out[1].t = "Open"
  PROVE  /\ Route(d, s) /\ c.out[1].from \in Slots
         /\ d.ch[c.out[1].from].id = c.out[1].id
         /\ Unmet(d, s, c.out[1].from)
<1>1. 1 \in 1 .. Len(c.out) /\ c.out[1] \in Packet
  BY Lengths DEF Taken
<1>2. OpenAt(c, s, 1)
  BY Zenon, <1>1 DEF Route, Addressed, ClientAt, Plain
<1>3. /\ c.out[1].from # 0 /\ c.ch[c.out[1].from].id = c.out[1].id
      /\ c.ch[c.out[1].from].state = "Opening"
      /\ NoSlot(s, c.out[1].id) /\ Nothing(s, c.out[1].id)
      /\ \A k \in 1 .. Len(c.out) : c.out[k].id = c.out[1].id => k = 1
  BY Zenon, <1>2 DEF OpenAt
<1>4. Nothing(d, c.out[1].id)
  <2> SUFFICES ASSUME NEW j \in 1 .. Len(d.out)
               PROVE  d.out[j].id # c.out[1].id
    BY Zenon DEF Nothing
  <2>1. j + 1 \in 1 .. Len(c.out) /\ d.out[j] = c.out[j + 1] /\ j + 1 # 1
    BY Lengths DEF Taken
  <2> QED
    BY Zenon, <1>3, <2>1
<1>5. c.out[1].from \in Slots
  BY Zenon, <1>1, <1>3, PacketFacts
<1>6. d.ch = c.ch
  BY Zenon DEF Taken
<1> QED
  BY ZenonT(60), <1>3, <1>4, <1>5, <1>6, ClientTaken DEF Unmet

\* The client has taken the refusal of a server.
LEMMA RefuseTaken ==
  ASSUME NEW c \in EndState, NEW s \in EndState, NEW d \in EndState,
         Route(c, s), Taken(s, d), s.out[1].t = "Refuse"
  PROVE  /\ Route(c, d) /\ s.out[1].num \in Slots
         /\ Unmet(c, d, s.out[1].num)
<1>1. 1 \in 1 .. Len(s.out) /\ s.out[1] \in Packet
  BY Lengths DEF Taken
<1>2. /\ RefuseAt(c, s, 1) /\ s.out[1].num # 0
      /\ c.ch[s.out[1].num].id = s.out[1].id
  BY Zenon, <1>1 DEF Route, Addressed, UnderWayTo, ConfirmAt, ServerAt, Plain
<1>3. /\ c.ch[s.out[1].num].state = "Opening"
      /\ NoSlot(s, s.out[1].id) /\ Nothing(c, s.out[1].id)
      /\ \A k \in 1 .. Len(s.out) : s.out[k].id = s.out[1].id => k = 1
  BY Zenon, <1>2 DEF RefuseAt
<1>4. Nothing(d, s.out[1].id)
  <2> SUFFICES ASSUME NEW j \in 1 .. Len(d.out)
               PROVE  d.out[j].id # s.out[1].id
    BY Zenon DEF Nothing
  <2>1. j + 1 \in 1 .. Len(s.out) /\ d.out[j] = s.out[j + 1] /\ j + 1 # 1
    BY Lengths DEF Taken
  <2> QED
    BY Zenon, <1>3, <2>1
<1>5. NoSlot(d, s.out[1].id)
  BY Zenon, <1>3 DEF NoSlot, Taken
<1>6. s.out[1].num \in Slots /\ Route(c, d)
  BY Zenon, <1>1, <1>2, PacketFacts, ServerTaken
<1> QED
  BY ZenonT(60), <1>2, <1>3, <1>4, <1>5, <1>6 DEF Unmet

LEMMA ServerReserves ==
  ASSUME NEW c \in EndState, NEW s \in EndState, NEW d \in EndState,
         Route(c, s), NEW n \in Slots, NEW m \in Slots, Unmet(c, s, n),
         Reserved(c, s, d, n, m)
  PROVE  Route(c, d)
<1> DEFINE i == c.ch[n].id
<1>1. c.nOpen \in Nat /\ i \in Nat /\ i # 0 /\ i <= c.nOpen
  BY ZenonT(60), SlotFacts DEF EndState, Unmet, Route, Numbered
<1>2. /\ NoSlot(s, i) /\ Nothing(c, i) /\ Nothing(s, i)
      /\ d.ch[m].state = "InOpen" /\ d.ch[m].num = n /\ d.ch[m].id = i
      /\ c.ch[n].id = i /\ c.ch[n].state = "Opening" /\ m # 0 /\ n # 0
  BY Zenon, SlotFacts DEF Unmet, Reserved
<1> HIDE DEF i
<1>3. /\ \A k \in Slots :
           /\ s.ch[k].id # 0 => k # m /\ d.ch[k] = s.ch[k]
           /\ s.ch[k].state # "Free" => k # m /\ d.ch[k] = s.ch[k]
           /\ k # m => d.ch[k] = s.ch[k]
      /\ d.out = s.out /\ d.err = s.err
  BY Zenon DEF Reserved, Route, Numbered
<1>4. Numbered(d, c.nOpen)
  <2>1. \A k \in Slots : s.ch[k].id # i
    BY Zenon, <1>2 DEF NoSlot
  <2>2. \A k \in Slots :
          /\ d.ch[k].id <= c.nOpen
          /\ d.ch[k].state # "Free" => d.ch[k].id # 0
          /\ d.ch[k].state = "Free" /\ d.ch[k].id # 0 => Reuses
    BY <1>1, <1>2, <1>3 DEF Route, Numbered
  <2>3. \A k, l \in Slots :
          d.ch[k].id # 0 /\ d.ch[k].id = d.ch[l].id => k = l
    BY <1>2, <1>3, <2>1 DEF Route, Numbered
  <2> QED
    BY Zenon, <2>2, <2>3 DEF Numbered
<1>5. Tidy(d)
  <2>1. s.rx.num # 0 => s.rx.num \in Slots
    BY Zenon, RxFacts
  <2>2. s.rx.num # 0 => s.ch[s.rx.num].state \in Usual
    BY Zenon DEF Route, Tidy
  <2>3. s.rx.num # 0 => d.ch[s.rx.num].state \in Usual
    BY Zenon, <1>3, <2>1, <2>2 DEF Usual
  <2>4. d.rx = s.rx /\ d.err = s.err
    BY Zenon DEF Reserved
  <2>5. \A k \in Slots :
          /\ d.ch[k].pending # 0 \/ d.ch[k].confirmed => d.ch[k].state \in Usual
          /\ d.ch[k].state = "Opening" => ~ d.ch[k].done
    BY Zenon, <1>3 DEF Reserved, Route, Tidy
  <2> QED
    BY Zenon, <2>3, <2>4, <2>5 DEF Route, Tidy
<1>6. \A x : Nothing(d, x) <=> Nothing(s, x)
  BY Zenon, <1>3 DEF Nothing
<1>7. \A x : Confirming(d, x) <=> Confirming(s, x)
  BY Zenon, <1>3 DEF Confirming
<1>8. Connected(c, d)
  <2>1. ASSUME NEW k \in Slots, c.ch[k].id # 0
        PROVE  ClientSlot(c, d, k)
    <3>1. ClientSlot(c, s, k)
      BY Zenon, <2>1 DEF Route, Connected
    <3>2. c.ch[k].num # 0 => /\ c.ch[k].num \in Slots
                             /\ s.ch[c.ch[k].num].id = c.ch[k].id
      BY Zenon, <3>1, SlotFacts DEF ClientSlot
    <3>3. c.ch[k].num # 0 => d.ch[c.ch[k].num] = s.ch[c.ch[k].num]
      BY Zenon, <1>3, <2>1, <3>2
    <3> QED
      BY Zenon, <3>1, <3>3 DEF ClientSlot
  <2>2. ASSUME NEW k \in Slots, d.ch[k].id # 0
        PROVE  ServerSlot(c, d, k)
    <3>1. CASE k = m
      BY Zenon, <1>2, <1>6, <3>1 DEF ServerSlot, Reserved
    <3>2. CASE k # m
      <4>1. d.ch[k] = s.ch[k]
        BY Zenon, <1>3, <3>2
      <4>2. ServerSlot(c, s, k)
        BY Zenon, <2>2, <4>1, ServerSlotOf
      <4>3. s.ch[k].state # "InOpen"
        BY Zenon, <4>2 DEF ServerSlot, Reserved
      <4> QED
        BY Zenon, <1>3, <1>7, <4>1, <4>2, <4>3 DEF ServerSlot
    <3> QED
      BY Zenon, <3>1, <3>2
  <2> QED
    BY Zenon, <1>2, <2>1, <2>2 DEF Route, Connected, Reserved
<1>9. ASSUME NEW j \in 1 .. Len(c.out)
      PROVE  OpenAt(c, d, j) \/ ClientAt(c, d, j)
  <2>1. c.out[j] \in Packet /\ c.out[j].id # i
    BY Zenon, <1>2, Lengths DEF Nothing
  <2>2. CASE OpenAt(c, s, j)
    <3>1. NoSlot(d, c.out[j].id)
      BY Zenon, <1>2, <1>3, <2>1, <2>2 DEF OpenAt, NoSlot
    <3> QED
      BY Zenon, <1>6, <2>2, <3>1 DEF OpenAt
  <2>3. CASE ClientAt(c, s, j)
    <3>1. c.out[j].num \in Slots /\ s.ch[c.out[j].num].id # 0
      BY ZenonT(60), <2>1, <2>3, PacketFacts DEF ClientAt
    <3>2. d.ch[c.out[j].num] = s.ch[c.out[j].num]
      BY Zenon, <1>3, <3>1
    <3> QED
      BY ZenonT(60), <2>3, <3>2 DEF ClientAt
  <2> QED
    BY Zenon, <2>2, <2>3 DEF Route, Addressed
<1>10. ASSUME NEW j \in 1 .. Len(d.out)
       PROVE  UnderWayTo(c, d, j)
  <2>1. /\ j \in 1 .. Len(s.out) /\ d.out[j] = s.out[j] /\ s.out[j] \in Packet
        /\ s.out[j].id # i /\ UnderWayTo(c, s, j)
    BY Zenon, <1>2, <1>3, Lengths DEF Route, Addressed, Nothing
  <2>2. /\ d.out[j].id # 0 /\ d.out[j].num # 0
        /\ c.ch[d.out[j].num].id = d.out[j].id
    BY Zenon, <2>1 DEF UnderWayTo
  <2>3. CASE RefuseAt(c, s, j)
    <3>1. NoSlot(d, s.out[j].id)
      BY Zenon, <1>2, <1>3, <2>1, <2>3 DEF RefuseAt, NoSlot
    <3>2. RefuseAt(c, d, j)
      BY Zenon, <1>3, <2>1, <2>3, <3>1 DEF RefuseAt
    <3> QED
      BY Zenon, <2>2, <3>2 DEF UnderWayTo
  <2>4. CASE ConfirmAt(c, s, j)
    <3>1. s.out[j].from \in Slots /\ s.ch[s.out[j].from].id # 0
      BY ZenonT(60), <2>1, <2>4, PacketFacts DEF ConfirmAt, UnderWayTo
    <3>2. d.ch[s.out[j].from] = s.ch[s.out[j].from]
      BY Zenon, <1>3, <3>1
    <3>3. ConfirmAt(c, d, j)
      BY Zenon, <1>3, <2>1, <2>4, <3>2 DEF ConfirmAt
    <3> QED
      BY Zenon, <2>2, <3>3 DEF UnderWayTo
  <2>5. CASE ServerAt(c, s, j)
    <3>1. s.out[j].from \in Slots /\ s.ch[s.out[j].from].id # 0
      BY ZenonT(60), <2>1, <2>5, PacketFacts DEF ServerAt, UnderWayTo
    <3>2. d.ch[s.out[j].from] = s.ch[s.out[j].from]
      BY Zenon, <1>3, <3>1
    <3>3. ServerAt(c, d, j)
      BY Zenon, <1>7, <2>1, <2>5, <3>2 DEF ServerAt
    <3> QED
      BY Zenon, <2>2, <3>3 DEF UnderWayTo
  <2> QED
    BY Zenon, <2>1, <2>3, <2>4, <2>5 DEF UnderWayTo
<1> QED
  BY Zenon, <1>4, <1>5, <1>8, <1>9, <1>10 DEF Route, Addressed

LEMMA ServerRefuses ==
  ASSUME NEW c \in EndState, NEW s \in EndState, NEW d \in EndState,
         Route(c, s), NEW n \in Slots, Unmet(c, s, n), Refused(c, s, d, n)
  PROVE  Route(c, d)
<1> DEFINE i == c.ch[n].id
<1>1. /\ NoSlot(s, i) /\ Nothing(c, i) /\ Nothing(s, i) /\ i # 0 /\ n # 0
      /\ c.ch[n].id = i /\ c.ch[n].state = "Opening"
  BY Zenon, SlotFacts DEF Unmet, Route, Numbered
<1> HIDE DEF i
<1>2. d.ch = s.ch /\ d.rx = s.rx /\ d.ev = s.ev /\ s.err = "ok"
  BY Zenon DEF Refused
<1>3. /\ Len(d.out) \in Nat /\ Len(s.out) \in Nat /\ Len(d.out) >= Len(s.out)
      /\ \A j \in 1 .. Len(s.out) : /\ j \in 1 .. Len(d.out)
                                    /\ d.out[j] = s.out[j]
  BY Lengths DEF Refused
<1>4. ASSUME NEW j \in 1 .. Len(d.out)
      PROVE  \/ j \in 1 .. Len(s.out) /\ d.out[j] = s.out[j] /\ s.out[j].id # i
             \/ /\ d.out[j].t = "Refuse" /\ d.out[j].num = n
                /\ d.out[j].id = i /\ j = Len(d.out) /\ j > Len(s.out)
  BY <1>1, <1>3, Lengths DEF Refused, Nothing, i
<1>5. Numbered(d, c.nOpen)
  BY <1>2 DEF Numbered, Route
<1>6. Tidy(d)
  BY Zenon, <1>2 DEF Tidy, Route, Refused
<1>7. ASSUME NEW x, x # i, Nothing(s, x)
      PROVE  Nothing(d, x)
  BY Zenon, <1>4, <1>7 DEF Nothing
<1>8. ASSUME NEW x, Confirming(s, x)
      PROVE  Confirming(d, x)
  BY Zenon, <1>3, <1>8 DEF Confirming
<1>9. Connected(c, d)
  <2>1. ASSUME NEW k \in Slots, c.ch[k].id # 0
        PROVE  ClientSlot(c, d, k)
    BY Zenon, <1>2, <2>1 DEF Route, Connected, ClientSlot
  <2>2. ASSUME NEW k \in Slots, d.ch[k].id # 0
        PROVE  ServerSlot(c, d, k)
    <3>1. ServerSlot(c, s, k)
      BY Zenon, <1>2, <2>2, ServerSlotOf
    <3>2. s.ch[k].id # i
      BY Zenon, <1>1 DEF NoSlot
    <3>3. /\ Nothing(s, s.ch[k].id) => Nothing(d, s.ch[k].id)
          /\ Confirming(s, s.ch[k].id) => Confirming(d, s.ch[k].id)
      BY Zenon, <1>7, <1>8, <3>2
    <3> QED
      BY Zenon, <1>2, <3>1, <3>3 DEF ServerSlot
  <2> QED
    BY Zenon, <1>2, <2>1, <2>2 DEF Route, Connected
<1>10. ASSUME NEW j \in 1 .. Len(c.out)
       PROVE  OpenAt(c, d, j) \/ ClientAt(c, d, j)
  <2>1. c.out[j].id # i
    BY Zenon, <1>1 DEF Nothing
  <2>2. CASE OpenAt(c, s, j)
    <3>1. Nothing(d, c.out[j].id)
      BY Zenon, <1>7, <2>1, <2>2 DEF OpenAt
    <3> QED
      BY Zenon, <1>2, <2>2, <3>1 DEF OpenAt, NoSlot
  <2>3. CASE ClientAt(c, s, j)
    BY ZenonT(60), <1>2, <2>3 DEF ClientAt
  <2> QED
    BY Zenon, <2>2, <2>3 DEF Route, Addressed
<1>11. ASSUME NEW j \in 1 .. Len(d.out)
       PROVE  UnderWayTo(c, d, j)
  <2>1. CASE /\ d.out[j].t = "Refuse" /\ d.out[j].num = n
             /\ d.out[j].id = i /\ j = Len(d.out) /\ j > Len(s.out)
    <3>1. \A k \in 1 .. Len(d.out) : d.out[k].id = d.out[j].id => k = j
      BY Zenon, <1>4, <2>1
    <3>2. RefuseAt(c, d, j)
      BY Zenon, <1>1, <1>2, <2>1, <3>1 DEF RefuseAt, NoSlot
    <3> QED
      BY Zenon, <1>1, <2>1, <3>2 DEF UnderWayTo
  <2>2. ASSUME j \in 1 .. Len(s.out), d.out[j] = s.out[j], s.out[j].id # i
        PROVE  UnderWayTo(c, d, j)
    <3>1. /\ UnderWayTo(c, s, j) /\ s.out[j].id # 0 /\ s.out[j].num # 0
          /\ c.ch[s.out[j].num].id = s.out[j].id
      BY Zenon, <2>2 DEF Route, Addressed, UnderWayTo
    <3>2. ASSUME NEW k \in 1 .. Len(d.out), d.out[k].id = s.out[j].id
          PROVE  k \in 1 .. Len(s.out) /\ d.out[k] = s.out[k]
      BY Zenon, <1>4, <2>2, <3>2
    <3>3. CASE RefuseAt(c, s, j)
      <4>1. RefuseAt(c, d, j)
        BY Zenon, <1>2, <2>2, <3>2, <3>3 DEF RefuseAt, NoSlot
      <4> QED
        BY Zenon, <2>2, <3>1, <4>1 DEF UnderWayTo
    <3>4. CASE ConfirmAt(c, s, j)
      <4>1. ConfirmAt(c, d, j)
        BY Zenon, <1>2, <2>2, <3>2, <3>4 DEF ConfirmAt
      <4> QED
        BY Zenon, <2>2, <3>1, <4>1 DEF UnderWayTo
    <3>5. CASE ServerAt(c, s, j)
      <4>1. ServerAt(c, d, j)
        BY Zenon, <1>2, <1>8, <2>2, <3>5 DEF ServerAt
      <4> QED
        BY Zenon, <2>2, <3>1, <4>1 DEF UnderWayTo
    <3> QED
      BY Zenon, <3>1, <3>3, <3>4, <3>5 DEF UnderWayTo
  <2> QED
    BY Zenon, <1>4, <2>1, <2>2
<1> QED
  BY Zenon, <1>5, <1>6, <1>9, <1>10, <1>11 DEF Route, Addressed

LEMMA ServerDrops ==
  ASSUME NEW c \in EndState, NEW s \in EndState, NEW d \in EndState,
         Route(c, s), NEW m \in Slots, Dropped(s, d, m)
  PROVE  /\ Route(c, d) /\ s.ch[m].num \in Slots
         /\ c.ch[s.ch[m].num].id = s.ch[m].id
         /\ Unmet(c, d, s.ch[m].num)
<1> DEFINE i == s.ch[m].id
           n == s.ch[m].num
<1>1. s.ch[m].state = "InOpen" /\ s.ch[m].id # 0
  BY Zenon DEF Dropped, Route, Connected, Numbered
<1>2. ServerSlot(c, s, m) /\ n \in Slots
  BY Zenon, <1>1, ServerSlotOf
<1>3. /\ c.ch[n].id = i /\ c.ch[n].state = "Opening" /\ i # 0
      /\ Nothing(c, i) /\ Nothing(s, i) /\ s.ch[m].id = i /\ s.ch[m].num = n
  BY Zenon, <1>1, <1>2 DEF ServerSlot
<1> HIDE DEF i, n
<1>4. /\ \A k \in Slots : s.ch[k].id # i => k # m /\ d.ch[k] = s.ch[k]
      /\ \A k \in Slots : d.ch[k].id # i
      /\ \A k \in Slots : d.ch[k].id # 0 => k # m /\ d.ch[k] = s.ch[k]
      /\ d.out = s.out /\ d.err = s.err /\ d.rx = s.rx
  <2>1. \A k \in Slots : k # m => d.ch[k] = s.ch[k] /\ s.ch[k].id # i
    BY Zenon, <1>3 DEF Dropped, Route, Numbered
  <2>2. d.ch[m].id = 0
    BY Zenon DEF Dropped
  <2> QED
    BY Zenon, <1>3, <2>1, <2>2 DEF Dropped
<1>5. Numbered(d, c.nOpen)
  <2>1. \A k \in Slots :
          /\ d.ch[k].id <= c.nOpen
          /\ d.ch[k].state # "Free" => d.ch[k].id # 0
          /\ d.ch[k].state = "Free" /\ d.ch[k].id # 0 => Reuses
    <3>1. c.nOpen \in Nat
      BY Zenon DEF EndState
    <3> QED
      BY <3>1 DEF Dropped, Route, Numbered
  <2>2. \A k, l \in Slots :
          d.ch[k].id # 0 /\ d.ch[k].id = d.ch[l].id => k = l
    BY <1>4 DEF Route, Numbered
  <2> QED
    BY Zenon, <2>1, <2>2 DEF Numbered
<1>6. Tidy(d)
  <2>1. s.rx.num # 0 => s.rx.num \in Slots /\ s.rx.num # m
    BY Zenon, <1>1, RxFacts DEF Route, Tidy, Usual
  <2>2. s.rx.num # 0 => d.ch[s.rx.num].state \in Usual
    BY Zenon, <2>1 DEF Route, Tidy, Dropped
  <2>3. \A k \in Slots :
          /\ d.ch[k].pending # 0 \/ d.ch[k].confirmed => d.ch[k].state \in Usual
          /\ d.ch[k].state = "Opening" => ~ d.ch[k].done
    BY Zenon DEF Dropped, Route, Tidy
  <2> QED
    BY Zenon, <1>4, <2>2, <2>3 DEF Route, Tidy
<1>7. \A x : Nothing(d, x) <=> Nothing(s, x)
  BY Zenon, <1>4 DEF Nothing
<1>8. \A x : Confirming(d, x) <=> Confirming(s, x)
  BY Zenon, <1>4 DEF Confirming
<1>9. Connected(c, d)
  <2>1. ASSUME NEW k \in Slots, c.ch[k].id # 0
        PROVE  ClientSlot(c, d, k)
    <3>1. ClientSlot(c, s, k)
      BY Zenon, <2>1 DEF Route, Connected
    <3>2. c.ch[k].num # 0 =>
            /\ c.ch[k].num \in Slots /\ c.ch[k].num # m
      BY Zenon, <1>1, <3>1, SlotFacts DEF ClientSlot
    <3>3. c.ch[k].num # 0 => d.ch[c.ch[k].num] = s.ch[c.ch[k].num]
      BY Zenon, <3>2 DEF Dropped
    <3> QED
      BY Zenon, <3>1, <3>3 DEF ClientSlot
  <2>2. ASSUME NEW k \in Slots, d.ch[k].id # 0
        PROVE  ServerSlot(c, d, k)
    <3>1. d.ch[k] = s.ch[k] /\ k # m
      BY Zenon, <1>4, <2>2
    <3>2. ServerSlot(c, s, k)
      BY Zenon, <2>2, <3>1, ServerSlotOf
    <3>3. s.ch[k].state # "InOpen"
      BY Zenon, <3>1, <3>2 DEF ServerSlot, Dropped
    <3> QED
      BY Zenon, <1>4, <1>8, <3>1, <3>2, <3>3 DEF ServerSlot
  <2> QED
    BY Zenon, <2>1, <2>2 DEF Route, Connected, Dropped
<1>10. ASSUME NEW j \in 1 .. Len(c.out)
       PROVE  OpenAt(c, d, j) \/ ClientAt(c, d, j)
  <2>1. c.out[j] \in Packet /\ c.out[j].id # i
    BY Zenon, <1>3, Lengths DEF Nothing
  <2>2. CASE OpenAt(c, s, j)
    <3>1. NoSlot(d, c.out[j].id)
      BY Zenon, <1>4, <2>1, <2>2 DEF OpenAt, NoSlot
    <3> QED
      BY Zenon, <1>7, <2>2, <3>1 DEF OpenAt
  <2>3. CASE ClientAt(c, s, j)
    <3>1. c.out[j].num \in Slots /\ s.ch[c.out[j].num].id # i
      BY ZenonT(60), <2>1, <2>3, PacketFacts DEF ClientAt
    <3>2. d.ch[c.out[j].num] = s.ch[c.out[j].num]
      BY Zenon, <1>4, <3>1
    <3> QED
      BY ZenonT(60), <2>3, <3>2 DEF ClientAt
  <2> QED
    BY Zenon, <2>2, <2>3 DEF Route, Addressed
<1>11. ASSUME NEW j \in 1 .. Len(d.out)
       PROVE  UnderWayTo(c, d, j)
  <2>1. /\ j \in 1 .. Len(s.out) /\ d.out[j] = s.out[j] /\ s.out[j] \in Packet
        /\ s.out[j].id # i /\ UnderWayTo(c, s, j)
    BY Zenon, <1>3, <1>4, Lengths DEF Route, Addressed, Nothing
  <2>2. /\ d.out[j].id # 0 /\ d.out[j].num # 0
        /\ c.ch[d.out[j].num].id = d.out[j].id
    BY Zenon, <2>1 DEF UnderWayTo
  <2>3. CASE RefuseAt(c, s, j)
    <3>1. NoSlot(d, s.out[j].id)
      BY Zenon, <1>4, <2>2, <2>1, <2>3 DEF RefuseAt, NoSlot
    <3>2. RefuseAt(c, d, j)
      BY Zenon, <1>4, <2>1, <2>3, <3>1 DEF RefuseAt
    <3> QED
      BY Zenon, <2>2, <3>2 DEF UnderWayTo
  <2>4. CASE ConfirmAt(c, s, j)
    <3>1. s.out[j].from \in Slots /\ s.ch[s.out[j].from].id # i
      BY ZenonT(60), <2>1, <2>4, PacketFacts DEF ConfirmAt
    <3>2. d.ch[s.out[j].from] = s.ch[s.out[j].from]
      BY Zenon, <1>4, <3>1
    <3>3. ConfirmAt(c, d, j)
      BY Zenon, <1>4, <2>1, <2>4, <3>2 DEF ConfirmAt
    <3> QED
      BY Zenon, <2>2, <3>3 DEF UnderWayTo
  <2>5. CASE ServerAt(c, s, j)
    <3>1. s.out[j].from \in Slots /\ s.ch[s.out[j].from].id # i
      BY ZenonT(60), <2>1, <2>5, PacketFacts DEF ServerAt
    <3>2. d.ch[s.out[j].from] = s.ch[s.out[j].from]
      BY Zenon, <1>4, <3>1
    <3>3. ServerAt(c, d, j)
      BY Zenon, <1>8, <2>1, <2>5, <3>2 DEF ServerAt
    <3> QED
      BY Zenon, <2>2, <3>3 DEF UnderWayTo
  <2> QED
    BY Zenon, <2>1, <2>3, <2>4, <2>5 DEF UnderWayTo
<1>12. Unmet(c, d, n)
  BY Zenon, <1>3, <1>4, <1>7 DEF Unmet, NoSlot
<1> QED
  BY Zenon, <1>2, <1>3, <1>5, <1>6, <1>9, <1>10, <1>11, <1>12
     DEF Route, Addressed, n, i

LEMMA ServerAccepts ==
  ASSUME NEW c \in EndState, NEW s \in EndState, NEW d \in EndState,
         Route(c, s), NEW m \in Slots, Accepted(s, d, m)
  PROVE  Route(c, d)
<1> DEFINE i == s.ch[m].id
           n == s.ch[m].num
<1>1. s.ch[m].state = "InOpen" /\ s.ch[m].id # 0
  BY Zenon DEF Accepted, Route, Connected, Numbered
<1>2. ServerSlot(c, s, m) /\ n \in Slots
  BY Zenon, <1>1, ServerSlotOf
<1>3. /\ c.ch[n].id = i /\ c.ch[n].state = "Opening" /\ i # 0 /\ n # 0 /\ m # 0
      /\ Nothing(c, i) /\ Nothing(s, i) /\ s.ch[m].id = i /\ s.ch[m].num = n
      /\ d.ch[m].id = i /\ d.ch[m].num = n /\ d.ch[m].state = "Normal"
  BY Zenon, <1>1, <1>2, SlotFacts DEF ServerSlot, Accepted
<1>4. \/ d.err = "BusySend" /\ d.out = s.out
      \/ /\ d.err = "ok" /\ Len(d.out) = Len(s.out) + 1
         /\ \A j \in 1 .. Len(s.out) : d.out[j] = s.out[j]
         /\ d.out[Len(d.out)].t = "Confirm" /\ d.out[Len(d.out)].num = n
         /\ d.out[Len(d.out)].id = i /\ d.out[Len(d.out)].from = m
  BY Zenon DEF Accepted
<1> HIDE DEF i, n
<1>5. \A k \in Slots :
        /\ d.ch[k].id = s.ch[k].id /\ d.ch[k].num = s.ch[k].num
        /\ k # m => d.ch[k] = s.ch[k] /\ s.ch[k].id # i
        /\ s.ch[k].id = i => k = m
        /\ s.ch[k].state # "InOpen" => k # m
        /\ d.ch[k].state # "InOpen" \/ k # m
  <2>1. \A k \in Slots : s.ch[k].id = i => k = m
    BY Zenon, <1>3 DEF Route, Numbered
  <2>2. \A k \in Slots : k # m => d.ch[k] = s.ch[k]
    BY Zenon DEF Accepted
  <2>3. d.ch[m].id = s.ch[m].id /\ d.ch[m].num = s.ch[m].num
    BY Zenon DEF Accepted
  <2>4. s.ch[m].state = "InOpen" /\ d.ch[m].state = "Normal"
    BY Zenon, <1>1, <1>3
  <2> QED
    BY Zenon, <2>1, <2>2, <2>3, <2>4
<1>6. ASSUME NEW j \in 1 .. Len(d.out)
      PROVE  \/ j \in 1 .. Len(s.out) /\ d.out[j] = s.out[j] /\ s.out[j].id # i
             \/ /\ d.out[j].t = "Confirm" /\ d.out[j].num = n
                /\ d.out[j].from = m
                /\ d.out[j].id = i /\ j = Len(d.out) /\ j > Len(s.out)
  BY <1>3, <1>4, Lengths DEF Nothing
<1>7. \A j \in 1 .. Len(s.out) : j \in 1 .. Len(d.out) /\ d.out[j] = s.out[j]
  BY <1>4, Lengths
<1>8. Numbered(d, c.nOpen)
  <2>1. \A k \in Slots :
          d.ch[k].state = "Free" \/ s.ch[k].state = "Free" =>
            d.ch[k].state = s.ch[k].state
    BY Zenon, <1>1, <1>3, <1>5
  <2> QED
    BY <1>5, <2>1 DEF Route, Numbered
<1>9. Tidy(d)
  <2>1. s.rx.num # 0 => s.rx.num \in Slots /\ s.rx.num # m
    BY Zenon, <1>1, RxFacts DEF Route, Tidy, Usual
  <2>2. s.rx.num # 0 => d.ch[s.rx.num].state \in Usual
    BY Zenon, <1>5, <2>1 DEF Route, Tidy
  <2>3. \A k \in Slots :
          /\ d.ch[k].pending # 0 \/ d.ch[k].confirmed => d.ch[k].state \in Usual
          /\ d.ch[k].state = "Opening" => ~ d.ch[k].done
    BY <1>3, <1>5 DEF Route, Tidy, Usual
  <2>4. d.rx = s.rx /\ d.err \in {"ok", "BusySend"}
    BY Zenon DEF Accepted
  <2> QED
    BY Zenon, <2>2, <2>3, <2>4 DEF Tidy
<1>10. ASSUME NEW x, x # i, Nothing(s, x)
       PROVE  Nothing(d, x)
  BY Zenon, <1>6, <1>10 DEF Nothing
<1>11. ASSUME NEW x, Confirming(s, x)
       PROVE  Confirming(d, x)
  BY Zenon, <1>7, <1>11 DEF Confirming
<1>12. ASSUME d.err = "ok"
       PROVE  Confirming(d, i)
  <2>1. Len(d.out) \in 1 .. Len(d.out)
    BY <1>4, <1>12, Lengths
  <2> QED
    BY Zenon, <1>4, <1>12, <2>1 DEF Confirming
<1>13. Connected(c, d)
  <2>1. ASSUME NEW k \in Slots, c.ch[k].id # 0
        PROVE  ClientSlot(c, d, k)
    <3>1. ClientSlot(c, s, k)
      BY Zenon, <2>1 DEF Route, Connected
    <3>2. c.ch[k].num # 0 => c.ch[k].num \in Slots /\ c.ch[k].num # m
      BY Zenon, <1>1, <3>1, SlotFacts DEF ClientSlot
    <3>3. c.ch[k].num # 0 => d.ch[c.ch[k].num] = s.ch[c.ch[k].num]
      BY Zenon, <1>5, <3>2
    <3> QED
      BY Zenon, <3>1, <3>3 DEF ClientSlot
  <2>2. ASSUME NEW k \in Slots, d.ch[k].id # 0
        PROVE  ServerSlot(c, d, k)
    <3>1. CASE k = m
      BY Zenon, <1>3, <1>12, <3>1 DEF ServerSlot, Usual
    <3>2. CASE k # m
      <4>1. d.ch[k] = s.ch[k]
        BY Zenon, <1>5, <3>2
      <4>2. ServerSlot(c, s, k)
        BY Zenon, <2>2, <4>1, ServerSlotOf
      <4>3. s.ch[k].state # "InOpen"
        BY Zenon, <3>2, <4>2 DEF ServerSlot, Accepted
      <4>4. s.err = "ok"
        BY Zenon DEF Accepted
      <4> QED
        BY Zenon, <1>11, <4>1, <4>2, <4>3, <4>4 DEF ServerSlot
    <3> QED
      BY Zenon, <3>1, <3>2
  <2> QED
    BY Zenon, <2>1, <2>2 DEF Route, Connected, Accepted
<1>14. ASSUME NEW j \in 1 .. Len(c.out)
       PROVE  OpenAt(c, d, j) \/ ClientAt(c, d, j)
  <2>1. c.out[j] \in Packet /\ c.out[j].id # i
    BY Zenon, <1>3, Lengths DEF Nothing
  <2>2. CASE OpenAt(c, s, j)
    <3>1. NoSlot(d, c.out[j].id)
      BY Zenon, <1>5, <2>2 DEF OpenAt, NoSlot
    <3>2. Nothing(d, c.out[j].id)
      BY Zenon, <1>10, <2>1, <2>2 DEF OpenAt
    <3> QED
      BY Zenon, <2>2, <3>1, <3>2 DEF OpenAt
  <2>3. CASE ClientAt(c, s, j)
    <3>1. c.out[j].num \in Slots
      BY ZenonT(60), <2>1, <2>3, PacketFacts DEF ClientAt
    <3> QED
      BY ZenonT(60), <1>5, <2>3, <3>1 DEF ClientAt
  <2> QED
    BY Zenon, <2>2, <2>3 DEF Route, Addressed
<1>15. ASSUME NEW j \in 1 .. Len(d.out)
       PROVE  UnderWayTo(c, d, j)
  <2>1. CASE /\ d.out[j].t = "Confirm" /\ d.out[j].num = n
             /\ d.out[j].from = m
             /\ d.out[j].id = i /\ j = Len(d.out) /\ j > Len(s.out)
    <3>1. \A k \in 1 .. Len(d.out) : d.out[k].id = d.out[j].id => k = j
      BY Zenon, <1>6, <2>1
    <3>2. ConfirmAt(c, d, j)
      BY Zenon, <1>3, <2>1, <3>1 DEF ConfirmAt
    <3> QED
      BY Zenon, <1>3, <2>1, <3>2 DEF UnderWayTo
  <2>2. ASSUME j \in 1 .. Len(s.out), d.out[j] = s.out[j], s.out[j].id # i
        PROVE  UnderWayTo(c, d, j)
    <3>1. /\ UnderWayTo(c, s, j) /\ s.out[j].id # 0 /\ s.out[j].num # 0
          /\ c.ch[s.out[j].num].id = s.out[j].id /\ s.out[j] \in Packet
      BY Zenon, <2>2, Lengths DEF Route, Addressed, UnderWayTo
    <3>2. ASSUME NEW k \in 1 .. Len(d.out), d.out[k].id = s.out[j].id
          PROVE  k \in 1 .. Len(s.out) /\ d.out[k] = s.out[k]
      BY Zenon, <1>6, <2>2, <3>2
    <3>3. CASE RefuseAt(c, s, j)
      <4>1. NoSlot(d, s.out[j].id)
        BY Zenon, <1>5, <3>3 DEF RefuseAt, NoSlot
      <4>2. RefuseAt(c, d, j)
        BY Zenon, <2>2, <3>2, <3>3, <4>1 DEF RefuseAt
      <4> QED
        BY Zenon, <2>2, <3>1, <4>2 DEF UnderWayTo
    <3>4. CASE ConfirmAt(c, s, j)
      <4>1. s.out[j].from \in Slots /\ s.ch[s.out[j].from].id # i
        BY Zenon, <2>2, <3>1, <3>4, PacketFacts DEF ConfirmAt
      <4>2. d.ch[s.out[j].from] = s.ch[s.out[j].from]
        BY Zenon, <1>3, <1>5, <4>1
      <4>3. ConfirmAt(c, d, j)
        BY Zenon, <2>2, <3>2, <3>4, <4>2 DEF ConfirmAt
      <4> QED
        BY Zenon, <2>2, <3>1, <4>3 DEF UnderWayTo
    <3>5. CASE ServerAt(c, s, j)
      <4>1. s.out[j].from \in Slots /\ s.ch[s.out[j].from].id # i
        BY Zenon, <2>2, <3>1, <3>5, PacketFacts DEF ServerAt
      <4>2. d.ch[s.out[j].from] = s.ch[s.out[j].from]
        BY Zenon, <1>3, <1>5, <4>1
      <4>3. ServerAt(c, d, j)
        BY Zenon, <1>11, <2>2, <3>5, <4>2 DEF ServerAt
      <4> QED
        BY Zenon, <2>2, <3>1, <4>3 DEF UnderWayTo
    <3> QED
      BY Zenon, <3>1, <3>3, <3>4, <3>5 DEF UnderWayTo
  <2> QED
    BY Zenon, <1>6, <2>1, <2>2
<1> QED
  BY Zenon, <1>8, <1>9, <1>13, <1>14, <1>15 DEF Route, Addressed

LEMMA ClientConfirms ==
  ASSUME NEW c \in EndState, NEW s \in EndState,
         NEW d \in EndState, NEW t \in EndState,
         Route(c, s), Taken(s, t), s.out[1].t = "Confirm",
         Confirms(c, d, s.out[1].num, s.out[1])
  PROVE  Route(d, t)
<1> DEFINE i == s.out[1].id
           n == s.out[1].num
           m == s.out[1].from
<1>1. 1 \in 1 .. Len(s.out) /\ s.out[1] \in Packet
  BY Lengths DEF Taken
<1>2. UnderWayTo(c, s, 1) /\ ConfirmAt(c, s, 1)
  BY Zenon, <1>1 DEF Route, Addressed, UnderWayTo, RefuseAt, ServerAt, Plain
<1>3. /\ n \in Slots /\ m \in Slots /\ i # 0 /\ m # 0
      /\ c.ch[n].id = i /\ c.ch[n].state = "Opening"
      /\ s.ch[m].id = i /\ s.ch[m].state # "InOpen" /\ Nothing(c, i)
  BY Zenon, <1>1, <1>2, PacketFacts DEF UnderWayTo, ConfirmAt
<1>4. /\ d.ch[n].state = "Normal" /\ d.ch[n].id = i /\ d.ch[n].num = m
      /\ t.ch = s.ch /\ t.rx = s.rx /\ t.ev = s.ev /\ t.err = s.err
      /\ d.rx = c.rx /\ d.ev = c.ev /\ d.err = c.err /\ d.nOpen = c.nOpen
      /\ d.out = c.out
  BY Zenon, <1>3 DEF Confirms, Taken
<1>5. \A k \in Slots :
        /\ d.ch[k].id = c.ch[k].id
        /\ c.ch[k].id = i => k = n
        /\ s.ch[k].id = i => k = m
        /\ k # n => d.ch[k] = c.ch[k] /\ c.ch[k].id # i
        /\ c.ch[k].num # 0 => d.ch[k].num # 0
  <2>1. \A k \in Slots : /\ c.ch[k].id = i => k = n
                         /\ s.ch[k].id = i => k = m
    BY Zenon, <1>3 DEF Route, Numbered
  <2>2. \A k \in Slots : k # n => d.ch[k] = c.ch[k]
    BY Zenon DEF Confirms
  <2>3. d.ch[n].id = i /\ c.ch[n].id = i /\ d.ch[n].num # 0
    BY Zenon, <1>3, <1>4
  <2> HIDE DEF i, n, m
  <2> QED
    BY Zenon, <2>1, <2>2, <2>3
<1>6. ASSUME NEW j \in 1 .. Len(t.out)
      PROVE  /\ j + 1 \in 1 .. Len(s.out) /\ t.out[j] = s.out[j + 1]
             /\ j + 1 # 1 /\ s.out[j + 1].id = i => s.out[j + 1].t \in Plain
             /\ s.out[j + 1] \in Packet
  BY <1>2, Lengths DEF Taken, ConfirmAt
<1>7. ASSUME NEW x, x # i, Confirming(s, x)
      PROVE  Confirming(t, x)
  <2>1. PICK j \in 1 .. Len(s.out) : s.out[j].t = "Confirm" /\ s.out[j].id = x
    BY Zenon, <1>7 DEF Confirming
  <2>2. j # 1
    BY Zenon, <1>7, <2>1
  <2>3. j - 1 \in 1 .. Len(t.out) /\ t.out[j - 1] = s.out[j]
    BY <2>2, Lengths DEF Taken
  <2> QED
    BY Zenon, <2>1, <2>3 DEF Confirming
<1> HIDE DEF i, n, m
<1>8. Numbered(d, d.nOpen) /\ Numbered(t, d.nOpen) /\ d.nOpen <= MaxOpen
  <2>1. \A k \in Slots :
          d.ch[k].state = "Free" \/ c.ch[k].state = "Free" =>
            d.ch[k].state = c.ch[k].state
    BY Zenon, <1>3, <1>4, <1>5
  <2> QED
    BY <1>4, <1>5, <2>1 DEF Route, Numbered
<1>9. Tidy(d) /\ Tidy(t)
  <2>1. c.rx.num # 0 => c.rx.num \in Slots /\ c.rx.num # n
    BY Zenon, <1>3, RxFacts DEF Route, Tidy, Usual
  <2>2. c.rx.num # 0 => d.ch[c.rx.num].state \in Usual
    BY Zenon, <1>5, <2>1 DEF Route, Tidy
  <2>3. \A k \in Slots :
          /\ d.ch[k].pending # 0 \/ d.ch[k].confirmed => d.ch[k].state \in Usual
          /\ d.ch[k].state = "Opening" => ~ d.ch[k].done
    BY <1>4, <1>5 DEF Route, Tidy, Usual
  <2> QED
    BY Zenon, <1>4, <2>2, <2>3 DEF Route, Tidy
<1>10. \A x : Nothing(d, x) <=> Nothing(c, x)
  BY Zenon, <1>4 DEF Nothing
<1>11. Connected(d, t)
  <2>1. ASSUME NEW k \in Slots, d.ch[k].id # 0
        PROVE  ClientSlot(d, t, k)
    <3>1. CASE k = n
      BY Zenon, <1>3, <1>4, <3>1 DEF ClientSlot, Usual
    <3>2. CASE k # n
      <4>1. d.ch[k] = c.ch[k]
        BY Zenon, <1>5, <3>2
      <4>2. ClientSlot(c, s, k)
        BY Zenon, <2>1, <4>1 DEF Route, Connected
      <4> QED
        BY Zenon, <1>4, <4>1, <4>2 DEF ClientSlot
    <3> QED
      BY Zenon, <3>1, <3>2
  <2>2. ASSUME NEW k \in Slots, t.ch[k].id # 0
        PROVE  ServerSlot(d, t, k)
    <3>1. /\ ServerSlot(c, s, k) /\ s.ch[k].num \in Slots
          /\ c.ch[s.ch[k].num].id = s.ch[k].id /\ t.ch[k] = s.ch[k]
      BY <1>4, <2>2, ServerSlotOf
    <3>2. CASE s.ch[k].num = n
      <4>1. k = m
        BY Zenon, <1>3, <1>5, <3>1, <3>2
      <4> QED
        BY Zenon, <1>3, <1>4, <3>1, <3>2, <4>1 DEF ServerSlot
    <3>3. CASE s.ch[k].num # n
      <4>1. d.ch[s.ch[k].num] = c.ch[s.ch[k].num] /\ s.ch[k].id # i
        BY Zenon, <1>5, <3>1, <3>3
      <4>2. /\ Nothing(s, s.ch[k].id) => Nothing(t, s.ch[k].id)
            /\ Confirming(s, s.ch[k].id) => Confirming(t, s.ch[k].id)
        BY <1>7, <4>1, TakenNothing
      <4>3. Nothing(c, s.ch[k].id) => Nothing(d, s.ch[k].id)
        BY Zenon, <1>10
      <4> QED
        BY Zenon, <1>4, <3>1, <4>1, <4>2, <4>3 DEF ServerSlot
    <3> QED
      BY Zenon, <3>2, <3>3
  <2> QED
    BY Zenon, <1>4, <2>1, <2>2 DEF Route, Connected
<1>12. ASSUME NEW j \in 1 .. Len(d.out)
       PROVE  OpenAt(d, t, j) \/ ClientAt(d, t, j)
  <2>1. /\ j \in 1 .. Len(c.out) /\ c.out[j] \in Packet /\ c.out[j].id # i
        /\ d.out[j] = c.out[j]
    BY Zenon, <1>3, <1>4, Lengths DEF Nothing
  <2>2. CASE OpenAt(c, s, j)
    <3>1. c.out[j].from \in Slots /\ c.out[j].from # n
      BY Zenon, <1>3, <2>1, <2>2, PacketFacts DEF OpenAt
    <3>2. d.ch[c.out[j].from] = c.ch[c.out[j].from]
      BY Zenon, <1>5, <3>1
    <3>3. Nothing(t, c.out[j].id) /\ NoSlot(t, c.out[j].id)
      BY <1>4, <2>2, TakenNothing DEF OpenAt, NoSlot
    <3> QED
      BY Zenon, <1>4, <2>1, <2>2, <3>2, <3>3 DEF OpenAt
  <2>3. CASE ClientAt(c, s, j)
    <3> DEFINE k == c.out[j].num
    <3>1. k \in Slots /\ s.ch[k].id # 0
      BY ZenonT(60), <2>1, <2>3, PacketFacts DEF ClientAt
    <3> HIDE DEF k
    <3>2. s.ch[k].num \in Slots
      BY Zenon, <3>1, ServerSlotOf
    <3>3. c.ch[s.ch[k].num].num # 0 => d.ch[s.ch[k].num].num # 0
      BY Zenon, <1>5, <3>2
    <3> USE DEF k
    <3> QED
      BY ZenonT(60), <1>4, <2>1, <2>3, <3>3 DEF ClientAt
  <2> QED
    BY Zenon, <2>1, <2>2, <2>3 DEF Route, Addressed
<1>13. ASSUME NEW j \in 1 .. Len(t.out)
       PROVE  UnderWayTo(d, t, j)
  <2>1. /\ j + 1 \in 1 .. Len(s.out) /\ t.out[j] = s.out[j + 1]
        /\ j + 1 # 1 /\ s.out[j + 1].id = i => s.out[j + 1].t \in Plain
        /\ s.out[j + 1] \in Packet
    BY Zenon, <1>6
  <2>2. /\ UnderWayTo(c, s, j + 1) /\ t.out[j] \in Packet
        /\ t.out[j].id # 0 /\ t.out[j].num # 0
        /\ c.ch[t.out[j].num].id = t.out[j].id
    BY Zenon, <2>1 DEF Route, Addressed, UnderWayTo
  <2>3. /\ t.out[j].num \in Slots /\ d.ch[t.out[j].num].id = t.out[j].id
        /\ t.out[j].id # i => d.ch[t.out[j].num] = c.ch[t.out[j].num]
        /\ t.out[j].id = i => t.out[j].num = n
    BY Zenon, <1>3, <1>5, <2>2, PacketFacts
  <2>4. ASSUME NEW k \in 1 .. Len(t.out)
        PROVE  /\ k + 1 \in 1 .. Len(s.out) /\ t.out[k] = s.out[k + 1]
               /\ k + 1 = j + 1 => k = j
               /\ k + 1 > j + 1 => k > j
    BY <1>6, Lengths
  <2>5. CASE RefuseAt(c, s, j + 1)
    <3>1. t.out[j].id # i
      BY Zenon, <2>1, <2>5 DEF RefuseAt, Plain
    <3>2. \A k \in 1 .. Len(t.out) : t.out[k].id = t.out[j].id => k = j
      BY Zenon, <2>1, <2>4, <2>5 DEF RefuseAt
    <3>3. RefuseAt(d, t, j)
      BY Zenon, <1>4, <1>10, <2>1, <2>3, <2>5, <3>1, <3>2 DEF RefuseAt, NoSlot
    <3> QED
      BY Zenon, <2>2, <2>3, <3>3 DEF UnderWayTo
  <2>6. CASE ConfirmAt(c, s, j + 1)
    <3>1. t.out[j].id # i
      BY <2>1, <2>6 DEF ConfirmAt, Plain
    <3>2. \A k \in 1 .. Len(t.out) : t.out[k].id = t.out[j].id =>
            k = j \/ (k > j /\ t.out[k].t \in Plain)
      BY ZenonT(60), <2>1, <2>4, <2>6 DEF ConfirmAt
    <3>3. ConfirmAt(d, t, j)
      BY Zenon, <1>4, <1>10, <2>1, <2>3, <2>6, <3>1, <3>2 DEF ConfirmAt
    <3> QED
      BY Zenon, <2>2, <2>3, <3>3 DEF UnderWayTo
  <2>7. CASE ServerAt(c, s, j + 1)
    <3>1. d.ch[t.out[j].num].num # 0 \/ Confirming(t, t.out[j].id)
      <4>1. CASE t.out[j].id = i
        BY Zenon, <1>3, <1>4, <2>3, <4>1
      <4>2. CASE t.out[j].id # i
        BY Zenon, <1>7, <2>1, <2>3, <2>7, <4>2 DEF ServerAt
      <4> QED
        BY Zenon, <4>1, <4>2
    <3>2. ServerAt(d, t, j)
      BY Zenon, <1>4, <2>1, <2>7, <3>1 DEF ServerAt
    <3> QED
      BY Zenon, <2>2, <2>3, <3>2 DEF UnderWayTo
  <2> QED
    BY Zenon, <2>2, <2>5, <2>6, <2>7 DEF UnderWayTo
<1> QED
  BY Zenon, <1>8, <1>9, <1>11, <1>12, <1>13 DEF Route, Addressed

LEMMA ClientGivesUp ==
  ASSUME NEW c \in EndState, NEW s \in EndState, NEW d \in EndState,
         Route(c, s), NEW n \in Slots, Unmet(c, s, n), GivenUp(c, d, n)
  PROVE  Route(d, s)
<1> DEFINE i == c.ch[n].id
<1>1. /\ NoSlot(s, i) /\ Nothing(c, i) /\ Nothing(s, i) /\ i # 0
      /\ c.ch[n].id = i /\ c.ch[n].state = "Opening" /\ d.ch[n].id = i
  BY Zenon DEF Unmet, Route, Numbered, GivenUp
<1>2. /\ d.rx = c.rx /\ d.ev = c.ev /\ d.err = c.err /\ d.nOpen = c.nOpen
      /\ d.out = c.out /\ d.ch[n].state = "PendingDone"
  BY Zenon DEF GivenUp
<1> HIDE DEF i
<1>3. \A k \in Slots :
        /\ d.ch[k].id = c.ch[k].id /\ d.ch[k].num = c.ch[k].num
        /\ c.ch[k].id # i => d.ch[k] = c.ch[k]
  BY Zenon, <1>1 DEF GivenUp
<1>4. Numbered(d, d.nOpen) /\ Numbered(s, d.nOpen) /\ d.nOpen <= MaxOpen
  <2>1. \A k \in Slots :
          d.ch[k].state = "Free" \/ c.ch[k].state = "Free" =>
            d.ch[k].state = c.ch[k].state
    BY Zenon, <1>1, <1>2 DEF GivenUp
  <2> QED
    BY <1>2, <1>3, <2>1 DEF Route, Numbered
<1>5. Tidy(d)
  <2>1. c.rx.num # 0 => c.rx.num \in Slots /\ c.rx.num # n
    BY Zenon, <1>1, RxFacts DEF Route, Tidy, Usual
  <2>2. c.rx.num # 0 => d.ch[c.rx.num].state \in Usual
    BY Zenon, <2>1 DEF Route, Tidy, GivenUp
  <2>3. \A k \in Slots :
          /\ d.ch[k].pending # 0 \/ d.ch[k].confirmed => d.ch[k].state \in Usual
          /\ d.ch[k].state = "Opening" => ~ d.ch[k].done
    BY <1>1 DEF Route, Tidy, Usual, GivenUp
  <2> QED
    BY Zenon, <1>2, <2>2, <2>3 DEF Route, Tidy
<1>6. \A x : Nothing(d, x) <=> Nothing(c, x)
  BY Zenon, <1>2 DEF Nothing
<1>7. Connected(d, s)
  <2>1. ASSUME NEW k \in Slots, d.ch[k].id # 0
        PROVE  ClientSlot(d, s, k)
    <3>1. ClientSlot(c, s, k) /\ d.ch[k].num = c.ch[k].num
      BY Zenon, <1>3, <2>1 DEF Route, Connected
    <3>2. CASE k = n
      BY Zenon, <1>1, <1>2, <3>1, <3>2 DEF ClientSlot, Usual
    <3>3. CASE k # n
      BY Zenon, <3>1, <3>3 DEF ClientSlot, GivenUp
    <3> QED
      BY Zenon, <3>2, <3>3
  <2>2. ASSUME NEW k \in Slots, s.ch[k].id # 0
        PROVE  ServerSlot(d, s, k)
    <3>1. /\ ServerSlot(c, s, k) /\ s.ch[k].num \in Slots
          /\ c.ch[s.ch[k].num].id = s.ch[k].id /\ s.ch[k].id # i
      BY <1>1, <2>2, ServerSlotOf DEF NoSlot
    <3>2. d.ch[s.ch[k].num] = c.ch[s.ch[k].num]
      BY Zenon, <1>3, <3>1
    <3> QED
      BY Zenon, <1>6, <3>1, <3>2 DEF ServerSlot
  <2> QED
    BY Zenon, <1>2, <2>1, <2>2 DEF Route, Connected
<1>8. ASSUME NEW j \in 1 .. Len(d.out)
      PROVE  OpenAt(d, s, j) \/ ClientAt(d, s, j)
  <2>1. /\ j \in 1 .. Len(c.out) /\ c.out[j] \in Packet /\ c.out[j].id # i
        /\ d.out[j] = c.out[j]
    BY Zenon, <1>1, <1>2, Lengths DEF Nothing
  <2>2. CASE OpenAt(c, s, j)
    <3>1. c.out[j].from \in Slots /\ c.ch[c.out[j].from].id # i
      BY Zenon, <2>1, <2>2, PacketFacts DEF OpenAt
    <3>2. d.ch[c.out[j].from] = c.ch[c.out[j].from]
      BY Zenon, <1>3, <3>1
    <3> QED
      BY Zenon, <1>2, <2>1, <2>2, <3>2 DEF OpenAt
  <2>3. CASE ClientAt(c, s, j)
    <3> DEFINE k == c.out[j].num
    <3>1. k \in Slots /\ s.ch[k].id # 0
      BY ZenonT(60), <2>1, <2>3, PacketFacts DEF ClientAt
    <3> HIDE DEF k
    <3>2. s.ch[k].num \in Slots
      BY Zenon, <3>1, ServerSlotOf
    <3>3. c.ch[s.ch[k].num].num # 0 => d.ch[s.ch[k].num].num # 0
      BY Zenon, <1>3, <3>2
    <3> USE DEF k
    <3> QED
      BY ZenonT(60), <2>1, <2>3, <3>3 DEF ClientAt
  <2> QED
    BY Zenon, <2>1, <2>2, <2>3 DEF Route, Addressed
<1>9. ASSUME NEW j \in 1 .. Len(s.out)
      PROVE  UnderWayTo(d, s, j)
  <2>1. UnderWayTo(c, s, j) /\ s.out[j] \in Packet /\ s.out[j].id # i
    BY Zenon, <1>1, Lengths DEF Route, Addressed, Nothing
  <2>2. s.out[j].num \in Slots /\ c.ch[s.out[j].num].id # i
    BY Zenon, <2>1, PacketFacts DEF UnderWayTo
  <2>3. d.ch[s.out[j].num] = c.ch[s.out[j].num]
    BY Zenon, <1>3, <2>2
  <2>4. Nothing(c, s.out[j].id) => Nothing(d, s.out[j].id)
    BY Zenon, <1>6
  <2> QED
    BY ZenonT(60), <2>1, <2>3, <2>4 DEF UnderWayTo, RefuseAt, ConfirmAt, ServerAt
<1> QED
  BY Zenon, <1>2, <1>4, <1>5, <1>7, <1>8, <1>9 DEF Route, Addressed
=============================================================================
