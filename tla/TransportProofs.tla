--------------------------- MODULE TransportProofs ---------------------------
(***************************************************************************)
(* Proofs about module Transport, for every size of the output buffer, of  *)
(* the deferred queue and of the byte streams, every re-key limit, strict  *)
(* key exchange or not, and any amount of data and requests.  The second   *)
(* part holds what module TransportOrderProofs rests on: what a method of  *)
(* one Runner does to the stream that its output buffer ends.              *)
(***************************************************************************)
EXTENDS Transport, TLAPS

\* A Runner in its types and within its capacities
Typed(s) ==
  /\ s \in PeerState
  /\ s.used <= OutRoom
  /\ Len(s.deferred) <= DeferCount

\* The Runner r has the key exchange and the event of s
Steady(r, s) == r.kex = s.kex /\ r.drain = s.drain /\ r.ev = s.ev

\* What sending a packet of type t does to the key exchange flags
Sent(r, s, t) ==
  /\ Typed(r) /\ Steady(r, s)
  /\ r.err = "ok" =>
       /\ s.err = "ok"
       /\ t = "KexInit" => r.sendingKex
       /\ t = "NewKeys" => ~r.sendingKex
       /\ t \notin {"KexInit", "NewKeys"} => r.sendingKex = s.sendingKex

-----------------------------------------------------------------------------
(* Sequences.                                                              *)

LEMMA Joined ==
  ASSUME NEW S, NEW a \in Seq(S), NEW b \in Seq(S)
  PROVE  /\ a \o b \in Seq(S) /\ Len(a \o b) = Len(a) + Len(b)
         /\ a \o <<>> = a
  OBVIOUS

LEMMA Listed ==
  ASSUME NEW S, NEW n \in Nat, NEW f \in [1..n -> S]
  PROVE  f \in Seq(S) /\ Len(f) = n
  OBVIOUS

LEMMA Remainder ==
  ASSUME NEW S, NEW a \in Seq(S), NEW n \in 0..Len(a)
  PROVE  /\ SubSeq(a, n + 1, Len(a)) \in Seq(S)
         /\ Len(SubSeq(a, n + 1, Len(a))) = Len(a) - n
  OBVIOUS

LEMMA SameElements ==
  ASSUME NEW S, NEW a \in Seq(S), NEW b \in Seq(S), Len(a) = Len(b),
         \A i \in 1..Len(a) : a[i] = b[i]
  PROVE  a = b
  OBVIOUS

-----------------------------------------------------------------------------
(* TrafOut and KeyState.                                                   *)

LEMMA FieldTypes ==
  ASSUME NEW s, Typed(s)
  PROVE  /\ s \in PeerState
         /\ s.out \in Seq(Packet) /\ s.deferred \in Seq(PacketTypes \X Values)
         /\ s.used \in Nat /\ s.seqE \in Nat /\ s.blkOut \in Nat
         /\ s.seqD \in Nat /\ s.blkIn \in Nat /\ s.cookies \in Nat
         /\ s.mine \in Nat /\ s.theirs \in Nat
         /\ s.nData \in Nat /\ s.nReq \in Nat
         /\ s.got \in Seq(Nat) /\ s.rep \in Seq(Nat)
         /\ s.rx \in Packet /\ s.rxs \in RxStates /\ s.enc \in Values
         /\ s.extra \in {"None", "Authenticated"}
         /\ s.used <= OutRoom /\ Len(s.deferred) <= DeferCount
         /\ s.sendingKex \in BOOLEAN /\ s.drain \in BOOLEAN
<1>1. s \in PeerState
  BY DEF Typed
<1> QED
  BY <1>1 DEF Typed, PeerState

LEMMA FailFacts ==
  ASSUME NEW s, Typed(s), NEW e \in Errors
  PROVE  /\ Typed(Fail(s, e)) /\ Steady(Fail(s, e), s)
         /\ Fail(s, e).err = e /\ Fail(s, e).sendingKex = s.sendingKex
         /\ Fail(s, e).used = s.used /\ Fail(s, e).deferred = s.deferred
  BY ZenonT(160) DEF Typed, Steady, Fail, PeerState

LEMMA FlagFacts ==
  ASSUME NEW s, Typed(s), NEW b \in BOOLEAN,
         NEW r, r = [s EXCEPT !.sendingKex = b]
  PROVE  /\ Typed(r) /\ Steady(r, s)
         /\ r.err = s.err /\ r.sendingKex = b
         /\ r.used = s.used /\ r.deferred = s.deferred
  BY ZenonT(160) DEF Typed, Steady, PeerState

LEMMA QueueFacts ==
  ASSUME NEW s, Typed(s), NEW q \in Seq(PacketTypes \X Values),
         Len(q) <= DeferCount, NEW r, r = [s EXCEPT !.deferred = q]
  PROVE  /\ Typed(r) /\ Steady(r, s)
         /\ r.err = s.err /\ r.sendingKex = s.sendingKex
  BY ZenonT(160) DEF Typed, Steady, PeerState

LEMMA EncryptFacts ==
  ASSUME NEW s, Typed(s), s.used < OutRoom,
         NEW t \in PacketTypes, NEW v \in Values
  PROVE  /\ Typed(Encrypt(s, t, v)) /\ Steady(Encrypt(s, t, v), s)
         /\ Encrypt(s, t, v).err = s.err
         /\ Encrypt(s, t, v).sendingKex = s.sendingKex
<1> DEFINE p == [t |-> t, v |-> v, k |-> s.enc, n |-> s.seqE]
           o == Append(s.out, p)
           u == s.used + 1
           n == s.seqE + 1
           b == s.blkOut + 1
<1>1. p \in Packet
  BY FieldTypes DEF Packet
<1>2. /\ s.out \in Seq(Packet) /\ s.used \in Nat
      /\ u \in Nat /\ n \in Nat /\ b \in Nat
  BY FieldTypes
<1>3. o \in Seq(Packet)
  BY <1>1, <1>2
<1>4. Encrypt(s, t, v) \in PeerState
  <2> SUFFICES [s EXCEPT !.out = o, !.used = u, !.seqE = n, !.blkOut = b]
                 \in PeerState
    BY DEF Encrypt
  <2> HIDE DEF o, u, n, b
  <2> QED
    BY ZenonT(160), <1>2, <1>3 DEF Typed, PeerState
<1>5. /\ Encrypt(s, t, v).used = s.used + 1
      /\ Encrypt(s, t, v).deferred = s.deferred
      /\ Encrypt(s, t, v).err = s.err
      /\ Encrypt(s, t, v).sendingKex = s.sendingKex
      /\ Steady(Encrypt(s, t, v), s)
  BY DEF Typed, Steady, Encrypt, PeerState
<1> QED
  BY <1>2, <1>4, <1>5, TransportAssumption DEF Typed

LEMMA TrackSendPacketFacts ==
  ASSUME NEW s, Typed(s), s.err = "ok", NEW t \in PacketTypes
  PROVE  /\ Sent(TrackSendPacket(s, t), s, t)
         /\ TrackSendPacket(s, t).used = s.used
         /\ TrackSendPacket(s, t).deferred = s.deferred
<1>1. CASE TrackSendPacket(s, t) = s /\ t \notin {"KexInit", "NewKeys"}
  BY <1>1 DEF Sent, Steady
<1>2. CASE \E e \in Errors : TrackSendPacket(s, t) = Fail(s, e) /\ e # "ok"
  BY <1>2, FailFacts DEF Sent
<1>3. CASE /\ t \in {"KexInit", "NewKeys"}
           /\ TrackSendPacket(s, t)
                = [s EXCEPT !.sendingKex = (t = "KexInit")]
  BY ZenonT(60), <1>3, FlagFacts DEF Sent
<1> QED
  BY ZenonT(60), <1>1, <1>2, <1>3 DEF TrackSendPacket, Errors

LEMMA DeferFacts ==
  ASSUME NEW s, Typed(s), NEW t \in PacketTypes, NEW v \in Values
  PROVE  /\ Typed(Defer(s, t, v)) /\ Steady(Defer(s, t, v), s)
         /\ Defer(s, t, v).err = "ok" =>
              s.err = "ok" /\ t \in Deferrable
         /\ Defer(s, t, v).sendingKex = s.sendingKex
<1> DEFINE d == Append(s.deferred, <<t, v>>)
<1>1. CASE t \in Deferrable /\ Len(s.deferred) < DeferCount
  <2>1. Defer(s, t, v) = [s EXCEPT !.deferred = d]
    BY <1>1 DEF Defer
  <2>2. /\ d \in Seq(PacketTypes \X Values) /\ Len(d) = Len(s.deferred) + 1
        /\ Len(s.deferred) \in Nat
    BY FieldTypes
  <2>3. Len(d) <= DeferCount
    BY <1>1, <2>2, TransportAssumption
  <2> HIDE DEF d
  <2> QED
    BY <1>1, <2>1, <2>2, <2>3, QueueFacts
<1>2. CASE ~(t \in Deferrable /\ Len(s.deferred) < DeferCount)
  BY <1>2, FailFacts DEF Defer, Errors
<1> QED
  BY <1>1, <1>2

LEMMA SendPacketFacts ==
  ASSUME NEW s, Typed(s), NEW t \in PacketTypes, NEW v \in Values
  PROVE  Sent(SendPacket(s, t, v), s, t)
<1> DEFINE tracked == TrackSendPacket(s, t)
<1>1. CASE s.err # "ok"
  BY <1>1 DEF SendPacket, Sent, Steady
<1>2. CASE s.err = "ok" /\ ~(t \in CatKex \/ (s.deferred = <<>> /\ ~s.sendingKex))
  BY <1>2, DeferFacts DEF SendPacket, Sent, Deferrable
<1>3. CASE s.err = "ok" /\ (t \in CatKex \/ (s.deferred = <<>> /\ ~s.sendingKex))
  <2>1. /\ Sent(tracked, s, t)
        /\ tracked.used = s.used
    BY <1>3, TrackSendPacketFacts
  <2>2. CASE tracked.err # "ok"
    BY <1>3, <2>1, <2>2 DEF SendPacket
  <2>3. CASE tracked.err = "ok" /\ s.used < OutRoom
    <3>1. SendPacket(s, t, v) = Encrypt(tracked, t, v)
      BY <1>3, <2>3 DEF SendPacket
    <3> HIDE DEF tracked
    <3> QED
      BY <2>1, <2>3, <3>1, EncryptFacts DEF Sent, Steady
  <2>4. CASE tracked.err = "ok" /\ ~(s.used < OutRoom)
    <3>1. SendPacket(s, t, v) = IF t \in CatKex THEN Fail(tracked, "Assert")
                                ELSE Defer(tracked, t, v)
      BY <1>3, <2>4 DEF SendPacket
    <3> HIDE DEF tracked
    <3> QED
      BY <2>1, <2>4, <3>1, DeferFacts, FailFacts
      DEF Sent, Steady, Errors, Deferrable
  <2> QED
    BY <2>2, <2>3, <2>4
<1> QED
  BY <1>1, <1>2, <1>3

LEMMA SendDeferredPacketsFacts ==
  ASSUME NEW s, Typed(s)
  PROVE  Sent(SendDeferredPackets(s), s, "Reply")
<1> DEFINE room  == IF s.used < OutRoom THEN OutRoom - s.used ELSE 0
           count == IF Len(s.deferred) < room THEN Len(s.deferred) ELSE room
           moved == [i \in 1..count |->
                       [t |-> s.deferred[i][1], v |-> s.deferred[i][2],
                        k |-> s.enc, n |-> s.seqE + (i - 1)]]
           o == s.out \o moved
           u == s.used + count
           n == s.seqE + count
           b == s.blkOut + count
           d == SubSeq(s.deferred, count + 1, Len(s.deferred))
<1>1. CASE s.err # "ok" \/ s.deferred = <<>>
  BY <1>1 DEF SendDeferredPackets, Sent, Steady
<1>2. CASE s.err = "ok" /\ s.deferred # <<>> /\ s.sendingKex
  BY ZenonT(60), <1>2, FailFacts DEF SendDeferredPackets, Sent, Errors
<1>3. CASE s.err = "ok" /\ s.deferred # <<>> /\ ~s.sendingKex
  <2>1. SendDeferredPackets(s) =
          [s EXCEPT !.out = o, !.used = u, !.seqE = n, !.blkOut = b,
                    !.deferred = d]
    BY <1>3 DEF SendDeferredPackets
  <2>2. /\ count \in 0..Len(s.deferred) /\ Len(s.deferred) \in Nat
        /\ u \in Nat /\ n \in Nat /\ b \in Nat /\ u <= OutRoom
    <3>1. /\ s.used \in Nat /\ s.used <= OutRoom /\ OutRoom \in Nat
          /\ s.seqE \in Nat /\ s.blkOut \in Nat /\ Len(s.deferred) \in Nat
      BY FieldTypes, TransportAssumption
    <3>2. room \in Nat /\ s.used + room <= OutRoom
      BY <3>1
    <3>3. count \in Nat /\ count <= room /\ count <= Len(s.deferred)
      <4> HIDE DEF room
      <4> QED  BY <3>1, <3>2
    <3> HIDE DEF room, count
    <3> QED
      BY SMTT(30), <3>1, <3>2, <3>3
  <2>3. moved \in Seq(Packet)
    <3> DEFINE e(i) == [t |-> s.deferred[i][1], v |-> s.deferred[i][2],
                        k |-> s.enc, n |-> s.seqE + (i - 1)]
    <3>0. count \in Nat
      BY <2>2
    <3> HIDE DEF count
    <3>1. ASSUME NEW i \in 1..count PROVE e(i) \in Packet
      <4>1. s.deferred \in Seq(PacketTypes \X Values)
        BY FieldTypes
      <4>2. i \in 1..Len(s.deferred)
        BY <2>2
      <4>3. s.deferred[i][1] \in PacketTypes /\ s.deferred[i][2] \in Values
        BY <4>1, <4>2
      <4>4. s.enc \in Values /\ s.seqE \in Nat
        BY FieldTypes
      <4>5. s.seqE + (i - 1) \in Nat
        BY <3>0, <4>4
      <4> QED
        BY <4>3, <4>4, <4>5 DEF Packet
    <3> HIDE DEF e
    <3>2. [i \in 1..count |-> e(i)] \in [1..count -> Packet]
      BY <3>1
    <3>3. [i \in 1..count |-> e(i)] \in Seq(Packet)
      BY ZenonT(60), <3>0, <3>2, Listed
    <3> QED
      BY <3>3 DEF e
  <2>4. o \in Seq(Packet)
    BY <2>3, FieldTypes, Joined
  <2>5. d \in Seq(PacketTypes \X Values) /\ Len(d) <= DeferCount
    <3>1. /\ s.deferred \in Seq(PacketTypes \X Values)
          /\ Len(s.deferred) <= DeferCount /\ DeferCount \in Nat
      BY FieldTypes, TransportAssumption
    <3> HIDE DEF count
    <3>2. /\ d \in Seq(PacketTypes \X Values)
          /\ Len(d) = Len(s.deferred) - count
      BY <2>2, <3>1, Remainder
    <3> HIDE DEF d
    <3> QED
      BY <2>2, <3>1, <3>2
  <2> HIDE DEF o, u, n, b, d
  <2>6. Typed(SendDeferredPackets(s)) /\ Steady(SendDeferredPackets(s), s)
        /\ SendDeferredPackets(s).err = s.err
        /\ SendDeferredPackets(s).sendingKex = s.sendingKex
    <3> DEFINE r == [s EXCEPT !.out = o, !.used = u, !.seqE = n,
                              !.blkOut = b, !.deferred = d]
    <3>1. Typed(r) /\ Steady(r, s) /\ r.err = s.err
          /\ r.sendingKex = s.sendingKex
      BY ONLY ZenonT(160), <2>2, <2>4, <2>5, Typed(s) DEF Typed, Steady, PeerState
    <3>2. SendDeferredPackets(s) = r
      BY <2>1
    <3> HIDE DEF r
    <3> QED
      BY <3>1, <3>2
  <2> QED
    BY <1>3, <2>6 DEF Sent
<1> QED
  BY <1>1, <1>2, <1>3, FieldTypes

-----------------------------------------------------------------------------
(* Kex.  The flags agree after every method, so long as no error has ended *)
(* the connection; an event that waits for an answer about the host key    *)
(* keeps the key exchange where the answer expects it.                     *)

KexOK(s) ==
  s.err = "ok" =>
    /\ s.sendingKex <=> IsSending(s)
    /\ s.drain <=> s.kex \in {"StartKexInit", "StartKexDH"}
    /\ s.kex # "Taken"
    /\ s.ev \in {"Hostkey", "Hostkeys"} => s.kex = "KexDH"

PeerInv(s) == Typed(s) /\ KexOK(s)

\* The Runner r differs from s in no field that the flags depend on
Alike(r, s) ==
  /\ Typed(r) /\ Steady(r, s)
  /\ r.err = s.err /\ r.sendingKex = s.sendingKex

LEMMA FailInv ==
  ASSUME NEW s, Typed(s), NEW e \in Errors \ {"ok"}
  PROVE  PeerInv(Fail(s, e))
  BY FailFacts DEF PeerInv, KexOK

LEMMA PutKex ==
  ASSUME NEW s, Typed(s), NEW k \in KexStates, NEW r, r = [s EXCEPT !.kex = k]
  PROVE  /\ Typed(r) /\ r.kex = k /\ r.err = s.err /\ r.ev = s.ev
         /\ r.drain = s.drain /\ r.sendingKex = s.sendingKex
  BY ZenonT(160) DEF Typed, PeerState

LEMMA PutDrain ==
  ASSUME NEW s, Typed(s), NEW d \in BOOLEAN, NEW r, r = [s EXCEPT !.drain = d]
  PROVE  /\ Typed(r) /\ r.kex = s.kex /\ r.err = s.err /\ r.ev = s.ev
         /\ r.drain = d /\ r.sendingKex = s.sendingKex
  BY ZenonT(160) DEF Typed, PeerState

LEMMA PutEvent ==
  ASSUME NEW s, Typed(s), NEW e \in Events, NEW r, r = [s EXCEPT !.ev = e]
  PROVE  /\ Typed(r) /\ r.kex = s.kex /\ r.err = s.err /\ r.ev = e
         /\ r.drain = s.drain /\ r.sendingKex = s.sendingKex
  BY ZenonT(160) DEF Typed, PeerState

LEMMA SetDrainFacts ==
  ASSUME NEW s, Typed(s), NEW d \in BOOLEAN
  PROVE  LET r == SetDrainOutput(s, d)
         IN  /\ Typed(r) /\ r.kex = s.kex /\ r.ev = s.ev
             /\ r.sendingKex = s.sendingKex
             /\ r.err = "ok" => s.err = "ok" /\ r.drain = d /\ s.drain # d
  BY PutDrain, FailFacts DEF SetDrainOutput, Errors, Steady

LEMMA BecomeFacts ==
  ASSUME NEW s, Typed(s), NEW k \in KexStates
  PROVE  LET r == Become(s, k)
         IN  /\ Typed(r) /\ r.err = s.err /\ r.ev = s.ev
             /\ r.drain = s.drain /\ r.sendingKex = s.sendingKex
             /\ s.err = "ok" => r.kex = k
  BY PutKex DEF Become

LEMMA StartKexInitFacts ==
  ASSUME NEW s, PeerInv(s), s.ev \notin {"Hostkey", "Hostkeys"}
  PROVE  PeerInv(StartKexInit(s)) /\ StartKexInit(s).ev = s.ev
<1>1. CASE s.kex # "Idle"
  BY <1>1, FailInv, FailFacts DEF StartKexInit, Errors, PeerInv, Steady
<1>2. CASE s.kex = "Idle"
  <2> DEFINE d == SetDrainOutput(s, TRUE)
  <2>1. /\ Typed(d) /\ d.ev = s.ev /\ d.sendingKex = s.sendingKex
        /\ d.err = "ok" => s.err = "ok" /\ d.drain = TRUE
    BY ZenonT(60), SetDrainFacts DEF PeerInv
  <2>2. StartKexInit(s) = Become(d, "StartKexInit")
    BY <1>2 DEF StartKexInit
  <2> HIDE DEF d
  <2> QED
    BY <1>2, <2>1, <2>2, BecomeFacts DEF PeerInv, KexOK, IsSending, KexStates
<1> QED
  BY <1>1, <1>2

LEMMA NewCookieFacts ==
  ASSUME NEW s, Typed(s)
  PROVE  Alike(NewCookie(s), s) /\ NewCookie(s).mine \in Nat
<1> DEFINE c == s.cookies + 1
<1>1. c \in Nat
  BY FieldTypes
<1> DEFINE r == [s EXCEPT !.cookies = c, !.mine = c]
<1>2. NewCookie(s) = r
  BY DEF NewCookie
<1> HIDE DEF c
<1>3. Alike(r, s) /\ r.mine = c
  BY ZenonT(160), <1>1 DEF Alike, Steady, Typed, PeerState
<1> HIDE DEF r
<1> QED
  BY <1>1, <1>2, <1>3

LEMMA PeerCookieFacts ==
  ASSUME NEW s, Typed(s), NEW x \in Nat, NEW b \in BOOLEAN
  PROVE  Alike([s EXCEPT !.theirs = x, !.strict = b], s)
  BY ZenonT(160) DEF Alike, Steady, Typed, PeerState

LEMMA SendKexDHInitFacts ==
  ASSUME NEW s, Typed(s)
  PROVE  Sent(SendKexDHInit(s), s, "KexDHInit")
  BY SendPacketFacts
  DEF SendKexDHInit, PacketTypes, CatKex, Values, NoValue, Sent, Steady

LEMMA KexProgressFacts ==
  ASSUME NEW s, PeerInv(s), s.err = "ok", s.ev = "None"
  PROVE  PeerInv(KexProgress(s)) /\ KexProgress(s).ev = "None"
<1> DEFINE d == SetDrainOutput(s, FALSE)
<1>d. /\ Typed(d) /\ d.kex = s.kex /\ d.ev = s.ev
      /\ d.sendingKex = s.sendingKex
      /\ d.err = "ok" => d.drain = FALSE
  BY ZenonT(60), SetDrainFacts DEF PeerInv
<1>1. CASE s.kex = "Idle"
  BY <1>1, StartKexInitFacts DEF KexProgress
<1>2. CASE s.kex = "StartKexInit" /\ IsDrained(s)
  <2> DEFINE c == NewCookie(d)
             p == SendPacket(c, "KexInit", <<c.mine, 0>>)
  <2>1. Alike(c, d) /\ c.mine \in Nat
    BY ZenonT(60), <1>d, NewCookieFacts
  <2>2. KexProgress(s) = Become(p, "KexInit")
    BY <1>2 DEF KexProgress
  <2>3. Sent(p, c, "KexInit")
    <3> HIDE DEF c
    <3> QED  BY <2>1, SendPacketFacts DEF Alike, Values, PacketTypes, CatAll
  <2> HIDE DEF p, c, d
  <2> QED
    BY <1>2, <1>d, <2>1, <2>2, <2>3, BecomeFacts
    DEF Sent, Alike, Steady, PeerInv, KexOK, IsSending, KexStates
<1>3. CASE s.kex = "StartKexDH" /\ IsDrained(s)
  <2> DEFINE c == [d EXCEPT !.kex = "Taken"]
             p == SendPacket(c, "KexInit", <<c.mine, 0>>)
             i == SendKexDHInit(p)
  <2>1. /\ Typed(c) /\ c.err = d.err /\ c.ev = d.ev /\ c.drain = d.drain
        /\ c.sendingKex = d.sendingKex
    <3> HIDE DEF d
    <3> QED  BY <1>d, PutKex DEF KexStates
  <2>2. KexProgress(s) = Become(i, "KexDH")
    BY <1>3 DEF KexProgress
  <2>3. Sent(p, c, "KexInit")
    <3>1. <<c.mine, 0>> \in Values
      <4> HIDE DEF c
      <4> QED  BY <2>1, FieldTypes DEF Values
    <3> HIDE DEF c
    <3> QED  BY <2>1, <3>1, SendPacketFacts DEF PacketTypes, CatAll
  <2>4. Sent(i, p, "KexDHInit")
    BY <2>3, SendKexDHInitFacts DEF Sent
  <2> HIDE DEF i, p, c, d
  <2> QED
    BY <1>3, <1>d, <2>1, <2>2, <2>3, <2>4, BecomeFacts
    DEF Sent, Steady, PeerInv, KexOK, IsSending, KexStates
<1>4. CASE /\ s.kex \in {"StartKexInit", "StartKexDH"} => ~IsDrained(s)
           /\ s.kex # "Idle"
  BY ZenonT(60), <1>4 DEF KexProgress, PeerInv, KexOK
<1> QED
  BY <1>1, <1>2, <1>3, <1>4

LEMMA HandleKexInitFacts ==
  ASSUME NEW s, PeerInv(s), s.err = "ok", s.ev = "None"
  PROVE  PeerInv(HandleKexInit(s)) /\ HandleKexInit(s).ev = "None"
<1> DEFINE start   == s.kex # "KexInit"
           cookie  == IF start THEN NewCookie(s) ELSE s
           x       == s.rx.v[1]
           b       == cookie.strict \/ (IsFirstKex(s) /\ Strict)
           known   == [cookie EXCEPT !.theirs = x, !.strict = b]
           drained == IF s.kex = "Idle" THEN SetDrainOutput(known, TRUE)
                      ELSE known
<1>1. CASE \/ s.kex \notin {"KexInit", "Idle", "StartKexInit"}
           \/ IsFirstKex(s) /\ Strict /\ s.seqD # 1
  <2>1. HandleKexInit(s) = Fail(s, "PacketWrong")
    BY ZenonT(60), <1>1 DEF HandleKexInit
  <2>2. Typed(s) /\ "PacketWrong" \in Errors \ {"ok"}
    BY DEF PeerInv, Errors
  <2> QED
    BY <2>1, <2>2, FailInv, FailFacts DEF Steady
<1>2. CASE ~ (\/ s.kex \notin {"KexInit", "Idle", "StartKexInit"}
              \/ IsFirstKex(s) /\ Strict /\ s.seqD # 1)
  <2>1. HandleKexInit(s) = IF start THEN Become(drained, "StartKexDH")
                           ELSE Become(SendKexDHInit(known), "KexDH")
    BY ZenonT(60), <1>2 DEF HandleKexInit
  <2>2. Alike(cookie, s)
    BY NewCookieFacts DEF Alike, Steady, PeerInv
  <2>3. x \in Nat
    <3>1. s.rx \in Packet
      BY FieldTypes DEF PeerInv
    <3> QED
      BY <3>1 DEF Packet, Values
  <2>4. b \in BOOLEAN
    OBVIOUS
  <2> HIDE DEF b, x, cookie
  <2>5. Alike(known, s)
    <3>1. Typed(cookie)
      BY <2>2 DEF Alike
    <3>2. Alike(known, cookie)
      BY ZenonT(60), <2>3, <2>4, <3>1, PeerCookieFacts
    <3> HIDE DEF known
    <3> QED
      BY <2>2, <3>2 DEF Alike, Steady
  <2> HIDE DEF known
  <2>6. CASE start
    <3>1. CASE s.kex = "Idle"
      <4>1. drained = SetDrainOutput(known, TRUE)
        BY <3>1
      <4>2. /\ Typed(drained) /\ drained.ev = s.ev
            /\ drained.sendingKex = s.sendingKex
            /\ drained.err = "ok" => drained.drain = TRUE
        <5> HIDE DEF drained
        <5> QED
          BY ZenonT(60), <2>5, <4>1, SetDrainFacts DEF Alike, Steady
      <4> HIDE DEF drained
      <4> QED
        BY <2>1, <2>6, <3>1, <4>2, BecomeFacts
        DEF PeerInv, KexOK, IsSending, KexStates
    <3>2. CASE s.kex # "Idle"
      <4>1. Alike(drained, s)
        BY <2>5, <3>2
      <4> HIDE DEF drained
      <4> QED
        BY <1>2, <2>1, <2>6, <3>2, <4>1, BecomeFacts
        DEF Alike, Steady, PeerInv, KexOK, IsSending, KexStates
    <3> QED
      BY <3>1, <3>2
  <2>7. CASE ~start
    <3>1. Sent(SendKexDHInit(known), known, "KexDHInit")
      BY <2>5, SendKexDHInitFacts DEF Alike
    <3> QED
      BY <1>2, <2>1, <2>5, <2>7, <3>1, BecomeFacts
      DEF Sent, Alike, Steady, PeerInv, KexOK, IsSending, KexStates
  <2> QED
    BY <2>6, <2>7
<1> QED
  BY <1>1, <1>2

LEMMA KexHashType ==
  ASSUME NEW s, Typed(s)
  PROVE  KexHash(s) \in Values
<1>1. s.mine \in Nat /\ s.theirs \in Nat
  BY FieldTypes
<1> QED
  BY <1>1 DEF KexHash, Values

LEMMA RekeyFacts ==
  ASSUME NEW s, Typed(s), NEW key \in Values
  PROVE  Alike(RekeySend(s, key), s) /\ Alike(RekeyRecv(s, key), s)
<1> DEFINE e == IF s.strict THEN 0 ELSE s.seqE
           d == IF s.strict THEN 0 ELSE s.seqD
           r1 == [s EXCEPT !.enc = key, !.seqE = e, !.blkOut = 0]
           r2 == [s EXCEPT !.dec = key, !.seqD = d, !.blkIn = 0]
<1>1. e \in Nat /\ d \in Nat
  BY FieldTypes
<1>2. RekeySend(s, key) = r1 /\ RekeyRecv(s, key) = r2
  BY DEF RekeySend, RekeyRecv
<1> HIDE DEF e, d
<1>3. Alike(r1, s)
  BY ZenonT(160), <1>1 DEF Alike, Steady, Typed, PeerState
<1>4. Alike(r2, s)
  BY ZenonT(160), <1>1 DEF Alike, Steady, Typed, PeerState
<1> HIDE DEF r1, r2
<1> QED
  BY <1>2, <1>3, <1>4

LEMMA HandleNewKeysFacts ==
  ASSUME NEW s, PeerInv(s), s.err = "ok", s.ev = "None"
  PROVE  PeerInv(HandleNewKeys(s)) /\ HandleNewKeys(s).ev = "None"
<1> Typed(s)
  BY DEF PeerInv
<1>1. CASE s.kex # "NewKeys"
  <2> DEFINE c == [s EXCEPT !.kex = "Taken"]
  <2>1. Typed(c) /\ c.ev = s.ev
    BY PutKex DEF KexStates
  <2>2. HandleNewKeys(s) = Fail(c, "PacketWrong")
    BY <1>1 DEF HandleNewKeys
  <2> HIDE DEF c
  <2>3. "PacketWrong" \in Errors \ {"ok"}
    BY DEF Errors
  <2> QED
    BY <2>1, <2>2, <2>3, FailInv, FailFacts DEF Steady
<1>2. CASE s.kex = "NewKeys"
  <2> DEFINE c == RekeyRecv(s, KexHash(s))
             r == [c EXCEPT !.kex = "Idle"]
  <2>1. Alike(c, s)
    BY RekeyFacts, KexHashType
  <2>2. HandleNewKeys(s) = r
    BY <1>2 DEF HandleNewKeys
  <2> HIDE DEF c
  <2>3. /\ Typed(r) /\ r.kex = "Idle" /\ r.err = c.err /\ r.ev = c.ev
        /\ r.drain = c.drain /\ r.sendingKex = c.sendingKex
    BY <2>1, PutKex DEF Alike, KexStates
  <2> HIDE DEF r
  <2> QED
    BY <1>2, <2>1, <2>2, <2>3
    DEF Alike, Steady, PeerInv, KexOK, IsSending
<1> QED
  BY <1>1, <1>2

LEMMA SendNewKeysFacts ==
  ASSUME NEW s, Typed(s)
  PROVE  LET r == SendNewKeys(s)
         IN  /\ Typed(r) /\ r.drain = s.drain /\ r.ev = s.ev
             /\ r.err = "ok" => ~r.sendingKex /\ r.kex = "NewKeys"
<1> DEFINE sent == SendPacket(s, "NewKeys", NoValue)
           c == [sent EXCEPT !.sess = TRUE]
           k == RekeySend(c, KexHash(s))
<1>1. Sent(sent, s, "NewKeys")
  BY SendPacketFacts DEF PacketTypes, CatKex, Values, NoValue
<1>2. CASE sent.err # "ok"
  BY <1>1, <1>2 DEF SendNewKeys, Sent, Steady
<1>3. CASE sent.err = "ok"
  <2>1. SendNewKeys(s) = Become(k, "NewKeys")
    BY <1>3 DEF SendNewKeys
  <2> HIDE DEF sent
  <2>2. Alike(c, sent)
    BY ZenonT(160), <1>1 DEF Sent, Alike, Steady, Typed, PeerState
  <2> HIDE DEF c
  <2>3. Alike(k, c)
    BY <2>2, RekeyFacts, KexHashType DEF Alike
  <2> HIDE DEF k
  <2> QED
    BY <1>1, <1>3, <2>1, <2>2, <2>3, BecomeFacts
    DEF Alike, Steady, Sent, KexStates
<1> QED
  BY <1>2, <1>3

LEMMA DoneEventFacts ==
  ASSUME NEW s, Typed(s)
  PROVE  LET r == DoneEvent(s)
         IN  /\ Typed(r) /\ r.kex = s.kex /\ r.err = s.err /\ r.ev = "None"
             /\ r.drain = s.drain /\ r.sendingKex = s.sendingKex
<1> DEFINE x == IF s.rxs = "InPayload" THEN "Idle" ELSE s.rxs
           r == [s EXCEPT !.ev = "None", !.rxs = x]
<1>1. x \in RxStates
  BY FieldTypes DEF RxStates
<1>2. DoneEvent(s) = r
  BY DEF DoneEvent
<1> HIDE DEF x
<1>3. /\ Typed(r) /\ r.kex = s.kex /\ r.err = s.err /\ r.ev = "None"
      /\ r.drain = s.drain /\ r.sendingKex = s.sendingKex
  BY ZenonT(160), <1>1 DEF Typed, PeerState, Events
<1> HIDE DEF r
<1> QED
  BY <1>2, <1>3

LEMMA ResumeCheckHostkeyInv ==
  ASSUME NEW s, PeerInv(s), s.err = "ok", s.ev = "Hostkey"
  PROVE  PeerInv(ResumeCheckHostkey(s, TRUE))
<1> DEFINE c == [s EXCEPT !.kex = "Taken"]
           n == SendNewKeys(c)
<1>1. /\ Typed(c) /\ c.drain = s.drain
      /\ s.kex = "KexDH"
  BY PutKex DEF KexStates, PeerInv, KexOK
<1>2. CASE s.rx.v # KexHash(s)
  <2>1. ResumeCheckHostkey(s, TRUE) = Fail(c, "BadSig")
    BY <1>2 DEF ResumeCheckHostkey
  <2> HIDE DEF c
  <2> QED
    BY ZenonT(60), <1>1, <2>1, FailInv DEF Errors
<1>3. CASE s.rx.v = KexHash(s)
  <2>1. ResumeCheckHostkey(s, TRUE) = DoneEvent(n)
    BY <1>3 DEF ResumeCheckHostkey
  <2> HIDE DEF c
  <2>2. /\ Typed(n) /\ n.drain = s.drain
        /\ n.err = "ok" => ~n.sendingKex /\ n.kex = "NewKeys"
    BY <1>1, SendNewKeysFacts
  <2> HIDE DEF n
  <2>3. n.drain = FALSE
    BY <1>1, <2>2 DEF PeerInv, KexOK
  <2> QED
    BY ZenonT(60), <2>1, <2>2, <2>3, DoneEventFacts
    DEF PeerInv, KexOK, IsSending
<1> QED
  BY ZenonT(60), <1>2, <1>3

LEMMA ResumeServHostkeysInv ==
  ASSUME NEW s, PeerInv(s), s.err = "ok", s.ev = "Hostkeys"
  PROVE  PeerInv(ResumeServHostkeys(s))
<1> DEFINE c == [s EXCEPT !.kex = "Taken"]
           h == KexHash(s)
           reply == SendPacket(c, "KexDHReply", h)
           keyed == SendNewKeys(reply)
           info == IF IsFirstKex(s) THEN SendExtInfo(keyed) ELSE keyed
<1>1. /\ Typed(c) /\ c.drain = s.drain
      /\ s.kex = "KexDH" /\ h \in Values
  BY PutKex, KexHashType DEF KexStates, PeerInv, KexOK
<1>2. ResumeServHostkeys(s) = DoneEvent(info)
  BY DEF ResumeServHostkeys
<1> HIDE DEF c, h
<1>3. Sent(reply, c, "KexDHReply")
  BY <1>1, SendPacketFacts DEF PacketTypes, CatKex
<1> HIDE DEF reply
<1>4. /\ Typed(keyed) /\ keyed.drain = s.drain
      /\ keyed.err = "ok" => ~keyed.sendingKex /\ keyed.kex = "NewKeys"
  BY <1>1, <1>3, SendNewKeysFacts DEF Sent, Steady
<1> HIDE DEF keyed
<1>5. Sent(info, keyed, "ExtInfo")
  BY <1>4, SendPacketFacts
  DEF SendExtInfo, PacketTypes, CatAll, Values, NoValue, Sent, Steady
<1> HIDE DEF info
<1> QED
  BY <1>1, <1>2, <1>4, <1>5, DoneEventFacts
  DEF PeerInv, KexOK, IsSending, Sent, Steady

-----------------------------------------------------------------------------
(* Conn.                                                                   *)

LEMMA AlikeInv ==
  ASSUME NEW s, PeerInv(s), NEW r, Alike(r, s)
  PROVE  PeerInv(r)
  BY DEF PeerInv, Alike, Steady, KexOK, IsSending

\* Fields that neither the flags nor the capacities depend on
LEMMA OtherFields ==
  ASSUME NEW s, Typed(s)
  PROVE  /\ \A x \in RxStates :
              Alike([s EXCEPT !.rxs = x], s)
         /\ \A x \in Seq(Nat) :
              Alike([s EXCEPT !.rep = x], s)
         /\ \A x \in RxStates, y \in Seq(Nat) :
              Alike([s EXCEPT !.rxs = x, !.got = y], s)
         /\ \A x \in BOOLEAN :
              Alike([s EXCEPT !.ver = x], s)
         /\ \A x \in BOOLEAN :
              Alike([s EXCEPT !.idled = x], s)
         /\ \A x \in Nat :
              Alike([s EXCEPT !.nData = x], s)
         /\ \A x \in Nat :
              Alike([s EXCEPT !.nReq = x], s)
         /\ \A x \in ConnStates, y \in BOOLEAN :
              Alike([s EXCEPT !.conn = x, !.idled = y], s)
         /\ \A x \in ConnStates :
              Alike([s EXCEPT !.conn = x, !.extra = "Authenticated"], s)
<1>1. ASSUME NEW x \in RxStates
      PROVE  Alike([s EXCEPT !.rxs = x], s)
  BY ZenonT(160) DEF Alike, Steady, Typed, PeerState
<1>2. ASSUME NEW x \in Seq(Nat)
      PROVE  Alike([s EXCEPT !.rep = x], s)
  BY ZenonT(160) DEF Alike, Steady, Typed, PeerState
<1>3. ASSUME NEW x \in RxStates, NEW y \in Seq(Nat)
      PROVE  Alike([s EXCEPT !.rxs = x, !.got = y], s)
  BY ZenonT(160) DEF Alike, Steady, Typed, PeerState
<1>4. ASSUME NEW x \in BOOLEAN
      PROVE  Alike([s EXCEPT !.ver = x], s)
  BY ZenonT(160) DEF Alike, Steady, Typed, PeerState
<1>5. ASSUME NEW x \in BOOLEAN
      PROVE  Alike([s EXCEPT !.idled = x], s)
  BY ZenonT(160) DEF Alike, Steady, Typed, PeerState
<1>6. ASSUME NEW x \in Nat
      PROVE  Alike([s EXCEPT !.nData = x], s)
  BY ZenonT(160) DEF Alike, Steady, Typed, PeerState
<1>7. ASSUME NEW x \in Nat
      PROVE  Alike([s EXCEPT !.nReq = x], s)
  BY ZenonT(160) DEF Alike, Steady, Typed, PeerState
<1>8. ASSUME NEW x \in ConnStates, NEW y \in BOOLEAN
      PROVE  Alike([s EXCEPT !.conn = x, !.idled = y], s)
  BY ZenonT(160) DEF Alike, Steady, Typed, PeerState
<1>9. ASSUME NEW x \in ConnStates
      PROVE  Alike([s EXCEPT !.conn = x, !.extra = "Authenticated"], s)
  BY ZenonT(160) DEF Alike, Steady, Typed, PeerState
<1> QED
  BY ZenonT(60), <1>1, <1>2, <1>3, <1>4, <1>5, <1>6, <1>7, <1>8, <1>9

LEMMA SendInv ==
  ASSUME NEW s, PeerInv(s), NEW v \in Values,
         NEW t \in PacketTypes \ {"KexInit", "NewKeys"}
  PROVE  /\ PeerInv(SendPacket(s, t, v))
         /\ SendPacket(s, t, v).ev = s.ev
<1>1. Sent(SendPacket(s, t, v), s, t)
  BY SendPacketFacts DEF PeerInv
<1> QED
  BY <1>1 DEF Sent, Steady, PeerInv, KexOK, IsSending

LEMMA PacketValue ==
  ASSUME NEW s, Typed(s)
  PROVE  s.rx.v \in Values /\ s.rx.v[1] \in Nat
<1>1. s.rx \in Packet
  BY FieldTypes
<1> QED
  BY <1>1 DEF Packet, Values

LEMMA EventInv ==
  ASSUME NEW s, PeerInv(s), NEW e \in Events,
         e \in {"Hostkey", "Hostkeys"} => s.kex = "KexDH"
  PROVE  PeerInv([s EXCEPT !.ev = e])
<1> DEFINE r == [s EXCEPT !.ev = e]
<1>1. /\ Typed(r) /\ r.kex = s.kex /\ r.err = s.err /\ r.ev = e
      /\ r.drain = s.drain /\ r.sendingKex = s.sendingKex
  BY PutEvent DEF PeerInv
<1> HIDE DEF r
<1>2. PeerInv(r)
  BY <1>1 DEF PeerInv, KexOK, IsSending
<1> QED
  BY <1>2 DEF r

LEMMA DispatchPacketInv ==
  ASSUME NEW s, PeerInv(s), s.err = "ok", s.ev = "None"
  PROVE  PeerInv(DispatchPacket(s))
<1> Typed(s)
  BY DEF PeerInv
<1>1. /\ "SSHProto" \in Errors \ {"ok"} /\ "PacketWrong" \in Errors \ {"ok"}
      /\ NoValue \in Values /\ s.rx.v \in Values /\ s.rx.v[1] \in Nat
  BY PacketValue DEF Errors, Values, NoValue
<1>2. PeerInv(Fail(s, "SSHProto")) /\ PeerInv(Fail(s, "PacketWrong"))
  BY <1>1, FailInv
<1>3. PeerInv(HandleKexInit(s)) /\ PeerInv(HandleNewKeys(s))
  BY HandleKexInitFacts, HandleNewKeysFacts
<1>4. PeerInv(HandleKexDHInit(s)) /\ PeerInv(HandleKexDHReply(s))
  <2>1. s.kex = "KexDH" => /\ PeerInv([s EXCEPT !.ev = "Hostkeys"])
                           /\ PeerInv([s EXCEPT !.ev = "Hostkey"])
    BY ZenonT(60), EventInv DEF Events, Resumable
  <2> QED
    BY <1>2, <2>1 DEF HandleKexDHInit, HandleKexDHReply
<1>5. PeerInv(ServiceRequest(s))
  BY <1>1, <1>2, SendInv DEF ServiceRequest, PacketTypes, CatAuth
<1>6. PeerInv(UserauthRequest(s))
  <2>1. PeerInv([s EXCEPT !.ev = "FirstAuth"])
    BY ZenonT(60), EventInv DEF Events, Resumable
  <2>2. PeerInv(SendPacket(s, "UserauthSuccess", NoValue))
    BY <1>1, SendInv DEF PacketTypes, CatAuth
  <2> QED
    BY <1>2, <2>1, <2>2 DEF UserauthRequest
<1>7. PeerInv(UserauthSuccess(s))
  <2> DEFINE r == [s EXCEPT !.conn = "Authed", !.ev = "Authenticated"]
  <2>1. /\ Typed(r) /\ r.kex = s.kex /\ r.err = s.err
        /\ r.ev = "Authenticated"
        /\ r.drain = s.drain /\ r.sendingKex = s.sendingKex
    BY ZenonT(160) DEF Typed, PeerState, Events, ConnStates
  <2>2. PeerInv(r)
    <3> HIDE DEF r
    <3> QED  BY <2>1 DEF PeerInv, KexOK, IsSending
  <2> QED
    BY <1>2, <2>2 DEF UserauthSuccess
<1>8. PeerInv([s EXCEPT !.rxs = "InChannelData"])
  BY ZenonT(60), OtherFields, AlikeInv DEF RxStates
<1>9. PeerInv(SendPacket(s, "Reply", s.rx.v))
  BY <1>1, SendInv DEF PacketTypes, CatSess
<1>10. PeerInv([s EXCEPT !.rep = Append(s.rep, s.rx.v[1])])
  <2>1. Append(s.rep, s.rx.v[1]) \in Seq(Nat)
    <3>1. s.rep \in Seq(Nat)
      BY FieldTypes
    <3> QED  BY <1>1, <3>1
  <2> QED
    BY ZenonT(60), <2>1, OtherFields, AlikeInv
<1> QED
  BY <1>2, <1>3, <1>4, <1>5, <1>6, <1>7, <1>8, <1>9, <1>10 DEF DispatchPacket

LEMMA ConnProgressInv ==
  ASSUME NEW s, PeerInv(s), s.err = "ok", s.ev = "None"
  PROVE  PeerInv(ConnProgress(s))
<1> Typed(s)
  BY DEF PeerInv
<1>1. CASE s.conn = "SendIdent"
  <2> DEFINE o == Append(s.out, Nothing)
             i == [s EXCEPT !.out = o, !.used = 1]
             k == StartKexInit(i)
             r == [k EXCEPT !.conn = "ReceiveIdent", !.idled = FALSE]
  <2>1. ConnProgress(s) = r
    BY <1>1 DEF ConnProgress
  <2>2. o \in Seq(Packet)
    <3>1. Nothing \in Packet
      BY DEF Nothing, Packet, PacketTypes, Values, NoValue, Cleartext
    <3> QED  BY <3>1, FieldTypes
  <2> HIDE DEF o
  <2>3. Alike(i, s)
    <3>1. 1 <= OutRoom
      BY TransportAssumption
    <3> QED  BY ZenonT(160), <2>2, <3>1 DEF Alike, Steady, Typed, PeerState
  <2>4. PeerInv(i) /\ i.ev = "None"
    <3> HIDE DEF i
    <3> QED  BY <2>3, AlikeInv DEF Alike, Steady
  <2> HIDE DEF i
  <2>5. PeerInv(k)
    BY <2>4, StartKexInitFacts
  <2> HIDE DEF k
  <2>6. Alike(r, k)
    BY ZenonT(60), <2>5, OtherFields DEF PeerInv, ConnStates
  <2> HIDE DEF r
  <2> QED
    BY <2>1, <2>5, <2>6, AlikeInv
<1>2. CASE /\ s.conn # "SendIdent"
           /\ \/ s.conn = "ReceiveIdent" /\ s.ver
              \/ s.conn = "FirstKex" /\ s.sess
  <2> PICK x \in ConnStates :
        ConnProgress(s) = [s EXCEPT !.conn = x, !.idled = FALSE]
    BY <1>2 DEF ConnProgress, ConnStates
  <2> QED
    BY ZenonT(60), OtherFields, AlikeInv
<1>3. CASE s.conn = "PreAuth" /\ s.cli /\ ~s.auth
  <2> DEFINE r == [s EXCEPT !.ev = "Username", !.auth = TRUE]
  <2>1. ConnProgress(s) = r
    BY <1>3 DEF ConnProgress
  <2>2. /\ Typed(r) /\ r.kex = s.kex /\ r.err = s.err /\ r.ev = "Username"
        /\ r.drain = s.drain /\ r.sendingKex = s.sendingKex
    BY ZenonT(160) DEF Typed, PeerState, Events, Resumable
  <2> HIDE DEF r
  <2> QED
    BY <2>1, <2>2 DEF PeerInv, KexOK, IsSending
<1>4. CASE /\ s.conn # "SendIdent"
           /\ ~ (s.conn = "ReceiveIdent" /\ s.ver)
           /\ ~ (s.conn = "FirstKex" /\ s.sess)
           /\ ~ (s.conn = "PreAuth" /\ s.cli /\ ~s.auth)
  BY <1>4 DEF ConnProgress
<1> QED
  BY <1>1, <1>2, <1>3, <1>4

-----------------------------------------------------------------------------
(* Runner.                                                                 *)

LEMMA DoneEventInv ==
  ASSUME NEW s, PeerInv(s)
  PROVE  PeerInv(DoneEvent(s))
  BY DoneEventFacts DEF PeerInv, KexOK, IsSending

LEMMA BeginProgressInv ==
  ASSUME NEW s, PeerInv(s), s.err = "ok", s.ev \notin Resumable
  PROVE  PeerInv(BeginProgress(s))
<1> Typed(s)
  BY DEF PeerInv
<1>1. CASE s.extra # "None"
  <2> DEFINE r == [s EXCEPT !.ev = "Authenticated", !.extra = "None",
                            !.idled = FALSE]
  <2>1. s.extra = "Authenticated"
    BY <1>1, FieldTypes
  <2>2. BeginProgress(s) = r
    BY <2>1 DEF BeginProgress
  <2>3. /\ Typed(r) /\ r.kex = s.kex /\ r.err = s.err
        /\ r.ev = "Authenticated"
        /\ r.drain = s.drain /\ r.sendingKex = s.sendingKex
    BY ZenonT(160) DEF Typed, PeerState, Events
  <2> HIDE DEF r
  <2> QED
    BY <2>2, <2>3 DEF PeerInv, KexOK, IsSending
<1>2. CASE s.extra = "None"
  <2> DEFINE d == IF s.ev # "None" THEN DoneEvent(s) ELSE s
             ready == [d EXCEPT !.idled = TRUE]
  <2>1. BeginProgress(s) = IF IsSending(ready) THEN ready
                           ELSE SendDeferredPackets(ready)
    BY <1>2 DEF BeginProgress
  <2>2. PeerInv(d)
    BY DoneEventInv
  <2> HIDE DEF d
  <2>3. PeerInv(ready)
    BY ZenonT(60), <2>2, OtherFields, AlikeInv DEF PeerInv
  <2> HIDE DEF ready
  <2>4. PeerInv(SendDeferredPackets(ready))
    BY <2>3, SendDeferredPacketsFacts
    DEF PeerInv, KexOK, IsSending, Sent, Steady
  <2> QED
    BY <2>1, <2>3, <2>4
<1> QED
  BY <1>1, <1>2

LEMMA HandlePayloadInv ==
  ASSUME NEW s, PeerInv(s)
  PROVE  PeerInv(HandlePayload(s))
<1> DEFINE d == DispatchPacket(s)
<1>1. CASE Running(s) /\ s.rxs = "InPayload"
  <2>1. HandlePayload(s) = IF Running(d) THEN DoneEvent(d) ELSE d
    BY <1>1 DEF HandlePayload
  <2>2. PeerInv(d)
    BY <1>1, DispatchPacketInv DEF Running
  <2> HIDE DEF d
  <2> QED
    BY <2>1, <2>2, DoneEventInv
<1>2. CASE ~(Running(s) /\ s.rxs = "InPayload")
  BY <1>2 DEF HandlePayload
<1> QED
  BY <1>1, <1>2

LEMMA RunnerInputInv ==
  ASSUME NEW s, PeerInv(s), NEW pkt \in Packet
  PROVE  PeerInv(RunnerInput(s, pkt))
<1> Typed(s)
  BY DEF PeerInv
<1> DEFINE n == s.seqD + 1
           b == s.blkIn + 1
           r == [s EXCEPT !.rx = pkt, !.rxs = "InPayload",
                          !.seqD = n, !.blkIn = b]
<1>1. n \in Nat /\ b \in Nat
  BY FieldTypes
<1>2. RunnerInput(s, pkt) \in {[s EXCEPT !.ver = TRUE],
                               Fail(s, "BadDecrypt"), r}
  BY DEF RunnerInput
<1> HIDE DEF n, b
<1>3. Alike(r, s)
  BY ZenonT(160), <1>1 DEF Alike, Steady, Typed, PeerState, RxStates
<1> HIDE DEF r
<1>4. PeerInv(r) /\ PeerInv([s EXCEPT !.ver = TRUE])
  BY ZenonT(60), <1>3, OtherFields, AlikeInv
<1>5. PeerInv(Fail(s, "BadDecrypt"))
  BY FailInv DEF Errors
<1> QED
  BY ZenonT(60), <1>2, <1>4, <1>5

LEMMA ConsumeOutputInv ==
  ASSUME NEW s, PeerInv(s), s.out # <<>>
  PROVE  PeerInv(ConsumeOutput(s)) /\ Head(s.out) \in Packet
<1> Typed(s)
  BY DEF PeerInv
<1> DEFINE o == Tail(s.out)
           u == IF Len(s.out) = 1 THEN 0 ELSE s.used
           r == [s EXCEPT !.out = o, !.used = u]
<1>1. ConsumeOutput(s) = r
  BY DEF ConsumeOutput
<1>2. o \in Seq(Packet) /\ Head(s.out) \in Packet
  BY FieldTypes
<1>3. u \in Nat /\ u <= OutRoom
  BY FieldTypes, TransportAssumption
<1> HIDE DEF o, u
<1>4. Alike(r, s)
  BY ZenonT(160), <1>2, <1>3 DEF Alike, Steady, Typed, PeerState
<1> HIDE DEF r
<1> QED
  BY <1>1, <1>2, <1>4, AlikeInv

LEMMA ResumeUsernameInv ==
  ASSUME NEW s, PeerInv(s)
  PROVE  PeerInv(ResumeUsername(s))
  BY DoneEventInv, SendInv
  DEF ResumeUsername, PacketTypes, CatAuth, Values, NoValue

LEMMA ResumeServAuthInv ==
  ASSUME NEW s, PeerInv(s)
  PROVE  PeerInv(ResumeServAuth(s))
<1> DEFINE sent == SendPacket(s, "UserauthSuccess", NoValue)
           r == [sent EXCEPT !.conn = "Authed", !.extra = "Authenticated"]
<1>1. ResumeServAuth(s) = DoneEvent(IF sent.err = "ok" THEN r ELSE sent)
  BY DEF ResumeServAuth
<1>2. PeerInv(sent)
  BY SendInv DEF PacketTypes, CatAuth, Values, NoValue
<1> HIDE DEF sent
<1>3. PeerInv(r)
  BY ZenonT(60), <1>2, OtherFields, AlikeInv DEF PeerInv, ConnStates
<1> HIDE DEF r
<1> QED
  BY <1>1, <1>2, <1>3, DoneEventInv

-----------------------------------------------------------------------------
(* The two Runners and the streams between them.                           *)

Inv ==
  /\ peer \in [Peers -> PeerState]
  /\ \A p \in Peers : PeerInv(peer[p])
  /\ net \in [Peers -> Seq(Packet)]
  /\ \A p \in Peers : Len(net[p]) <= NetRoom

\* What an action that replaces the Runner of p has to show
LEMMA SetInv ==
  ASSUME Inv, NEW p \in Peers, NEW s, PeerInv(s), Set(p, s),
         net' \in [Peers -> Seq(Packet)],
         \A q \in Peers : Len(net'[q]) <= NetRoom
  PROVE  Inv'
  BY ZenonT(60) DEF Inv, Set, PeerInv, Typed, KexOK, IsSending

LEMMA SetOnlyInv ==
  ASSUME Inv, NEW p \in Peers, NEW s, PeerInv(s), Set(p, s), UNCHANGED net
  PROVE  Inv'
  BY SetInv DEF Inv

LEMMA NewRunnerTyped ==
  ASSUME NEW c \in BOOLEAN
  PROVE  NewRunner(c) \in PeerState
<1>1. Nothing \in Packet /\ Cleartext \in Values /\ 0 \in Nat
  BY DEF Nothing, Packet, PacketTypes, Values, NoValue, Cleartext
<1>2. /\ <<>> \in Seq(Packet) /\ <<>> \in Seq(PacketTypes \X Values)
      /\ <<>> \in Seq(Nat)
  OBVIOUS
<1>3. /\ "SendIdent" \in ConnStates /\ "Idle" \in KexStates
      /\ "Idle" \in RxStates /\ "None" \in Events /\ "ok" \in Errors
      /\ "None" \in {"None", "Authenticated"} /\ FALSE \in BOOLEAN
  BY DEF ConnStates, KexStates, RxStates, Events, Errors
<1> QED
  BY <1>1, <1>2, <1>3, ZenonT(160) DEF NewRunner, PeerState

LEMMA InitInv == Init => Inv
<1> SUFFICES ASSUME Init PROVE Inv
  OBVIOUS
<1>1. \A p \in Peers : PeerInv(NewRunner(p = "client"))
  <2> TAKE p \in Peers
  <2> DEFINE c == p = "client"
  <2>0. c \in BOOLEAN
    OBVIOUS
  <2> HIDE DEF c
  <2>1. NewRunner(c) \in PeerState
    BY <2>0, NewRunnerTyped, Zenon
  <2>2. /\ NewRunner(c).used = 0 /\ NewRunner(c).deferred = <<>>
        /\ NewRunner(c).kex = "Idle" /\ NewRunner(c).ev = "None"
        /\ NewRunner(c).drain = FALSE /\ NewRunner(c).sendingKex = FALSE
    BY DEF NewRunner
  <2>3. PeerInv(NewRunner(c))
    BY <2>1, <2>2, TransportAssumption, SMTT(120)
    DEF PeerInv, Typed, KexOK, IsSending
  <2> QED
    BY <2>3 DEF c
<1>2. \A p \in Peers : peer[p] = NewRunner(p = "client")
  BY Zenon DEF Init
<1>3. \A p \in Peers : PeerInv(peer[p])
  BY <1>1, <1>2, Zenon
<1>4. peer \in [Peers -> PeerState]
  BY <1>1, Zenon DEF Init, PeerInv, Typed
<1>5. net \in [Peers -> Seq(Packet)] /\ \A p \in Peers : Len(net[p]) <= NetRoom
  BY TransportAssumption DEF Init
<1> QED
  BY <1>3, <1>4, <1>5 DEF Inv

LEMMA ProgressInv ==
  ASSUME Inv, NEW p \in Peers, Progress(p)
  PROVE  Inv'
<1> DEFINE s0 == peer[p]
           s1 == BeginProgress(s0)
           s2 == HandlePayload(s1)
           s3 == IF Running(s2) THEN KexProgress(s2) ELSE s2
           s4 == IF Running(s3) THEN ConnProgress(s3) ELSE s3
           b == s4.idled /\ s4.ev = "None"
           s5 == [s4 EXCEPT !.idled = b]
<1>1. Set(p, s5) /\ UNCHANGED net /\ Free(p)
  BY DEF Progress
<1>2. PeerInv(s1)
  BY <1>1, BeginProgressInv DEF Inv, Free
<1> HIDE DEF s1
<1>3. PeerInv(s2)
  BY <1>2, HandlePayloadInv
<1> HIDE DEF s2
<1>4. PeerInv(s3)
  BY <1>3, KexProgressFacts DEF Running
<1> HIDE DEF s3
<1>5. PeerInv(s4)
  BY <1>4, ConnProgressInv DEF Running
<1> HIDE DEF s4
<1>6. b \in BOOLEAN
  OBVIOUS
<1> HIDE DEF b
<1>7. PeerInv(s5)
  BY ZenonT(60), <1>5, <1>6, OtherFields, AlikeInv DEF PeerInv
<1> HIDE DEF s5
<1> QED
  BY <1>1, <1>7, SetOnlyInv

LEMMA InputInv ==
  ASSUME Inv, NEW p \in Peers, Input(p)
  PROVE  Inv'
<1> DEFINE s1 == RunnerInput(peer[p], Head(net[p]))
           s2 == [s1 EXCEPT !.idled = FALSE]
<1>1. Set(p, s2) /\ net' = [net EXCEPT ![p] = Tail(@)] /\ net[p] # <<>>
  BY DEF Input
<1>2. net[p] \in Seq(Packet) /\ Len(net[p]) <= NetRoom
  BY DEF Inv
<1>3. Head(net[p]) \in Packet /\ Tail(net[p]) \in Seq(Packet)
      /\ Len(Tail(net[p])) <= NetRoom
  BY <1>1, <1>2, TransportAssumption
<1>4. PeerInv(s1)
  BY <1>3, RunnerInputInv DEF Inv
<1> HIDE DEF s1
<1>5. PeerInv(s2)
  BY ZenonT(60), <1>4, OtherFields, AlikeInv DEF PeerInv
<1> HIDE DEF s2
<1>6. net' \in [Peers -> Seq(Packet)] /\ \A q \in Peers : Len(net'[q]) <= NetRoom
  BY <1>1, <1>3 DEF Inv
<1> QED
  BY <1>1, <1>5, <1>6, SetInv

LEMMA OutputInv ==
  ASSUME Inv, NEW p \in Peers, Output(p)
  PROVE  Inv'
<1> DEFINE s1 == ConsumeOutput(peer[p])
           q == Other(p)
           n == Append(net[q], Head(peer[p].out))
<1>1. /\ Set(p, s1) /\ net' = [net EXCEPT ![q] = n]
      /\ peer[p].out # <<>> /\ Len(net[q]) < NetRoom
  BY DEF Output
<1>2. PeerInv(s1) /\ Head(peer[p].out) \in Packet
  BY <1>1, ConsumeOutputInv DEF Inv
<1>3. q \in Peers
  BY DEF Other, Peers
<1>4. n \in Seq(Packet) /\ Len(n) <= NetRoom
  <2>1. net[q] \in Seq(Packet)
    BY <1>3 DEF Inv
  <2> QED
    BY <1>1, <1>2, <2>1, TransportAssumption
<1> HIDE DEF s1, q, n
<1>5. /\ net' \in [Peers -> Seq(Packet)]
      /\ \A x \in Peers : Len(net'[x]) <= NetRoom
  BY <1>1, <1>3, <1>4 DEF Inv
<1> QED
  BY <1>1, <1>2, <1>5, SetInv

LEMMA ResumeInv ==
  ASSUME Inv, NEW p \in Peers, Resume(p)
  PROVE  Inv'
<1>1. PeerInv(peer[p]) /\ peer[p].err = "ok" /\ UNCHANGED net
  BY DEF Inv, Resume
<1>2. \/ peer[p].ev = "Hostkey" /\ Set(p, ResumeCheckHostkey(peer[p], TRUE))
      \/ peer[p].ev = "Hostkeys" /\ Set(p, ResumeServHostkeys(peer[p]))
      \/ Set(p, ResumeUsername(peer[p]))
      \/ Set(p, ResumeServAuth(peer[p]))
  BY ZenonT(60) DEF Resume
<1>3. CASE peer[p].ev = "Hostkey" /\ Set(p, ResumeCheckHostkey(peer[p], TRUE))
  BY ZenonT(60), <1>1, <1>3, ResumeCheckHostkeyInv, SetOnlyInv
<1>4. CASE peer[p].ev = "Hostkeys" /\ Set(p, ResumeServHostkeys(peer[p]))
  BY <1>1, <1>4, ResumeServHostkeysInv, SetOnlyInv
<1>5. CASE Set(p, ResumeUsername(peer[p]))
  BY <1>1, <1>5, ResumeUsernameInv, SetOnlyInv
<1>6. CASE Set(p, ResumeServAuth(peer[p]))
  BY <1>1, <1>6, ResumeServAuthInv, SetOnlyInv
<1> QED
  BY ZenonT(60), <1>2, <1>3, <1>4, <1>5, <1>6

LEMMA ApplicationInv ==
  ASSUME Inv, NEW p \in Peers,
         WriteChannel(p) \/ ReadChannel(p) \/ SendRequest(p)
  PROVE  Inv'
<1>1. PeerInv(peer[p]) /\ Typed(peer[p]) /\ UNCHANGED net
  BY DEF Inv, PeerInv, WriteChannel, ReadChannel, SendRequest
<1>2. CASE WriteChannel(p)
  <2> DEFINE n == peer[p].nData + 1
             s1 == SendPacket(peer[p], "Data", <<n, 0>>)
             s2 == [s1 EXCEPT !.nData = n]
  <2>1. Set(p, s2)
    BY <1>2 DEF WriteChannel
  <2>2. n \in Nat
    BY <1>1, FieldTypes
  <2> HIDE DEF n
  <2>3. PeerInv(s1)
    BY <1>1, <2>2, SendInv DEF PacketTypes, CatSess, Values
  <2> HIDE DEF s1
  <2>4. PeerInv(s2)
    BY ZenonT(60), <2>2, <2>3, OtherFields, AlikeInv DEF PeerInv
  <2> HIDE DEF s2
  <2> QED
    BY <1>1, <2>1, <2>4, SetOnlyInv
<1>3. CASE SendRequest(p)
  <2> DEFINE n == peer[p].nReq + 1
             s1 == SendPacket(peer[p], "Req", <<n, 0>>)
             s2 == [s1 EXCEPT !.nReq = n]
  <2>1. Set(p, s2)
    BY <1>3 DEF SendRequest
  <2>2. n \in Nat
    BY <1>1, FieldTypes
  <2> HIDE DEF n
  <2>3. PeerInv(s1)
    BY <1>1, <2>2, SendInv DEF PacketTypes, CatSess, Values
  <2> HIDE DEF s1
  <2>4. PeerInv(s2)
    BY ZenonT(60), <2>2, <2>3, OtherFields, AlikeInv DEF PeerInv
  <2> HIDE DEF s2
  <2> QED
    BY <1>1, <2>1, <2>4, SetOnlyInv
<1>4. CASE ReadChannel(p)
  <2> DEFINE g == Append(peer[p].got, peer[p].rx.v[1])
             s2 == [peer[p] EXCEPT !.rxs = "Idle", !.got = g]
  <2>1. Set(p, s2)
    BY <1>4 DEF ReadChannel
  <2>2. g \in Seq(Nat)
    <3>1. peer[p].got \in Seq(Nat)
      BY <1>1, FieldTypes
    <3> QED  BY <1>1, <3>1, PacketValue
  <2> HIDE DEF g
  <2>3. PeerInv(s2)
    BY ZenonT(60), <1>1, <2>2, OtherFields, AlikeInv DEF RxStates
  <2> HIDE DEF s2
  <2> QED
    BY <1>1, <2>1, <2>3, SetOnlyInv
<1> QED
  BY <1>2, <1>3, <1>4

LEMMA Invariance == Spec => []Inv
<1>1. Inv /\ [Next]_vars => Inv'
  <2>1. ASSUME Inv, UNCHANGED vars PROVE Inv'
    BY <2>1 DEF Inv, vars, PeerInv, Typed, KexOK, IsSending
  <2>2. ASSUME Inv, NEW p \in Peers, Step(p) PROVE Inv'
    BY <2>2, ProgressInv, InputInv, OutputInv, ResumeInv, ApplicationInv
    DEF Step, Serve
  <2> QED
    BY <2>1, <2>2 DEF Next
<1> QED
  BY InitInv, <1>1, PTL DEF Spec

\* The output buffer, the deferred queue and the byte streams stay within
\* their capacities and every field of both Runners keeps its type, whatever
\* those capacities and the re-key limits are.
THEOREM TypeCorrect == Spec => []TypeOK
<1>1. Inv => TypeOK
  BY DEF Inv, TypeOK, PeerInv, Typed
<1> QED
  BY Invariance, <1>1, PTL

\* The two flags of TrafOut agree with the state of Kex between any two calls:
\* no interleaving of re-keys, packets and answers leaves sending_kex or drain
\* set when the key exchange has moved on.
THEOREM FlagsAgree == Spec => []KexFlagsAgree
<1>1. Inv => KexFlagsAgree
  BY DEF Inv, KexFlagsAgree, PeerInv, KexOK
<1> QED
  BY Invariance, <1>1, PTL

-----------------------------------------------------------------------------
(* One stream: the packets in flight and the output buffer together, so    *)
(* that moving a packet from the one to the other changes nothing.         *)

\* The last KexInit of q has no NewKeys after it
Open(q) ==
  \E i \in 1..Len(q) : /\ q[i].t = "KexInit"
                       /\ \A k \in (i+1)..Len(q) : q[k].t # "NewKeys"

\* What QuietDuringKex says of one stream
Quiet(q) ==
  \A i, j \in 1..Len(q) :
    ( /\ i < j
      /\ q[i].t = "KexInit"
      /\ \A k \in (i+1)..(j-1) : q[k].t # "NewKeys" )
    => q[j].t \in CatKex

\* The stream q of the Runner s: sending_kex is set while it is open
Lawful(q, s) ==
  /\ Quiet(q)
  /\ s.err = "ok" /\ Open(q) => s.sendingKex

\* Only answers are deferred
OnlyReplies(s) ==
  s.err = "ok" => \A i \in 1..Len(s.deferred) : s.deferred[i][1] = "Reply"

\* Before it has sent its identification a Runner has taken no part in a key
\* exchange
Early(s) ==
  s.err = "ok" /\ s.conn = "SendIdent" =>
    s.kex = "Idle" /\ s.rxs = "Idle" /\ s.ev = "None" /\ s.extra = "None"

\* The packets of type T in q carry the numbers after lo up to hi, in order
Numbered(q, T, lo, hi) ==
  /\ lo <= hi
  /\ \A i \in 1..Len(q) : q[i].t = T => lo < q[i].v[1] /\ q[i].v[1] <= hi
  /\ \A i, j \in 1..Len(q) :
       i < j /\ q[i].t = T /\ q[j].t = T => q[i].v[1] < q[j].v[1]
  /\ \A n \in (lo+1)..hi : \E i \in 1..Len(q) : q[i].t = T /\ q[i].v[1] = n

\* The payload that waits to be handled is of type T
Holds(s, T) == s.rxs = "InPayload" /\ s.rx.t = T

HasData(s) == s.rxs = "InChannelData" \/ Holds(s, "Data")

\* The channel data, the answers and the requests that s has taken in
DataIn(s) == IF HasData(s) THEN Len(s.got) + 1 ELSE Len(s.got)
RepliesIn(s) == IF Holds(s, "Reply") THEN Len(s.rep) + 1 ELSE Len(s.rep)
ReqsIn(s, mid) == IF Holds(s, "Req") THEN mid + Len(s.deferred) + 1
                  ELSE mid + Len(s.deferred)

\* No payload that an event refers to is a packet of the session, and the
\* second event of an authentication comes before the next payload
Mid(s) ==
  s.err = "ok" =>
    /\ s.ev # "None" /\ s.rxs = "InPayload" => s.rx.t \notin CatSess
    /\ s.extra # "None" => s.rxs # "InPayload"
    /\ s.idled => s.extra = "None"

\* A Runner that has idled has no event under way either
Settled(s) == Mid(s) /\ (s.err = "ok" /\ s.idled => s.ev = "None")

\* The channel data from s to r, with q the stream between them
DataOK(s, r, q) ==
  r.err = "ok" =>
    /\ HasData(r) => r.rx.v[1] = Len(r.got) + 1
    /\ \E hi \in Nat : /\ Numbered(q, "Data", DataIn(r), hi)
                       /\ s.err = "ok" => hi = s.nData

\* The requests of s, on the stream q to r or with r, and their answers:
\* up to mid on the stream back, and then the deferred ones
ReplyOK(s, r, q, back) ==
  s.err = "ok" =>
    /\ Holds(s, "Reply") => s.rx.v[1] = Len(s.rep) + 1
    /\ \E mid \in Nat :
         /\ Numbered(back, "Reply", RepliesIn(s), mid)
         /\ r.err = "ok" =>
              /\ \A i \in 1..Len(r.deferred) : r.deferred[i][2][1] = mid + i
              /\ Holds(r, "Req") => r.rx.v[1] = mid + Len(r.deferred) + 1
              /\ Numbered(q, "Req", ReqsIn(r, mid), s.nReq)

\* The Runners s and o, with out and inc the streams from and to s
OrderOf(s, o, out, inc) ==
  /\ Counting(s.got) /\ Counting(s.rep)
  /\ DataOK(s, o, out) /\ DataOK(o, s, inc)
  /\ ReplyOK(s, o, out, inc) /\ ReplyOK(o, s, inc, out)

-----------------------------------------------------------------------------
(* Streams.                                                                *)

LEMMA PacketFields ==
  ASSUME NEW p \in Packet
  PROVE  p.t \in PacketTypes /\ p.v \in Values /\ p.v[1] \in Nat
  BY DEF Packet, Values

LEMMA AppendAt ==
  ASSUME NEW q \in Seq(Packet), NEW p \in Packet
  PROVE  /\ Append(q, p) \in Seq(Packet)
         /\ Len(Append(q, p)) = Len(q) + 1 /\ Len(q) \in Nat
         /\ \A i \in 1..Len(q) : Append(q, p)[i] = q[i]
         /\ Append(q, p)[Len(q) + 1] = p
  OBVIOUS

LEMMA TailAt ==
  ASSUME NEW q \in Seq(Packet), q # <<>>
  PROVE  /\ Tail(q) \in Seq(Packet) /\ Head(q) \in Packet /\ Head(q) = q[1]
         /\ Len(q) \in Nat /\ Len(q) >= 1 /\ Len(Tail(q)) = Len(q) - 1
         /\ \A i \in 1..(Len(q) - 1) : Tail(q)[i] = q[i + 1]
  OBVIOUS

LEMMA AppendQuiet ==
  ASSUME NEW q \in Seq(Packet), NEW p \in Packet, Quiet(q),
         Open(q) => p.t \in CatKex
  PROVE  Quiet(Append(q, p))
<1> DEFINE r == Append(q, p)
<1>1. /\ Len(r) = Len(q) + 1 /\ Len(q) \in Nat
      /\ \A i \in 1..Len(q) : r[i] = q[i]
      /\ r[Len(q) + 1] = p
  BY AppendAt
<1> HIDE DEF r
<1> SUFFICES ASSUME NEW i \in 1..Len(r), NEW j \in 1..Len(r), i < j,
                    r[i].t = "KexInit",
                    \A k \in (i+1)..(j-1) : r[k].t # "NewKeys"
             PROVE  r[j].t \in CatKex
  BY DEF Quiet, r
<1>2. CASE j \in 1..Len(q)
  <2>1. i \in 1..Len(q) /\ \A k \in (i+1)..(j-1) : k \in 1..Len(q)
    BY <1>1, <1>2
  <2>2. q[i].t = "KexInit" /\ \A k \in (i+1)..(j-1) : q[k].t # "NewKeys"
    BY <1>1, <2>1
  <2> QED
    BY <1>1, <1>2, <2>1, <2>2 DEF Quiet
<1>3. CASE j = Len(q) + 1
  <2>1. i \in 1..Len(q) /\ \A k \in (i+1)..Len(q) :
                              k \in 1..Len(q) /\ k \in (i+1)..(j-1)
    BY <1>1, <1>3
  <2>2. q[i].t = "KexInit" /\ \A k \in (i+1)..Len(q) : q[k].t # "NewKeys"
    BY <1>1, <2>1
  <2> QED
    BY <1>1, <1>3, <2>1, <2>2 DEF Open
<1> QED
  BY <1>1, <1>2, <1>3

LEMMA AppendOpen ==
  ASSUME NEW q \in Seq(Packet), NEW p \in Packet, Open(Append(q, p))
  PROVE  p.t = "KexInit" \/ (Open(q) /\ p.t # "NewKeys")
<1> DEFINE r == Append(q, p)
<1>1. /\ Len(r) = Len(q) + 1 /\ Len(q) \in Nat
      /\ \A i \in 1..Len(q) : r[i] = q[i]
      /\ r[Len(q) + 1] = p
  BY AppendAt
<1>2. PICK i \in 1..Len(r) : /\ r[i].t = "KexInit"
                             /\ \A k \in (i+1)..Len(r) : r[k].t # "NewKeys"
  BY DEF Open
<1> HIDE DEF r
<1>3. CASE i \in 1..Len(q)
  <2>1. \A k \in (i+1)..Len(q) : k \in 1..Len(q) /\ k \in (i+1)..Len(r)
    BY <1>1, <1>3
  <2>2. q[i].t = "KexInit" /\ \A k \in (i+1)..Len(q) : q[k].t # "NewKeys"
    BY <1>1, <1>2, <1>3, <2>1
  <2>3. Len(q) + 1 \in (i+1)..Len(r)
    BY <1>1, <1>3
  <2> QED
    BY <1>1, <1>2, <1>3, <2>2, <2>3 DEF Open
<1>4. CASE i = Len(q) + 1
  BY <1>1, <1>2, <1>4
<1> QED
  BY <1>1, <1>3, <1>4

LEMMA TailQuiet ==
  ASSUME NEW q \in Seq(Packet), q # <<>>
  PROVE  (Quiet(q) => Quiet(Tail(q))) /\ (Open(Tail(q)) => Open(q))
<1> DEFINE r == Tail(q)
<1>1. /\ Len(q) \in Nat /\ Len(q) >= 1 /\ Len(r) = Len(q) - 1
      /\ \A i \in 1..(Len(q) - 1) : r[i] = q[i + 1]
  BY TailAt
<1> HIDE DEF r
<1>2. ASSUME Quiet(q), NEW i \in 1..Len(r), NEW j \in 1..Len(r), i < j,
             r[i].t = "KexInit",
             \A k \in (i+1)..(j-1) : r[k].t # "NewKeys"
      PROVE  r[j].t \in CatKex
  <2>1. /\ i + 1 \in 1..Len(q) /\ j + 1 \in 1..Len(q) /\ i + 1 < j + 1
        /\ r[i] = q[i + 1] /\ r[j] = q[j + 1]
    BY <1>1, <1>2
  <2>2. ASSUME NEW k \in ((i+1)+1)..((j+1)-1) PROVE q[k].t # "NewKeys"
    <3>1. k - 1 \in (i+1)..(j-1) /\ k - 1 \in 1..(Len(q) - 1)
          /\ (k - 1) + 1 = k
      BY <1>1, <1>2, <2>2
    <3> QED
      BY ZenonT(60), <1>1, <1>2, <3>1
  <2> QED
    BY <1>2, <2>1, <2>2 DEF Quiet
<1>3. ASSUME NEW i \in 1..Len(r), r[i].t = "KexInit",
             \A k \in (i+1)..Len(r) : r[k].t # "NewKeys"
      PROVE  Open(q)
  <2>1. i + 1 \in 1..Len(q) /\ r[i] = q[i + 1]
    BY <1>1, <1>3
  <2>2. ASSUME NEW k \in ((i+1)+1)..Len(q) PROVE q[k].t # "NewKeys"
    <3>1. k - 1 \in (i+1)..Len(r) /\ k - 1 \in 1..(Len(q) - 1)
          /\ (k - 1) + 1 = k
      BY <1>1, <1>3, <2>2
    <3> QED
      BY ZenonT(60), <1>1, <1>3, <3>1
  <2> QED
    BY <1>3, <2>1, <2>2 DEF Open
<1> QED
  BY ZenonT(60), <1>2, <1>3 DEF Quiet, Open, r

LEMMA NumberedAppend ==
  ASSUME NEW q \in Seq(Packet), NEW p \in Packet, NEW T,
         NEW lo \in Nat, NEW hi \in Nat, Numbered(q, T, lo, hi)
  PROVE  /\ p.t # T => Numbered(Append(q, p), T, lo, hi)
         /\ (p.t = T /\ p.v[1] = hi + 1)
              => Numbered(Append(q, p), T, lo, hi + 1)
<1> DEFINE r == Append(q, p)
<1>1. /\ Len(r) = Len(q) + 1 /\ Len(q) \in Nat
      /\ \A i \in 1..Len(q) : r[i] = q[i]
      /\ r[Len(q) + 1] = p
  BY AppendAt
<1>2. \A i \in 1..Len(q) : q[i].v[1] \in Nat
  BY PacketFields
<1> HIDE DEF r
<1>3. \A i \in 1..Len(r) : i \in 1..Len(q) \/ i = Len(q) + 1
  BY <1>1
<1>4. \A i \in 1..Len(q) : i \in 1..Len(r)
  BY <1>1
<1>5. Len(q) + 1 \in 1..Len(r)
  BY <1>1
<1>6. ASSUME p.t # T PROVE Numbered(r, T, lo, hi)
  <2>1. \A i \in 1..Len(r) : r[i].t = T => i \in 1..Len(q) /\ r[i] = q[i]
    BY <1>1, <1>3, <1>6
  <2>2. /\ \A i \in 1..Len(r) : r[i].t = T => lo < r[i].v[1] /\ r[i].v[1] <= hi
        /\ \A i, j \in 1..Len(r) :
             i < j /\ r[i].t = T /\ r[j].t = T => r[i].v[1] < r[j].v[1]
    BY ZenonT(60), <2>1 DEF Numbered
  <2>3. \A n \in (lo+1)..hi : \E i \in 1..Len(r) : r[i].t = T /\ r[i].v[1] = n
    BY ZenonT(60), <1>1, <1>4 DEF Numbered
  <2> QED
    BY <2>2, <2>3 DEF Numbered
<1>7. ASSUME p.t = T, p.v[1] = hi + 1 PROVE Numbered(r, T, lo, hi + 1)
  <2>1. lo <= hi + 1
    BY DEF Numbered
  <2>2. \A i \in 1..Len(r) :
          r[i].t = T => lo < r[i].v[1] /\ r[i].v[1] <= hi + 1
    <3> TAKE i \in 1..Len(r)
    <3>1. CASE i \in 1..Len(q)
      BY <1>1, <1>2, <3>1 DEF Numbered
    <3>2. CASE i = Len(q) + 1
      BY <1>1, <1>7, <3>2 DEF Numbered
    <3> QED
      BY <1>3, <3>1, <3>2
  <2>3. ASSUME NEW i \in 1..Len(r), NEW j \in 1..Len(r),
               i < j, r[i].t = T, r[j].t = T
        PROVE  r[i].v[1] < r[j].v[1]
    <3>1. i \in 1..Len(q)
      BY <1>1, <2>3
    <3>2. CASE j \in 1..Len(q)
      BY ZenonT(60), <1>1, <2>3, <3>1, <3>2 DEF Numbered
    <3>3. CASE j = Len(q) + 1
      <4>1. r[i].v[1] \in Nat /\ r[i].v[1] <= hi
        BY <1>1, <1>2, <2>3, <3>1 DEF Numbered
      <4>2. r[j].v[1] = hi + 1
        BY <1>1, <1>7, <3>3
      <4> QED
        BY <4>1, <4>2
    <3> QED
      BY <1>3, <3>2, <3>3
  <2>4. ASSUME NEW n \in (lo+1)..(hi+1)
        PROVE  \E i \in 1..Len(r) : r[i].t = T /\ r[i].v[1] = n
    <3>1. CASE n = hi + 1
      BY <1>1, <1>5, <1>7, <3>1
    <3>2. CASE n \in (lo+1)..hi
      BY ZenonT(60), <1>1, <1>4, <3>2 DEF Numbered
    <3> QED
      BY <3>1, <3>2
  <2> QED
    BY <2>1, <2>2, <2>3, <2>4 DEF Numbered
<1> QED
  BY <1>6, <1>7 DEF r

LEMMA NumberedTail ==
  ASSUME NEW q \in Seq(Packet), q # <<>>, NEW T,
         NEW lo \in Nat, NEW hi \in Nat, Numbered(q, T, lo, hi)
  PROVE  /\ Head(q).t # T => Numbered(Tail(q), T, lo, hi)
         /\ Head(q).t = T => /\ Head(q).v[1] = lo + 1
                             /\ Numbered(Tail(q), T, lo + 1, hi)
<1> DEFINE r == Tail(q)
<1>1. /\ Len(q) \in Nat /\ Len(q) >= 1 /\ Len(r) = Len(q) - 1
      /\ \A i \in 1..(Len(q) - 1) : r[i] = q[i + 1]
      /\ Head(q) = q[1] /\ r \in Seq(Packet) /\ q[1] \in Packet
  BY TailAt
<1>2. /\ \A i \in 1..Len(q) : q[i].v[1] \in Nat
      /\ \A i \in 1..Len(r) : r[i].v[1] \in Nat
  BY <1>1, PacketFields
<1> HIDE DEF r
<1>3. /\ 1 \in 1..Len(q)
      /\ \A i \in 1..Len(r) : i + 1 \in 1..Len(q) /\ 1 < i + 1 /\ r[i] = q[i+1]
      /\ \A i \in 1..Len(q) : i = 1 \/ (i - 1 \in 1..Len(r) /\ r[i-1] = q[i])
  BY <1>1
<1>4. ASSUME NEW i \in 1..Len(r), NEW j \in 1..Len(r), i < j,
             r[i].t = T, r[j].t = T
      PROVE  r[i].v[1] < r[j].v[1]
  <2> DEFINE x == i + 1
             y == j + 1
  <2>1. /\ x \in 1..Len(q) /\ y \in 1..Len(q) /\ x < y
        /\ r[i] = q[x] /\ r[j] = q[y]
    BY <1>3, <1>4
  <2>2. q[x].t = T /\ q[y].t = T
    BY <1>4, <2>1
  <2> HIDE DEF x, y
  <2>3. q[x].v[1] < q[y].v[1]
    BY <2>1, <2>2 DEF Numbered
  <2> QED
    BY <2>1, <2>3
<1>5. ASSUME q[1].t # T PROVE Numbered(r, T, lo, hi)
  <2>1. \A i \in 1..Len(r) : r[i].t = T => lo < r[i].v[1] /\ r[i].v[1] <= hi
    BY <1>3 DEF Numbered
  <2>2. ASSUME NEW n \in (lo+1)..hi
        PROVE  \E i \in 1..Len(r) : r[i].t = T /\ r[i].v[1] = n
    <3>1. PICK i \in 1..Len(q) : q[i].t = T /\ q[i].v[1] = n
      BY DEF Numbered
    <3>2. i - 1 \in 1..Len(r) /\ r[i-1] = q[i]
      BY <1>3, <1>5, <3>1
    <3> QED
      BY <3>1, <3>2
  <2> QED
    BY <1>4, <2>1, <2>2 DEF Numbered
<1>6. ASSUME q[1].t = T PROVE q[1].v[1] = lo + 1 /\ Numbered(r, T, lo + 1, hi)
  <2>1. q[1].v[1] \in Nat /\ lo < q[1].v[1] /\ q[1].v[1] <= hi
    BY <1>2, <1>3, <1>6 DEF Numbered
  <2>2. PICK i \in 1..Len(q) : q[i].t = T /\ q[i].v[1] = lo + 1
    <3>1. lo + 1 \in (lo+1)..hi
      BY <2>1
    <3> QED
      BY <3>1 DEF Numbered
  <2>3. q[1].v[1] = lo + 1
    <3>1. CASE i = 1
      BY <2>2, <3>1
    <3>2. CASE i # 1
      <4>1. 1 < i
        BY <1>1, <3>2
      <4>2. q[1].v[1] < q[i].v[1]
        BY <1>3, <1>6, <2>2, <4>1 DEF Numbered
      <4> QED
        BY <2>1, <2>2, <4>2
    <3> QED
      BY <3>1, <3>2
  <2>4. \A j \in 1..Len(r) : r[j].t = T => lo + 1 < r[j].v[1] /\ r[j].v[1] <= hi
    <3> SUFFICES ASSUME NEW j \in 1..Len(r), r[j].t = T
                 PROVE  lo + 1 < r[j].v[1] /\ r[j].v[1] <= hi
      OBVIOUS
    <3> DEFINE k == j + 1
    <3>1. k \in 1..Len(q) /\ 1 < k /\ r[j] = q[k]
      BY <1>3
    <3> HIDE DEF k
    <3>2. q[1].v[1] < q[k].v[1] /\ q[k].v[1] <= hi
      BY <1>3, <1>6, <3>1 DEF Numbered
    <3> QED
      BY <2>3, <3>1, <3>2
  <2>5. ASSUME NEW n \in ((lo+1)+1)..hi
        PROVE  \E j \in 1..Len(r) : r[j].t = T /\ r[j].v[1] = n
    <3>0. n \in (lo+1)..hi /\ n # lo + 1
      OBVIOUS
    <3>1. PICK j \in 1..Len(q) : q[j].t = T /\ q[j].v[1] = n
      BY <3>0 DEF Numbered
    <3>2. j - 1 \in 1..Len(r) /\ r[j-1] = q[j]
      BY <1>3, <2>3, <3>0, <3>1
    <3> QED
      BY <3>1, <3>2
  <2>6. lo + 1 <= hi
    BY <2>1
  <2> QED
    BY <1>4, <2>3, <2>4, <2>5, <2>6 DEF Numbered
<1> QED
  BY <1>1, <1>5, <1>6 DEF r

\* A packet stays where it is on the stream when it leaves the output buffer,
\* and what is sent comes last
LEMMA StreamMoves ==
  ASSUME NEW n \in Seq(Packet), NEW o \in Seq(Packet)
  PROVE  /\ n \o o \in Seq(Packet)
         /\ \A p \in Packet : n \o Append(o, p) = Append(n \o o, p)
         /\ o # <<>> => Append(n, Head(o)) \o Tail(o) = n \o o
         /\ n # <<>> => /\ n \o o # <<>> /\ Head(n \o o) = Head(n)
                        /\ Tail(n) \o o = Tail(n \o o)
<1>1. n \o o \in Seq(Packet)
  BY Joined
<1>2. \A p \in Packet : n \o Append(o, p) = Append(n \o o, p)
  OBVIOUS
<1>3. o # <<>> => Append(n, Head(o)) \o Tail(o) = n \o o
  OBVIOUS
<1>4. n # <<>> => n \o o # <<>> /\ Head(n \o o) = Head(n)
  OBVIOUS
<1>5. n # <<>> => Tail(n) \o o = Tail(n \o o)
  OBVIOUS
<1> QED
  BY ZenonT(60), <1>1, <1>2, <1>3, <1>4, <1>5

LEMMA StreamAssociative ==
  ASSUME NEW a \in Seq(Packet), NEW b \in Seq(Packet), NEW c \in Seq(Packet)
  PROVE  (a \o b) \o c = a \o (b \o c)
<1> DEFINE l == (a \o b) \o c
           r == a \o (b \o c)
<1>1. l \in Seq(Packet) /\ r \in Seq(Packet) /\ Len(l) = Len(r)
      /\ Len(l) = Len(a) + Len(b) + Len(c)
  BY Joined
<1>2. \A i \in 1..Len(l) : l[i] = r[i]
  <2> TAKE i \in 1..Len(l)
  <2>1. CASE i \in 1..Len(a)
    BY <1>1, <2>1
  <2>2. CASE i \in (Len(a)+1)..(Len(a)+Len(b))
    BY <1>1, <2>2
  <2>3. CASE i \in (Len(a)+Len(b)+1)..Len(l)
    BY <1>1, <2>3
  <2> QED
    BY <1>1, <2>1, <2>2, <2>3
<1> HIDE DEF l, r
<1>3. l = r
  BY ZenonT(60), <1>1, <1>2, SameElements
<1> QED
  BY <1>3 DEF l, r

LEMMA ConcatAt ==
  ASSUME NEW q \in Seq(Packet), NEW m \in Seq(Packet)
  PROVE  /\ q \o m \in Seq(Packet) /\ Len(q \o m) = Len(q) + Len(m)
         /\ Len(q) \in Nat /\ Len(m) \in Nat
         /\ \A i \in 1..Len(q) : (q \o m)[i] = q[i]
         /\ \A i \in 1..Len(m) : (q \o m)[Len(q) + i] = m[i]
         /\ \A i \in 1..Len(q \o m) :
              i \in 1..Len(q) \/ \E k \in 1..Len(m) : i = Len(q) + k
<1>1. /\ q \o m \in Seq(Packet) /\ Len(q \o m) = Len(q) + Len(m)
      /\ Len(q) \in Nat /\ Len(m) \in Nat
  BY Joined
<1>2. /\ \A i \in 1..Len(q) : (q \o m)[i] = q[i]
      /\ \A i \in 1..Len(m) : (q \o m)[Len(q) + i] = m[i]
  OBVIOUS
<1>3. ASSUME NEW i \in 1..Len(q \o m), ~(i \in 1..Len(q))
      PROVE  \E k \in 1..Len(m) : i = Len(q) + k
  <2>1. i - Len(q) \in 1..Len(m) /\ i = Len(q) + (i - Len(q))
    BY <1>1, <1>3
  <2> QED
    BY ZenonT(60), <2>1
<1> QED
  BY <1>1, <1>2, <1>3

\* Deferred answers that join the stream together
LEMMA RepliesQuiet ==
  ASSUME NEW q \in Seq(Packet), NEW m \in Seq(Packet), Quiet(q), ~Open(q),
         \A i \in 1..Len(m) : m[i].t = "Reply"
  PROVE  Quiet(q \o m) /\ ~Open(q \o m)
<1> DEFINE r == q \o m
<1>1. /\ Len(r) = Len(q) + Len(m) /\ Len(q) \in Nat /\ Len(m) \in Nat
      /\ \A i \in 1..Len(q) : r[i] = q[i]
      /\ \A i \in 1..Len(m) : r[Len(q) + i] = m[i]
      /\ \A i \in 1..Len(r) :
           i \in 1..Len(q) \/ \E k \in 1..Len(m) : i = Len(q) + k
  BY ConcatAt
<1> HIDE DEF r
<1>2. \A i \in 1..Len(r) : i \in 1..Len(q) \/ r[i].t = "Reply"
  BY ZenonT(60), <1>1
<1>3. ASSUME NEW i \in 1..Len(q), q[i].t = "KexInit"
      PROVE  \E k \in (i+1)..Len(q) : q[k].t = "NewKeys"
  BY <1>3 DEF Open
<1>4. ASSUME NEW i \in 1..Len(r), NEW j \in 1..Len(r), i < j,
             r[i].t = "KexInit",
             \A k \in (i+1)..(j-1) : r[k].t # "NewKeys"
      PROVE  r[j].t \in CatKex
  <2>1. i \in 1..Len(q) /\ q[i].t = "KexInit"
    BY <1>1, <1>2, <1>4
  <2>2. CASE j \in 1..Len(q)
    <3>1. \A k \in (i+1)..(j-1) : k \in 1..Len(q)
      BY <1>1, <2>1, <2>2
    <3>2. \A k \in (i+1)..(j-1) : q[k].t # "NewKeys"
      BY <1>1, <1>4, <3>1
    <3> QED
      BY <1>1, <1>4, <2>1, <2>2, <3>2 DEF Quiet
  <2>3. CASE ~(j \in 1..Len(q))
    <3>1. PICK k \in (i+1)..Len(q) : q[k].t = "NewKeys"
      BY <1>3, <2>1
    <3> DEFINE x == Len(q)  y == Len(r)
    <3>2. /\ x \in Nat /\ y \in Nat /\ i \in 1..x
          /\ j \in 1..y /\ ~(j \in 1..x) /\ k \in (i+1)..x
      BY <1>1, <1>4, <2>1, <2>3, <3>1
    <3> HIDE DEF x, y
    <3>3. k \in (i+1)..(j-1) /\ k \in 1..x
      BY <3>2
    <3> QED
      BY <1>1, <1>4, <3>1, <3>3 DEF x
  <2> QED
    BY <2>2, <2>3
<1>5. ASSUME NEW i \in 1..Len(r), r[i].t = "KexInit",
             \A k \in (i+1)..Len(r) : r[k].t # "NewKeys"
      PROVE  FALSE
  <2>1. i \in 1..Len(q) /\ q[i].t = "KexInit"
    BY <1>1, <1>2, <1>5
  <2>2. PICK k \in (i+1)..Len(q) : q[k].t = "NewKeys"
    BY <1>3, <2>1
  <2>3. k \in (i+1)..Len(r) /\ k \in 1..Len(q)
    BY <1>1, <2>1
  <2> QED
    BY <1>1, <1>5, <2>2, <2>3
<1> QED
  BY ZenonT(60), <1>4, <1>5 DEF Quiet, Open, r

LEMMA RepliesNumbered ==
  ASSUME NEW q \in Seq(Packet), NEW m \in Seq(Packet), NEW T,
         NEW lo \in Nat, NEW hi \in Nat, Numbered(q, T, lo, hi),
         \A i \in 1..Len(m) : m[i].t = "Reply"
  PROVE  /\ T # "Reply" => Numbered(q \o m, T, lo, hi)
         /\ (T = "Reply" /\ \A i \in 1..Len(m) : m[i].v[1] = hi + i)
              => Numbered(q \o m, T, lo, hi + Len(m))
<1> DEFINE r == q \o m
<1>1. /\ Len(r) = Len(q) + Len(m) /\ Len(q) \in Nat /\ Len(m) \in Nat
      /\ \A i \in 1..Len(q) : r[i] = q[i]
      /\ \A i \in 1..Len(m) : r[Len(q) + i] = m[i]
      /\ \A i \in 1..Len(r) :
           i \in 1..Len(q) \/ \E k \in 1..Len(m) : i = Len(q) + k
  BY ConcatAt
<1> HIDE DEF r
<1>2. \A i \in 1..Len(q) : i \in 1..Len(r) /\ q[i].v[1] \in Nat
  BY <1>1, PacketFields
<1>3. ASSUME T # "Reply" PROVE Numbered(r, T, lo, hi)
  <2>1. \A i \in 1..Len(r) : r[i].t = T => i \in 1..Len(q) /\ r[i] = q[i]
    BY ZenonT(60), <1>1, <1>3
  <2>2. /\ \A i \in 1..Len(r) : r[i].t = T => lo < r[i].v[1] /\ r[i].v[1] <= hi
        /\ \A i, j \in 1..Len(r) :
             i < j /\ r[i].t = T /\ r[j].t = T => r[i].v[1] < r[j].v[1]
    BY ZenonT(60), <2>1 DEF Numbered
  <2>3. \A n \in (lo+1)..hi : \E i \in 1..Len(r) : r[i].t = T /\ r[i].v[1] = n
    BY ZenonT(60), <1>1, <1>2 DEF Numbered
  <2> QED
    BY <2>2, <2>3 DEF Numbered
<1>4. ASSUME T = "Reply", \A i \in 1..Len(m) : m[i].v[1] = hi + i
      PROVE  Numbered(r, T, lo, hi + Len(m))
  <2>1. lo <= hi /\ lo <= hi + Len(m)
    BY <1>1 DEF Numbered
  <2>2. \A i \in 1..Len(r) :
          \/ i \in 1..Len(q) /\ r[i] = q[i]
          \/ \E k \in 1..Len(m) : i = Len(q) + k /\ r[i].v[1] = hi + k
    <3> TAKE i \in 1..Len(r)
    <3>1. CASE i \in 1..Len(q)
      BY <1>1, <3>1
    <3>2. CASE \E k \in 1..Len(m) : i = Len(q) + k
      <4>1. PICK k \in 1..Len(m) : i = Len(q) + k
        BY <3>2
      <4>2. r[i] = m[k] /\ m[k].v[1] = hi + k
        BY <1>1, <1>4, <4>1
      <4> QED
        BY <4>1, <4>2
    <3> QED
      BY <1>1, <3>1, <3>2
  <2>3. \A i \in 1..Len(q) : q[i].t = T => lo < q[i].v[1] /\ q[i].v[1] <= hi
    BY DEF Numbered
  <2>4. \A i \in 1..Len(r) :
          r[i].t = T => lo < r[i].v[1] /\ r[i].v[1] <= hi + Len(m)
    <3> SUFFICES ASSUME NEW i \in 1..Len(r), r[i].t = T
                 PROVE  lo < r[i].v[1] /\ r[i].v[1] <= hi + Len(m)
      OBVIOUS
    <3>1. CASE i \in 1..Len(q) /\ r[i] = q[i]
      BY <1>1, <1>2, <2>3, <3>1
    <3>2. CASE \E k \in 1..Len(m) : i = Len(q) + k /\ r[i].v[1] = hi + k
      BY <1>1, <2>1, <3>2
    <3> QED
      BY <2>2, <3>1, <3>2
  <2>5. ASSUME NEW i \in 1..Len(r), NEW j \in 1..Len(r), i < j,
               r[i].t = T, r[j].t = T
        PROVE  r[i].v[1] < r[j].v[1]
    <3>1. CASE j \in 1..Len(q) /\ r[j] = q[j]
      <4>1. i \in 1..Len(q) /\ r[i] = q[i]
        BY <1>1, <2>5, <3>1
      <4> QED
        BY <2>5, <3>1, <4>1 DEF Numbered
    <3>2. CASE \E k \in 1..Len(m) : j = Len(q) + k /\ r[j].v[1] = hi + k
      <4>1. PICK k \in 1..Len(m) : j = Len(q) + k /\ r[j].v[1] = hi + k
        BY <3>2
      <4>2. CASE i \in 1..Len(q) /\ r[i] = q[i]
        <5>1. r[i].v[1] \in Nat /\ r[i].v[1] <= hi
          BY <1>2, <2>3, <2>5, <4>2
        <5> QED
          BY <4>1, <5>1
      <4>3. CASE \E l \in 1..Len(m) : i = Len(q) + l /\ r[i].v[1] = hi + l
        BY <1>1, <2>5, <4>1, <4>3
      <4> QED
        BY <2>2, <4>2, <4>3
    <3> QED
      BY <2>2, <3>1, <3>2
  <2>6. ASSUME NEW n \in (lo+1)..(hi+Len(m))
        PROVE  \E i \in 1..Len(r) : r[i].t = T /\ r[i].v[1] = n
    <3>1. CASE n \in (lo+1)..hi
      BY ZenonT(60), <1>1, <1>2, <3>1 DEF Numbered
    <3>2. CASE ~(n \in (lo+1)..hi)
      <4>1. n - hi \in 1..Len(m) /\ hi + (n - hi) = n
            /\ Len(q) + (n - hi) \in 1..Len(r)
        BY <1>1, <2>1, <3>2
      <4> QED
        BY ZenonT(60), <1>1, <1>4, <4>1
    <3> QED
      BY <3>1, <3>2
  <2> QED
    BY <2>1, <2>4, <2>5, <2>6 DEF Numbered
<1> QED
  BY <1>3, <1>4 DEF r

-----------------------------------------------------------------------------
(* One Runner.  A method is calm when it keeps every stream lawful that    *)
(* the Runner's output ends, sends no packet of the session and leaves     *)
(* alone what the application has been given.                              *)

\* The fields that only the session and the connection state depend on
Beside(r, s) ==
  /\ r.conn = s.conn
  /\ r.got = s.got /\ r.rep = s.rep /\ r.nData = s.nData /\ r.nReq = s.nReq
  /\ r.rx = s.rx /\ r.rxs = s.rxs /\ r.extra = s.extra /\ r.idled = s.idled

Same(r, s) == Beside(r, s) /\ r.deferred = s.deferred

\* Whatever is in flight ahead of the output buffer
KeepsLaw(r, s) ==
  \A n \in Seq(Packet) : Lawful(n \o s.out, s) => Lawful(n \o r.out, r)

KeepsNumbers(r, s, T) ==
  \A n \in Seq(Packet), lo, hi \in Nat :
    Numbered(n \o s.out, T, lo, hi) => Numbered(n \o r.out, T, lo, hi)

Calm(r, s) ==
  /\ Typed(r) /\ Same(r, s)
  /\ r.err = "ok" => s.err = "ok"
  /\ KeepsLaw(r, s)
  /\ \A T \in CatSess : KeepsNumbers(r, s, T)

LEMMA CalmTrans ==
  ASSUME NEW s, NEW r, NEW q, Calm(r, s), Calm(q, r)
  PROVE  Calm(q, s)
<1>1. Same(q, s)
  BY DEF Calm, Same, Beside
<1>2. KeepsLaw(q, s)
  BY ZenonT(60) DEF Calm, KeepsLaw
<1>3. \A T \in CatSess : KeepsNumbers(q, s, T)
  BY ZenonT(60) DEF Calm, KeepsNumbers
<1> QED
  BY <1>1, <1>2, <1>3 DEF Calm

\* Nothing is sent and the flag stays
LEMMA SilentCalm ==
  ASSUME NEW s, NEW r, Typed(r), Same(r, s), r.out = s.out,
         r.err = "ok" => s.err = "ok" /\ r.sendingKex = s.sendingKex
  PROVE  Calm(r, s)
<1>1. KeepsLaw(r, s)
  BY DEF KeepsLaw, Lawful
<1>2. \A T \in CatSess : KeepsNumbers(r, s, T)
  BY DEF KeepsNumbers
<1> QED
  BY <1>1, <1>2 DEF Calm

LEMMA FailCalm ==
  ASSUME NEW s, Typed(s), NEW e \in Errors \ {"ok"}
  PROVE  Calm(Fail(s, e), s)
<1> DEFINE r == Fail(s, e)
<1>1. Typed(r) /\ r.err = e
  BY FailFacts
<1>2. Same(r, s) /\ r.out = s.out
  BY ZenonT(60) DEF Fail, Same, Beside, Typed, PeerState
<1> HIDE DEF r
<1>3. Calm(r, s)
  BY <1>1, <1>2, SilentCalm
<1> QED
  BY <1>3 DEF r

-----------------------------------------------------------------------------
(* TrafOut.                                                                *)

LEMMA PushKeeps ==
  ASSUME NEW s, Typed(s), s.err = "ok", NEW p \in Packet,
         NEW r, r.out = Append(s.out, p),
         s.sendingKex => p.t \in CatKex,
         p.t = "KexInit" => r.sendingKex,
         s.sendingKex /\ p.t # "NewKeys" => r.sendingKex
  PROVE  /\ KeepsLaw(r, s)
         /\ \A T : T # p.t => KeepsNumbers(r, s, T)
<1>1. s.out \in Seq(Packet)
  BY FieldTypes
<1>2. ASSUME NEW n \in Seq(Packet), Lawful(n \o s.out, s)
      PROVE  Lawful(n \o r.out, r)
  <2> DEFINE q == n \o s.out
  <2>1. q \in Seq(Packet) /\ n \o r.out = Append(q, p)
    BY <1>1, StreamMoves
  <2>2. Quiet(q) /\ (Open(q) => s.sendingKex)
    BY <1>2 DEF Lawful
  <2> HIDE DEF q
  <2>3. Quiet(Append(q, p))
    BY <2>1, <2>2, AppendQuiet
  <2>4. Open(Append(q, p)) => r.sendingKex
    BY <2>1, <2>2, AppendOpen
  <2> QED
    BY <2>1, <2>3, <2>4 DEF Lawful
<1>3. ASSUME NEW T, T # p.t, NEW n \in Seq(Packet), NEW lo \in Nat,
             NEW hi \in Nat, Numbered(n \o s.out, T, lo, hi)
      PROVE  Numbered(n \o r.out, T, lo, hi)
  <2> DEFINE q == n \o s.out
  <2>1. q \in Seq(Packet) /\ n \o r.out = Append(q, p)
    BY <1>1, StreamMoves
  <2> HIDE DEF q
  <2>2. Numbered(q, T, lo, hi)
    BY <1>3 DEF q
  <2> QED
    BY <1>3, <2>1, <2>2, NumberedAppend
<1> QED
  BY ZenonT(60), <1>2, <1>3 DEF KeepsLaw, KeepsNumbers

\* A packet fails to be sent, joins the stream, or is deferred
Pushed(r, s, t, v) ==
  /\ r.deferred = s.deferred
  /\ t \in CatKex \/ s.deferred = <<>>
  /\ \E p \in Packet : p.t = t /\ p.v = v /\ r.out = Append(s.out, p)

Queued(r, s, t, v) ==
  /\ r.out = s.out
  /\ t \in Deferrable /\ r.deferred = Append(s.deferred, <<t, v>>)

Sends(r, s, t, v) ==
  /\ Typed(r) /\ Beside(r, s)
  /\ r.err = "ok" => s.err = "ok"
  /\ KeepsLaw(r, s)
  /\ \A T : T # t => KeepsNumbers(r, s, T)
  /\ IF r.err = "ok" THEN Pushed(r, s, t, v) \/ Queued(r, s, t, v)
     ELSE r.out = s.out /\ r.deferred = s.deferred

LEMMA SilentKeeps ==
  ASSUME NEW s, NEW r, r.out = s.out,
         r.err = "ok" => s.err = "ok" /\ r.sendingKex = s.sendingKex
  PROVE  KeepsLaw(r, s) /\ \A T : KeepsNumbers(r, s, T)
  BY DEF KeepsLaw, Lawful, KeepsNumbers

LEMMA TrackFields ==
  ASSUME NEW s, Typed(s), NEW t, NEW r, r = TrackSendPacket(s, t)
  PROVE  Same(r, s) /\ r.out = s.out
<1>1. CASE r = s
  BY <1>1 DEF Same, Beside
<1>2. ASSUME NEW e \in Errors, r = Fail(s, e) PROVE Same(r, s) /\ r.out = s.out
  BY ZenonT(60), <1>2 DEF Fail, Same, Beside, Typed, PeerState
<1>3. ASSUME NEW b \in BOOLEAN, r = [s EXCEPT !.sendingKex = b]
      PROVE  Same(r, s) /\ r.out = s.out
  BY ZenonT(60), <1>3 DEF Same, Beside, Typed, PeerState
<1> QED
  BY ZenonT(60), <1>1, <1>2, <1>3 DEF TrackSendPacket, Errors

LEMMA EncryptFields ==
  ASSUME NEW s, Typed(s), NEW t \in PacketTypes, NEW v \in Values
  PROVE  LET r == Encrypt(s, t, v)
         IN  /\ Same(r, s)
             /\ \E p \in Packet : p.t = t /\ p.v = v /\ r.out = Append(s.out, p)
<1> DEFINE p == [t |-> t, v |-> v, k |-> s.enc, n |-> s.seqE]
           o == Append(s.out, p)
           u == s.used + 1
           n == s.seqE + 1
           b == s.blkOut + 1
           r == [s EXCEPT !.out = o, !.used = u, !.seqE = n, !.blkOut = b]
<1>1. p \in Packet /\ p.t = t /\ p.v = v
  BY FieldTypes DEF Packet
<1>2. Encrypt(s, t, v) = r
  BY DEF Encrypt
<1>3. Same(r, s) /\ r.out = o
  <2> HIDE DEF o, u, n, b
  <2> QED
    BY ZenonT(60) DEF Same, Beside, Typed, PeerState
<1> HIDE DEF r, p
<1> QED
  BY <1>1, <1>2, <1>3

LEMMA DeferFields ==
  ASSUME NEW s, Typed(s), NEW t, NEW v
  PROVE  LET r == Defer(s, t, v)
         IN  /\ Beside(r, s) /\ r.out = s.out
             /\ r.err = "ok" => t \in Deferrable
                                /\ r.deferred = Append(s.deferred, <<t, v>>)
             /\ r.err # "ok" /\ s.err = "ok" => r.deferred = s.deferred
<1> DEFINE d == Append(s.deferred, <<t, v>>)
           r == Defer(s, t, v)
<1>1. CASE t \in Deferrable /\ Len(s.deferred) < DeferCount
  <2>1. r = [s EXCEPT !.deferred = d]
    BY <1>1 DEF Defer
  <2> HIDE DEF d, r
  <2>2. Beside(r, s) /\ r.out = s.out /\ r.deferred = d /\ r.err = s.err
    BY ZenonT(60), <2>1 DEF Beside, Typed, PeerState
  <2> QED
    BY <1>1, <2>2 DEF d, r
<1>2. CASE ~(t \in Deferrable /\ Len(s.deferred) < DeferCount)
  <2>1. r = Fail(s, "BusySend")
    BY <1>2 DEF Defer
  <2> HIDE DEF r
  <2>2. Beside(r, s) /\ r.out = s.out /\ r.deferred = s.deferred
        /\ r.err = "BusySend"
    BY ZenonT(60), <2>1 DEF Fail, Beside, Typed, PeerState
  <2> QED
    BY <2>2 DEF r
<1> QED
  BY <1>1, <1>2

LEMMA SendPacketSends ==
  ASSUME NEW s, Typed(s), NEW t \in PacketTypes, NEW v \in Values
  PROVE  Sends(SendPacket(s, t, v), s, t, v)
<1> DEFINE r == SendPacket(s, t, v)
           c == TrackSendPacket(s, t)
<1>0. Sent(r, s, t) /\ Typed(r) /\ (r.err = "ok" => s.err = "ok")
  BY SendPacketFacts DEF Sent
<1>1. CASE s.err # "ok"
  <2>1. r = s
    BY <1>1 DEF SendPacket
  <2> HIDE DEF r
  <2> QED
    BY <1>0, <1>1, <2>1, SilentKeeps DEF Sends, Beside, r
<1>2. CASE s.err = "ok" /\ ~(t \in CatKex \/ (s.deferred = <<>> /\ ~s.sendingKex))
  <2>1. r = Defer(s, t, v)
    BY Zenon, <1>2 DEF SendPacket
  <2>2. /\ Beside(r, s) /\ r.out = s.out /\ r.sendingKex = s.sendingKex
        /\ r.err = "ok" => t \in Deferrable
                           /\ r.deferred = Append(s.deferred, <<t, v>>)
        /\ r.err # "ok" => r.deferred = s.deferred
    BY <1>2, <2>1, DeferFields, DeferFacts
  <2> HIDE DEF r
  <2>3. KeepsLaw(r, s) /\ \A T : KeepsNumbers(r, s, T)
    BY ZenonT(60), <1>2, <2>2, SilentKeeps
  <2>4. Sends(r, s, t, v)
    BY <1>0, <1>2, <2>2, <2>3 DEF Sends, Queued
  <2> QED
    BY <2>4 DEF r
<1>3. CASE s.err = "ok" /\ (t \in CatKex \/ (s.deferred = <<>> /\ ~s.sendingKex))
  <2>1. /\ Sent(c, s, t) /\ c.used = s.used /\ Typed(c)
        /\ Same(c, s) /\ c.out = s.out
    BY <1>3, TrackSendPacketFacts, TrackFields DEF Sent
  <2>2. CASE c.err # "ok"
    <3>1. r = c
      BY <1>3, <2>2 DEF SendPacket
    <3> HIDE DEF r, c
    <3>2. Sends(r, s, t, v)
      BY ZenonT(60), <1>3, <2>1, <2>2, <3>1, SilentKeeps DEF Sends, Same
    <3> QED
      BY <3>2 DEF r
  <2>3. CASE c.err = "ok" /\ s.used < OutRoom
    <3>1. r = Encrypt(c, t, v)
      BY <1>3, <2>3 DEF SendPacket
    <3>2. PICK p \in Packet : p.t = t /\ p.v = v /\ r.out = Append(c.out, p)
      BY <2>1, <3>1, EncryptFields
    <3>3. Same(r, c) /\ r.err = c.err
      BY <2>1, <2>3, <3>1, EncryptFields, EncryptFacts
    <3> HIDE DEF r, c
    <3>4. Same(r, s) /\ r.out = Append(s.out, p)
      BY <2>1, <3>2, <3>3 DEF Same, Beside
    <3>5. /\ s.sendingKex => p.t \in CatKex
          /\ p.t = "KexInit" => r.sendingKex
          /\ s.sendingKex /\ p.t # "NewKeys" => r.sendingKex
      <4>1. "KexInit" \notin CatKex
        BY DEF CatKex
      <4> QED
        BY <1>0, <1>3, <2>3, <3>2, <3>3, <4>1 DEF Sent
    <3>6. KeepsLaw(r, s) /\ \A T : T # t => KeepsNumbers(r, s, T)
      BY Zenon, <1>3, <3>2, <3>4, <3>5, PushKeeps
    <3>7. Sends(r, s, t, v)
      BY <1>0, <1>3, <2>3, <3>2, <3>3, <3>4, <3>6 DEF Sends, Pushed, Same
    <3> QED
      BY <3>7 DEF r
  <2>4. CASE c.err = "ok" /\ ~(s.used < OutRoom) /\ t \in CatKex
    <3>1. r = Fail(c, "Assert")
      BY <1>3, <2>4 DEF SendPacket
    <3>2. r.err # "ok" /\ Calm(r, c) /\ r.out = c.out
      <4>1. "Assert" \in Errors \ {"ok"}
        BY DEF Errors
      <4>2. Calm(r, c) /\ r.err = "Assert"
        BY <2>1, <3>1, <4>1, FailCalm, FailFacts
      <4>3. r.out = c.out
        <5> HIDE DEF r, c
        <5> QED
          BY ZenonT(60), <2>1, <3>1 DEF Fail, Typed, PeerState
      <4> QED
        BY <4>2, <4>3
    <3> HIDE DEF r, c
    <3>3. Sends(r, s, t, v)
      BY <1>0, <1>3, <2>1, <3>2, SilentKeeps DEF Sends, Calm, Same, Beside
    <3> QED
      BY <3>3 DEF r
  <2>5. CASE c.err = "ok" /\ ~(s.used < OutRoom) /\ t \notin CatKex
    <3>1. r = Defer(c, t, v)
      BY Zenon, <1>3, <2>5 DEF SendPacket
    <3>2. /\ Beside(r, c) /\ r.out = c.out /\ r.sendingKex = c.sendingKex
          /\ r.err = "ok" => t \in Deferrable
                             /\ r.deferred = Append(c.deferred, <<t, v>>)
          /\ r.err # "ok" => r.deferred = c.deferred
      BY <2>1, <2>5, <3>1, DeferFields, DeferFacts
    <3> HIDE DEF r, c
    <3>3. /\ Beside(r, s) /\ r.out = s.out /\ r.deferred = r.deferred
          /\ r.err = "ok" => t \in Deferrable
                             /\ r.deferred = Append(s.deferred, <<t, v>>)
          /\ r.err # "ok" => r.deferred = s.deferred
      BY <2>1, <3>2 DEF Same, Beside
    <3>4. r.err = "ok" => r.sendingKex = s.sendingKex
      BY <2>1, <2>5, <3>2 DEF Sent, Deferrable
    <3>5. KeepsLaw(r, s) /\ \A T : KeepsNumbers(r, s, T)
      BY Zenon, <1>3, <3>3, <3>4, SilentKeeps
    <3>6. Sends(r, s, t, v)
      BY <1>0, <1>3, <3>3, <3>5 DEF Sends, Queued
    <3> QED
      BY <3>6 DEF r
  <2> QED
    BY <2>2, <2>3, <2>4, <2>5
<1> QED
  BY <1>1, <1>2, <1>3

\* A packet that is not of the session
LEMMA SendCalm ==
  ASSUME NEW s, Typed(s), NEW t \in PacketTypes, t \notin CatSess,
         NEW v \in Values
  PROVE  Calm(SendPacket(s, t, v), s)
<1> DEFINE r == SendPacket(s, t, v)
<1>1. Sends(r, s, t, v)
  BY SendPacketSends
<1> HIDE DEF r
<1>2. t \notin Deferrable
  BY DEF Deferrable, CatSess
<1>3. r.deferred = s.deferred
  BY <1>1, <1>2 DEF Sends, Pushed, Queued
<1>4. \A T \in CatSess : KeepsNumbers(r, s, T)
  BY ZenonT(60), <1>1 DEF Sends
<1>5. Calm(r, s)
  BY <1>1, <1>3, <1>4 DEF Calm, Sends, Same
<1> QED
  BY <1>5 DEF r

\* Deferred packets: the first of them join the stream in their order
Moved(r, s) ==
  \E m \in Seq(Packet) :
    /\ m = <<>> \/ ~s.sendingKex
    /\ r.out = s.out \o m
    /\ Len(m) <= Len(s.deferred)
    /\ \A i \in 1..Len(m) : m[i].t = s.deferred[i][1] /\ m[i].v = s.deferred[i][2]
    /\ Len(r.deferred) = Len(s.deferred) - Len(m)
    /\ \A i \in 1..Len(r.deferred) : r.deferred[i] = s.deferred[Len(m) + i]

LEMMA SendDeferredMoves ==
  ASSUME NEW s, Typed(s), s.err = "ok"
  PROVE  LET r == SendDeferredPackets(s)
         IN  /\ Typed(r) /\ Beside(r, s)
             /\ IF r.err = "ok" THEN Moved(r, s) /\ r.sendingKex = s.sendingKex
                ELSE r.out = s.out /\ r.deferred = s.deferred
<1> DEFINE room  == IF s.used < OutRoom THEN OutRoom - s.used ELSE 0
           count == IF Len(s.deferred) < room THEN Len(s.deferred) ELSE room
           moved == [i \in 1..count |->
                       [t |-> s.deferred[i][1], v |-> s.deferred[i][2],
                        k |-> s.enc, n |-> s.seqE + (i - 1)]]
           o == s.out \o moved
           u == s.used + count
           n == s.seqE + count
           b == s.blkOut + count
           d == SubSeq(s.deferred, count + 1, Len(s.deferred))
           r == SendDeferredPackets(s)
<1>0. Typed(r) /\ (r.err = "ok" => r.sendingKex = s.sendingKex)
  BY SendDeferredPacketsFacts DEF Sent
<1>1. /\ s.out \in Seq(Packet) /\ s.deferred \in Seq(PacketTypes \X Values)
      /\ Len(s.deferred) \in Nat /\ s.used \in Nat /\ OutRoom \in Nat
      /\ s.enc \in Values /\ s.seqE \in Nat
  BY FieldTypes, TransportAssumption
<1>2. CASE s.deferred = <<>>
  <2>1. r = s
    BY <1>2 DEF SendDeferredPackets
  <2> HIDE DEF r
  <2>2. <<>> \in Seq(Packet) /\ s.out = s.out \o <<>> /\ Len(<<>>) = 0
    BY <1>1
  <2>3. Moved(r, s)
    <3> DEFINE m == <<>>
    <3>1. /\ m \in Seq(Packet) /\ m = <<>> /\ r.out = s.out \o m
          /\ Len(m) <= Len(s.deferred)
          /\ \A i \in 1..Len(m) : m[i].t = s.deferred[i][1]
                                 /\ m[i].v = s.deferred[i][2]
          /\ Len(r.deferred) = Len(s.deferred) - Len(m)
          /\ \A i \in 1..Len(r.deferred) : r.deferred[i] = s.deferred[Len(m) + i]
      BY <1>1, <2>1, <2>2
    <3> HIDE DEF m
    <3> QED
      BY ZenonT(60), <3>1 DEF Moved
  <2>4. Beside(r, s)
    BY <2>1 DEF Beside
  <2> QED
    BY <1>0, <2>1, <2>3, <2>4 DEF r
<1>3. CASE s.deferred # <<>> /\ s.sendingKex
  <2>1. r = Fail(s, "Assert")
    BY <1>3 DEF SendDeferredPackets
  <2> HIDE DEF r
  <2>2. Same(r, s) /\ r.out = s.out /\ r.err = "Assert"
    BY ZenonT(60), <2>1 DEF Fail, Same, Beside, Typed, PeerState
  <2> QED
    BY <1>0, <2>2 DEF r, Same
<1>4. CASE s.deferred # <<>> /\ ~s.sendingKex
  <2>1. r = [s EXCEPT !.out = o, !.used = u, !.seqE = n, !.blkOut = b,
                      !.deferred = d]
    BY <1>4 DEF SendDeferredPackets
  <2>2. count \in Nat /\ count <= Len(s.deferred)
    <3>1. room \in Nat
      BY <1>1
    <3> HIDE DEF room
    <3> QED
      BY <1>1, <3>1
  <2>3. /\ moved \in Seq(Packet) /\ Len(moved) = count
        /\ \A i \in 1..count : /\ moved[i].t = s.deferred[i][1]
                               /\ moved[i].v = s.deferred[i][2]
    <3> HIDE DEF count
    <3>1. \A i \in 1..count :
            /\ s.deferred[i][1] \in PacketTypes /\ s.deferred[i][2] \in Values
            /\ s.seqE + (i - 1) \in Nat
      BY <1>1, <2>2
    <3>2. \A i \in 1..count :
            [t |-> s.deferred[i][1], v |-> s.deferred[i][2],
             k |-> s.enc, n |-> s.seqE + (i - 1)] \in Packet
      BY <1>1, <3>1 DEF Packet
    <3>3. count \in Nat
      BY <2>2
    <3>4. /\ moved \in [1..count -> Packet]
          /\ \A i \in 1..count : /\ moved[i].t = s.deferred[i][1]
                                 /\ moved[i].v = s.deferred[i][2]
      BY <3>2
    <3> HIDE DEF moved, count
    <3>5. moved \in Seq(Packet) /\ Len(moved) = count
      BY ZenonT(60), <3>3, <3>4, Listed
    <3> QED
      BY <3>4, <3>5
  <2>4. /\ Len(d) = Len(s.deferred) - count
        /\ \A i \in 1..Len(d) : d[i] = s.deferred[count + i]
    <3> HIDE DEF count
    <3> QED
      BY <1>1, <2>2
  <2> HIDE DEF d, o, u, n, b, r
  <2>5. Beside(r, s) /\ r.out = o /\ r.deferred = d
    BY ZenonT(60), <2>1 DEF Beside, Typed, PeerState
  <2> HIDE DEF count, moved
  <2>6. Moved(r, s)
    BY ZenonT(60), <1>4, <2>2, <2>3, <2>4, <2>5 DEF Moved, o
  <2> QED
    BY <1>0, <2>1, <2>5, <2>6 DEF r
<1> QED
  BY <1>2, <1>3, <1>4

LEMMA MovedKeeps ==
  ASSUME NEW s, Typed(s), s.err = "ok", NEW r, Moved(r, s),
         r.sendingKex = s.sendingKex,
         \A i \in 1..Len(s.deferred) : s.deferred[i][1] = "Reply"
  PROVE  /\ KeepsLaw(r, s)
         /\ \A T : T # "Reply" => KeepsNumbers(r, s, T)
         /\ \A i \in 1..Len(r.deferred) : r.deferred[i][1] = "Reply"
<1>1. PICK m \in Seq(Packet) :
        /\ m = <<>> \/ ~s.sendingKex
        /\ r.out = s.out \o m
        /\ Len(m) <= Len(s.deferred)
        /\ \A i \in 1..Len(m) : m[i].t = s.deferred[i][1]
        /\ Len(r.deferred) = Len(s.deferred) - Len(m)
        /\ \A i \in 1..Len(r.deferred) : r.deferred[i] = s.deferred[Len(m) + i]
  BY ZenonT(60) DEF Moved
<1>2. /\ s.out \in Seq(Packet) /\ Len(m) \in Nat
      /\ s.deferred \in Seq(PacketTypes \X Values) /\ Len(s.deferred) \in Nat
  BY FieldTypes
<1>3. \A i \in 1..Len(m) : m[i].t = "Reply"
  BY <1>1, <1>2
<1>4. \A i \in 1..Len(r.deferred) : r.deferred[i][1] = "Reply"
  <2> TAKE i \in 1..Len(r.deferred)
  <2>1. Len(m) + i \in 1..Len(s.deferred)
    BY <1>1, <1>2
  <2> QED
    BY <1>1, <2>1
<1>5. ASSUME NEW n \in Seq(Packet)
      PROVE  /\ n \o s.out \in Seq(Packet)
             /\ n \o r.out = (n \o s.out) \o m
             /\ m = <<>> => n \o r.out = n \o s.out
  <2>1. n \o s.out \in Seq(Packet)
    BY <1>2, Joined
  <2>2. (n \o s.out) \o m = n \o (s.out \o m)
    BY ZenonT(60), <1>2, StreamAssociative
  <2>3. m = <<>> => s.out \o m = s.out
    BY <1>2, Joined
  <2> QED
    BY ZenonT(60), <1>1, <2>1, <2>2, <2>3
<1>6. ASSUME NEW n \in Seq(Packet), Lawful(n \o s.out, s)
      PROVE  Lawful(n \o r.out, r)
  <2> DEFINE q == n \o s.out
  <2>1. /\ q \in Seq(Packet) /\ n \o r.out = q \o m
        /\ m = <<>> => n \o r.out = q
    BY ZenonT(60), <1>5
  <2>2. Quiet(q) /\ (Open(q) => s.sendingKex)
    BY <1>6 DEF Lawful
  <2> HIDE DEF q
  <2>3. CASE m = <<>>
    BY <2>1, <2>2, <2>3 DEF Lawful
  <2>4. CASE ~s.sendingKex
    BY <1>3, <2>1, <2>2, <2>4, RepliesQuiet DEF Lawful
  <2> QED
    BY <1>1, <2>3, <2>4
<1>7. ASSUME NEW T, T # "Reply", NEW n \in Seq(Packet), NEW lo \in Nat,
             NEW hi \in Nat, Numbered(n \o s.out, T, lo, hi)
      PROVE  Numbered(n \o r.out, T, lo, hi)
  <2> DEFINE q == n \o s.out
  <2>1. q \in Seq(Packet) /\ n \o r.out = q \o m
    BY ZenonT(60), <1>5
  <2>2. Numbered(q, T, lo, hi)
    BY <1>7
  <2> HIDE DEF q
  <2> QED
    BY <1>3, <1>7, <2>1, <2>2, RepliesNumbered
<1> QED
  BY ZenonT(60), <1>4, <1>6, <1>7 DEF KeepsLaw, KeepsNumbers

-----------------------------------------------------------------------------
(* Kex.  Every method of the key exchange is calm.                         *)

LEMMA CalmRefl ==
  ASSUME NEW s, Typed(s)
  PROVE  Calm(s, s)
  BY SilentCalm DEF Same, Beside

LEMMA PutCalm ==
  ASSUME NEW s, Typed(s)
  PROVE  /\ \A k \in KexStates : Calm([s EXCEPT !.kex = k], s)
         /\ \A b \in BOOLEAN : Calm([s EXCEPT !.drain = b], s)
         /\ \A e \in Events : Calm([s EXCEPT !.ev = e], s)
         /\ \A x \in Nat, b \in BOOLEAN :
              Calm([s EXCEPT !.theirs = x, !.strict = b], s)
         /\ Calm([s EXCEPT !.sess = TRUE], s)
<1>1. ASSUME NEW r, Typed(r), NEW k \in KexStates, r = [s EXCEPT !.kex = k]
      PROVE  Calm(r, s)
  <2>1. Same(r, s) /\ r.out = s.out /\ r.err = s.err
        /\ r.sendingKex = s.sendingKex
    BY ZenonT(60), <1>1 DEF Same, Beside, Typed, PeerState
  <2> QED
    BY ZenonT(60), <1>1, <2>1, SilentCalm
<1>2. ASSUME NEW r, Typed(r), NEW b \in BOOLEAN, r = [s EXCEPT !.drain = b]
      PROVE  Calm(r, s)
  <2>1. Same(r, s) /\ r.out = s.out /\ r.err = s.err
        /\ r.sendingKex = s.sendingKex
    BY ZenonT(60), <1>2 DEF Same, Beside, Typed, PeerState
  <2> QED
    BY ZenonT(60), <1>2, <2>1, SilentCalm
<1>3. ASSUME NEW r, Typed(r), NEW e \in Events, r = [s EXCEPT !.ev = e]
      PROVE  Calm(r, s)
  <2>1. Same(r, s) /\ r.out = s.out /\ r.err = s.err
        /\ r.sendingKex = s.sendingKex
    BY ZenonT(60), <1>3 DEF Same, Beside, Typed, PeerState
  <2> QED
    BY ZenonT(60), <1>3, <2>1, SilentCalm
<1>4. ASSUME NEW r, Typed(r), NEW x \in Nat, NEW b \in BOOLEAN,
             r = [s EXCEPT !.theirs = x, !.strict = b]
      PROVE  Calm(r, s)
  <2>1. Same(r, s) /\ r.out = s.out /\ r.err = s.err
        /\ r.sendingKex = s.sendingKex
    BY ZenonT(60), <1>4 DEF Same, Beside, Typed, PeerState
  <2> QED
    BY ZenonT(60), <1>4, <2>1, SilentCalm
<1>5. ASSUME NEW r, r = [s EXCEPT !.sess = TRUE]
      PROVE  Calm(r, s)
  <2>1. Typed(r) /\ Same(r, s) /\ r.out = s.out /\ r.err = s.err
        /\ r.sendingKex = s.sendingKex
    BY ZenonT(60), <1>5 DEF Same, Beside, Typed, PeerState
  <2> QED
    BY ZenonT(60), <1>5, <2>1, SilentCalm
<1>6. /\ \A k \in KexStates : Typed([s EXCEPT !.kex = k])
      /\ \A b \in BOOLEAN : Typed([s EXCEPT !.drain = b])
      /\ \A e \in Events : Typed([s EXCEPT !.ev = e])
      /\ \A x \in Nat, b \in BOOLEAN :
           Typed([s EXCEPT !.theirs = x, !.strict = b])
  BY ZenonT(60), PutKex, PutDrain, PutEvent, PeerCookieFacts DEF Alike
<1> QED
  BY ZenonT(60), <1>1, <1>2, <1>3, <1>4, <1>5, <1>6

LEMMA BecomeCalm ==
  ASSUME NEW s, Typed(s), NEW k \in KexStates
  PROVE  Calm(Become(s, k), s)
  BY ZenonT(60), PutCalm, CalmRefl DEF Become

LEMMA SetDrainCalm ==
  ASSUME NEW s, Typed(s), NEW b \in BOOLEAN
  PROVE  Calm(SetDrainOutput(s, b), s)
<1>1. "Assert" \in Errors \ {"ok"}
  BY DEF Errors
<1> QED
  BY ZenonT(60), <1>1, PutCalm, FailCalm DEF SetDrainOutput

LEMMA StartKexInitCalm ==
  ASSUME NEW s, Typed(s)
  PROVE  Calm(StartKexInit(s), s)
<1>1. CASE s.kex # "Idle"
  <2>1. "Assert" \in Errors \ {"ok"}
    BY DEF Errors
  <2> QED
    BY ZenonT(60), <1>1, <2>1, FailCalm DEF StartKexInit
<1>2. CASE s.kex = "Idle"
  <2> DEFINE d == SetDrainOutput(s, TRUE)
  <2>1. Calm(d, s) /\ Typed(d)
    BY ZenonT(60), SetDrainCalm DEF Calm
  <2>2. StartKexInit(s) = Become(d, "StartKexInit")
    BY <1>2 DEF StartKexInit
  <2> HIDE DEF d
  <2>3. Calm(Become(d, "StartKexInit"), d)
    BY <2>1, BecomeCalm DEF KexStates
  <2> QED
    BY ZenonT(60), <2>1, <2>2, <2>3, CalmTrans
<1> QED
  BY <1>1, <1>2

LEMMA NewCookieCalm ==
  ASSUME NEW s, Typed(s)
  PROVE  Calm(NewCookie(s), s)
<1> DEFINE c == s.cookies + 1
           r == [s EXCEPT !.cookies = c, !.mine = c]
<1>1. NewCookie(s) = r /\ Typed(NewCookie(s))
  BY ZenonT(60), NewCookieFacts DEF NewCookie, Alike
<1> HIDE DEF c
<1>2. Same(r, s) /\ r.out = s.out /\ r.err = s.err
      /\ r.sendingKex = s.sendingKex
  BY ZenonT(60) DEF Same, Beside, Typed, PeerState
<1> HIDE DEF r
<1> QED
  BY <1>1, <1>2, SilentCalm

LEMMA RekeyCalm ==
  ASSUME NEW s, Typed(s), NEW key \in Values
  PROVE  Calm(RekeySend(s, key), s) /\ Calm(RekeyRecv(s, key), s)
<1> DEFINE e == IF s.strict THEN 0 ELSE s.seqE
           d == IF s.strict THEN 0 ELSE s.seqD
           r1 == [s EXCEPT !.enc = key, !.seqE = e, !.blkOut = 0]
           r2 == [s EXCEPT !.dec = key, !.seqD = d, !.blkIn = 0]
<1>1. RekeySend(s, key) = r1 /\ RekeyRecv(s, key) = r2
  BY DEF RekeySend, RekeyRecv
<1>2. Typed(RekeySend(s, key)) /\ Typed(RekeyRecv(s, key))
  BY RekeyFacts DEF Alike
<1> HIDE DEF e, d
<1>3. Same(r1, s) /\ r1.out = s.out /\ r1.err = s.err
      /\ r1.sendingKex = s.sendingKex
  BY ZenonT(60) DEF Same, Beside, Typed, PeerState
<1>4. Same(r2, s) /\ r2.out = s.out /\ r2.err = s.err
      /\ r2.sendingKex = s.sendingKex
  BY ZenonT(60) DEF Same, Beside, Typed, PeerState
<1> HIDE DEF r1, r2
<1> QED
  BY <1>1, <1>2, <1>3, <1>4, SilentCalm

LEMMA SendKexDHInitCalm ==
  ASSUME NEW s, Typed(s)
  PROVE  Calm(SendKexDHInit(s), s)
<1>1. "KexDHInit" \in PacketTypes /\ "KexDHInit" \notin CatSess
      /\ NoValue \in Values
  BY DEF PacketTypes, CatKex, CatSess, NoValue, Values
<1> QED
  BY ZenonT(60), <1>1, SendCalm, CalmRefl DEF SendKexDHInit

LEMMA SendKexInitCalm ==
  ASSUME NEW s, Typed(s), NEW c, Calm(c, s)
  PROVE  LET i == SendPacket(c, "KexInit", <<c.mine, 0>>)
         IN  Calm(i, s) /\ Typed(i)
<1> DEFINE v == <<c.mine, 0>>
<1>1. "KexInit" \in PacketTypes /\ "KexInit" \notin CatSess
  BY DEF PacketTypes, CatAll, CatSess
<1>2. Typed(c) /\ v \in Values
  BY FieldTypes DEF Calm, Values
<1> HIDE DEF v
<1>3. Calm(SendPacket(c, "KexInit", v), c)
  BY <1>1, <1>2, SendCalm
<1>4. Calm(SendPacket(c, "KexInit", v), s)
  BY ZenonT(60), <1>3, CalmTrans
<1> QED
  BY <1>4 DEF Calm, v

LEMMA KexProgressCalm ==
  ASSUME NEW s, Typed(s)
  PROVE  Calm(KexProgress(s), s)
<1> DEFINE d == SetDrainOutput(s, FALSE)
<1>0. Calm(d, s) /\ Typed(d)
  BY ZenonT(60), SetDrainCalm DEF Calm
<1>1. CASE s.kex = "Idle" \/ KexProgress(s) = s
  BY ZenonT(60), <1>1, StartKexInitCalm, CalmRefl DEF KexProgress
<1>2. CASE s.kex = "StartKexInit" /\ IsDrained(s)
  <2> DEFINE c == NewCookie(d)
             i == SendPacket(c, "KexInit", <<c.mine, 0>>)
  <2>1. KexProgress(s) = Become(i, "KexInit")
    BY <1>2 DEF KexProgress
  <2> HIDE DEF d
  <2>2. Calm(c, s)
    BY ZenonT(60), <1>0, NewCookieCalm, CalmTrans
  <2> HIDE DEF c
  <2>3. Calm(i, s) /\ Typed(i)
    BY <2>2, SendKexInitCalm
  <2> HIDE DEF i
  <2>4. Calm(Become(i, "KexInit"), i)
    BY <2>3, BecomeCalm DEF KexStates
  <2> QED
    BY ZenonT(60), <2>1, <2>3, <2>4, CalmTrans
<1>3. CASE s.kex = "StartKexDH" /\ IsDrained(s)
  <2> DEFINE c == [d EXCEPT !.kex = "Taken"]
             i == SendPacket(c, "KexInit", <<c.mine, 0>>)
             h == SendKexDHInit(i)
  <2>1. KexProgress(s) = Become(h, "KexDH")
    BY <1>3 DEF KexProgress
  <2> HIDE DEF d
  <2>2. Calm(c, s)
    <3>1. "Taken" \in KexStates
      BY DEF KexStates
    <3> QED
      BY ZenonT(60), <1>0, <3>1, PutCalm, CalmTrans
  <2> HIDE DEF c
  <2>3. Calm(i, s) /\ Typed(i)
    BY <2>2, SendKexInitCalm
  <2> HIDE DEF i
  <2>4. Calm(h, i)
    BY <2>3, SendKexDHInitCalm
  <2>5. Calm(h, s) /\ Typed(h)
    BY ZenonT(60), <2>3, <2>4, CalmTrans DEF Calm
  <2> HIDE DEF h
  <2>6. Calm(Become(h, "KexDH"), h)
    BY <2>5, BecomeCalm DEF KexStates
  <2> QED
    BY ZenonT(60), <2>1, <2>5, <2>6, CalmTrans
<1>4. CASE s.kex = "Taken"
  <2>1. "Bug" \in Errors \ {"ok"}
    BY DEF Errors
  <2>2. KexProgress(s) = Fail(s, "Bug")
    BY <1>4 DEF KexProgress
  <2> QED
    BY <2>1, <2>2, FailCalm
<1> QED
  BY ZenonT(60), <1>1, <1>2, <1>3, <1>4 DEF KexProgress

LEMMA HandleKexInitCalm ==
  ASSUME NEW s, Typed(s)
  PROVE  Calm(HandleKexInit(s), s)
<1> DEFINE start   == s.kex # "KexInit"
           cookie  == IF start THEN NewCookie(s) ELSE s
           b       == cookie.strict \/ (IsFirstKex(s) /\ Strict)
           known   == [cookie EXCEPT !.theirs = s.rx.v[1], !.strict = b]
           drained == IF s.kex = "Idle" THEN SetDrainOutput(known, TRUE)
                      ELSE known
           dh      == SendKexDHInit(known)
<1>1. \/ HandleKexInit(s) = Fail(s, "PacketWrong")
      \/ HandleKexInit(s) = Become(drained, "StartKexDH")
      \/ HandleKexInit(s) = Become(dh, "KexDH")
  BY ZenonT(60) DEF HandleKexInit
<1>2. Calm(cookie, s) /\ Typed(cookie)
  BY ZenonT(60), NewCookieCalm, CalmRefl DEF Calm
<1>3. b \in BOOLEAN /\ s.rx.v[1] \in Nat
  BY PacketValue
<1> HIDE DEF cookie, b
<1>4. Calm(known, cookie)
  BY ZenonT(60), <1>2, <1>3, PutCalm
<1> HIDE DEF known
<1>5. Calm(known, s) /\ Typed(known)
  BY ZenonT(60), <1>2, <1>4, CalmTrans DEF Calm
<1>6. Calm(drained, s) /\ Typed(drained)
  BY ZenonT(60), <1>5, SetDrainCalm, CalmTrans DEF Calm
<1>7. Calm(dh, s) /\ Typed(dh)
  BY ZenonT(60), <1>5, SendKexDHInitCalm, CalmTrans DEF Calm
<1> HIDE DEF drained, dh
<1>8. Calm(Become(drained, "StartKexDH"), s)
  BY ZenonT(60), <1>6, BecomeCalm, CalmTrans DEF KexStates
<1>9. Calm(Become(dh, "KexDH"), s)
  BY ZenonT(60), <1>7, BecomeCalm, CalmTrans DEF KexStates
<1>10. Calm(Fail(s, "PacketWrong"), s)
  BY ZenonT(60), FailCalm DEF Errors
<1> QED
  BY ZenonT(60), <1>1, <1>8, <1>9, <1>10

LEMMA HandleNewKeysCalm ==
  ASSUME NEW s, Typed(s)
  PROVE  Calm(HandleNewKeys(s), s)
<1> DEFINE c == [s EXCEPT !.kex = "Taken"]
           k == RekeyRecv(s, KexHash(s))
           r == [k EXCEPT !.kex = "Idle"]
<1>1. HandleNewKeys(s) = Fail(c, "PacketWrong") \/ HandleNewKeys(s) = r
  BY DEF HandleNewKeys
<1>2. "Taken" \in KexStates /\ "Idle" \in KexStates
      /\ "PacketWrong" \in Errors \ {"ok"}
  BY DEF KexStates, Errors
<1>3. Calm(c, s) /\ Typed(c)
  BY ZenonT(60), <1>2, PutCalm DEF Calm
<1> HIDE DEF c
<1>4. Calm(Fail(c, "PacketWrong"), s)
  BY ZenonT(60), <1>2, <1>3, FailCalm, CalmTrans
<1>5. Calm(k, s) /\ Typed(k)
  BY ZenonT(60), KexHashType, RekeyCalm DEF Calm
<1> HIDE DEF k
<1>6. Calm(r, s)
  BY ZenonT(60), <1>2, <1>5, PutCalm, CalmTrans
<1> QED
  BY ZenonT(60), <1>1, <1>4, <1>6

LEMMA SendNewKeysCalm ==
  ASSUME NEW s, Typed(s)
  PROVE  Calm(SendNewKeys(s), s)
<1> DEFINE sent == SendPacket(s, "NewKeys", NoValue)
           c == [sent EXCEPT !.sess = TRUE]
           k == RekeySend(c, KexHash(s))
<1>1. SendNewKeys(s) = sent \/ SendNewKeys(s) = Become(k, "NewKeys")
  BY DEF SendNewKeys
<1>2. Calm(sent, s) /\ Typed(sent)
  <2>1. "NewKeys" \in PacketTypes /\ "NewKeys" \notin CatSess
        /\ NoValue \in Values
    BY DEF PacketTypes, CatKex, CatSess, NoValue, Values
  <2> QED
    BY ZenonT(60), <2>1, SendCalm DEF Calm
<1> HIDE DEF sent
<1>3. Calm(c, s) /\ Typed(c)
  BY ZenonT(60), <1>2, PutCalm, CalmTrans DEF Calm
<1> HIDE DEF c
<1>4. Calm(k, s) /\ Typed(k)
  BY ZenonT(60), <1>3, KexHashType, RekeyCalm, CalmTrans DEF Calm
<1> HIDE DEF k
<1>5. Calm(Become(k, "NewKeys"), s)
  BY ZenonT(60), <1>4, BecomeCalm, CalmTrans DEF KexStates
<1> QED
  BY ZenonT(60), <1>1, <1>2, <1>5

-----------------------------------------------------------------------------
(* The order of data, requests and answers, for one Runner s whose output  *)
(* ends a stream, whatever the other Runner has and is sending.            *)

KeepsOrder(r, s) ==
  \A o, n, inc :
    (Typed(o) /\ n \in Seq(Packet) /\ inc \in Seq(Packet)
       /\ OrderOf(s, o, n \o s.out, inc))
    => OrderOf(r, o, n \o r.out, inc)

LEMMA CountTypes ==
  ASSUME NEW s, Typed(s)
  PROVE  /\ DataIn(s) \in Nat /\ RepliesIn(s) \in Nat
         /\ \A mid \in Nat : ReqsIn(s, mid) \in Nat
         /\ s.nData \in Nat /\ s.nReq \in Nat
<1>1. /\ Len(s.got) \in Nat /\ Len(s.rep) \in Nat /\ Len(s.deferred) \in Nat
      /\ s.nData \in Nat /\ s.nReq \in Nat
  BY FieldTypes
<1> QED
  BY <1>1 DEF DataIn, RepliesIn, ReqsIn

\* No packet of the session has been taken in, handled or sent
Undisturbed(r, s) ==
  /\ r.err = "ok" => s.err = "ok"
  /\ r.got = s.got /\ r.rep = s.rep /\ r.nData = s.nData /\ r.nReq = s.nReq
  /\ r.deferred = s.deferred /\ r.rx = s.rx
  /\ \A T \in CatSess : KeepsNumbers(r, s, T)
  /\ r.err = "ok" => /\ HasData(r) <=> HasData(s)
                     /\ Holds(r, "Reply") <=> Holds(s, "Reply")
                     /\ Holds(r, "Req") <=> Holds(s, "Req")

LEMMA UndisturbedOrder ==
  ASSUME NEW s, Typed(s), NEW r, Undisturbed(r, s)
  PROVE  KeepsOrder(r, s)
<1> SUFFICES ASSUME NEW o, Typed(o), NEW n \in Seq(Packet),
                    NEW inc \in Seq(Packet),
                    OrderOf(s, o, n \o s.out, inc)
             PROVE  OrderOf(r, o, n \o r.out, inc)
  BY ZenonT(60) DEF KeepsOrder
<1> DEFINE a == n \o s.out
           b == n \o r.out
<1>1. \A T \in CatSess, lo, hi \in Nat :
        Numbered(a, T, lo, hi) => Numbered(b, T, lo, hi)
  BY ZenonT(60) DEF Undisturbed, KeepsNumbers
<1>2. "Data" \in CatSess /\ "Req" \in CatSess /\ "Reply" \in CatSess
  BY DEF CatSess
<1>3. OrderOf(s, o, a, inc)
  OBVIOUS
<1> HIDE DEF a, b
<1>4. DataOK(r, o, b)
  <2> SUFFICES ASSUME o.err = "ok" PROVE DataOK(r, o, b)
    BY Zenon DEF DataOK
  <2>1. PICK hi \in Nat : /\ Numbered(a, "Data", DataIn(o), hi)
                          /\ s.err = "ok" => hi = s.nData
    BY <1>3 DEF OrderOf, DataOK
  <2>2. Numbered(b, "Data", DataIn(o), hi)
    BY Zenon, <1>1, <1>2, <2>1, CountTypes
  <2>3. r.err = "ok" => hi = r.nData
    BY <2>1 DEF Undisturbed
  <2> QED
    BY Zenon, <1>3, <2>2, <2>3 DEF OrderOf, DataOK
<1>5. DataOK(o, r, inc)
  <2> SUFFICES ASSUME r.err = "ok" PROVE DataOK(o, r, inc)
    BY DEF DataOK
  <2>1. DataIn(r) = DataIn(s)
    BY Zenon DEF Undisturbed, DataIn
  <2> QED
    BY Zenon, <1>3, <2>1 DEF OrderOf, DataOK, Undisturbed
<1>6. ReplyOK(r, o, b, inc)
  <2> SUFFICES ASSUME r.err = "ok" PROVE ReplyOK(r, o, b, inc)
    BY Zenon DEF ReplyOK
  <2>1. PICK mid \in Nat :
          /\ Numbered(inc, "Reply", RepliesIn(s), mid)
          /\ o.err = "ok" =>
               /\ \A i \in 1..Len(o.deferred) : o.deferred[i][2][1] = mid + i
               /\ Holds(o, "Req") => o.rx.v[1] = mid + Len(o.deferred) + 1
               /\ Numbered(a, "Req", ReqsIn(o, mid), s.nReq)
    BY Zenon, <1>3 DEF OrderOf, ReplyOK, Undisturbed
  <2>2. RepliesIn(r) = RepliesIn(s) /\ r.nReq = s.nReq
    BY DEF Undisturbed, RepliesIn
  <2>3. Numbered(a, "Req", ReqsIn(o, mid), s.nReq)
          => Numbered(b, "Req", ReqsIn(o, mid), s.nReq)
    BY ZenonT(60), <1>1, <1>2, CountTypes
  <2>4. Holds(r, "Reply") => r.rx.v[1] = Len(r.rep) + 1
    BY Zenon, <1>3 DEF OrderOf, ReplyOK, Undisturbed
  <2> QED
    BY <2>1, <2>2, <2>3, <2>4 DEF ReplyOK
<1>7. ReplyOK(o, r, inc, b)
  <2> SUFFICES ASSUME o.err = "ok" PROVE ReplyOK(o, r, inc, b)
    BY Zenon DEF ReplyOK
  <2>1. PICK mid \in Nat :
          /\ Numbered(a, "Reply", RepliesIn(o), mid)
          /\ s.err = "ok" =>
               /\ \A i \in 1..Len(s.deferred) : s.deferred[i][2][1] = mid + i
               /\ Holds(s, "Req") => s.rx.v[1] = mid + Len(s.deferred) + 1
               /\ Numbered(inc, "Req", ReqsIn(s, mid), o.nReq)
    BY Zenon, <1>3 DEF OrderOf, ReplyOK
  <2>2. Numbered(b, "Reply", RepliesIn(o), mid)
    BY Zenon, <1>1, <1>2, <2>1, CountTypes
  <2>3. r.err = "ok" => ReqsIn(r, mid) = ReqsIn(s, mid)
    BY DEF Undisturbed, ReqsIn
  <2>4. r.err = "ok" =>
          /\ \A i \in 1..Len(r.deferred) : r.deferred[i][2][1] = mid + i
          /\ Holds(r, "Req") => r.rx.v[1] = mid + Len(r.deferred) + 1
          /\ Numbered(inc, "Req", ReqsIn(r, mid), o.nReq)
    BY Zenon, <2>1, <2>3 DEF Undisturbed
  <2>5. Holds(o, "Reply") => o.rx.v[1] = Len(o.rep) + 1
    BY Zenon, <1>3 DEF OrderOf, ReplyOK
  <2> QED
    BY <2>2, <2>4, <2>5 DEF ReplyOK
<1>8. Counting(r.got) /\ Counting(r.rep)
  BY Zenon, <1>3 DEF OrderOf, Undisturbed
<1> QED
  BY <1>4, <1>5, <1>6, <1>7, <1>8 DEF OrderOf, b

\* The other direction is not touched when only answers are sent: what a
\* request handled, or deferred answers sent, leave alone
LEMMA AnswersOnly ==
  ASSUME NEW s, Typed(s), NEW r, r.err = "ok" => s.err = "ok",
         r.got = s.got, r.rep = s.rep, r.nData = s.nData, r.nReq = s.nReq,
         r.rx = s.rx,
         \A T : T # "Reply" => KeepsNumbers(r, s, T),
         r.err = "ok" => /\ HasData(r) <=> HasData(s)
                         /\ Holds(r, "Reply") <=> Holds(s, "Reply"),
         NEW o, Typed(o), NEW n \in Seq(Packet), NEW inc \in Seq(Packet),
         OrderOf(s, o, n \o s.out, inc),
         ReplyOK(o, r, inc, n \o r.out)
  PROVE  OrderOf(r, o, n \o r.out, inc)
<1> DEFINE a == n \o s.out
           b == n \o r.out
<1>1. \A lo, hi \in Nat :
        /\ Numbered(a, "Data", lo, hi) => Numbered(b, "Data", lo, hi)
        /\ Numbered(a, "Req", lo, hi) => Numbered(b, "Req", lo, hi)
  BY ZenonT(60) DEF KeepsNumbers
<1>2. OrderOf(s, o, a, inc) /\ ReplyOK(o, r, inc, b)
  OBVIOUS
<1> HIDE DEF a, b
<1>3. DataOK(r, o, b)
  <2> SUFFICES ASSUME o.err = "ok" PROVE DataOK(r, o, b)
    BY Zenon DEF DataOK
  <2>1. PICK hi \in Nat : /\ Numbered(a, "Data", DataIn(o), hi)
                          /\ s.err = "ok" => hi = s.nData
    BY <1>2 DEF OrderOf, DataOK
  <2>2. Numbered(b, "Data", DataIn(o), hi)
    BY Zenon, <1>1, <2>1, CountTypes
  <2> QED
    BY Zenon, <1>2, <2>1, <2>2 DEF OrderOf, DataOK
<1>4. DataOK(o, r, inc)
  BY Zenon, <1>2 DEF OrderOf, DataOK, DataIn
<1>5. ReplyOK(r, o, b, inc)
  <2> SUFFICES ASSUME r.err = "ok" PROVE ReplyOK(r, o, b, inc)
    BY Zenon DEF ReplyOK
  <2>1. PICK mid \in Nat :
          /\ Numbered(inc, "Reply", RepliesIn(s), mid)
          /\ o.err = "ok" =>
               /\ \A i \in 1..Len(o.deferred) : o.deferred[i][2][1] = mid + i
               /\ Holds(o, "Req") => o.rx.v[1] = mid + Len(o.deferred) + 1
               /\ Numbered(a, "Req", ReqsIn(o, mid), s.nReq)
    BY Zenon, <1>2 DEF OrderOf, ReplyOK
  <2>2. RepliesIn(r) = RepliesIn(s)
    BY DEF RepliesIn
  <2>3. Numbered(a, "Req", ReqsIn(o, mid), s.nReq)
          => Numbered(b, "Req", ReqsIn(o, mid), s.nReq)
    BY ZenonT(60), <1>1, CountTypes
  <2>4. Holds(r, "Reply") => r.rx.v[1] = Len(r.rep) + 1
    BY Zenon, <1>2 DEF OrderOf, ReplyOK
  <2> QED
    BY Zenon, <2>1, <2>2, <2>3, <2>4 DEF ReplyOK
<1>6. Counting(r.got) /\ Counting(r.rep)
  BY Zenon, <1>2 DEF OrderOf
<1> QED
  BY <1>2, <1>3, <1>4, <1>5, <1>6 DEF OrderOf, b

LEMMA OneMore ==
  ASSUME NEW n \in Nat
  PROVE  n + 1 \in Nat /\ n + 0 + 1 = n + 1 /\ n + 1 + 0 = n + 1
  OBVIOUS

LEMMA AnswerOrder ==
  ASSUME NEW s, Typed(s), s.err = "ok", Holds(s, "Req"),
         NEW d, Sends(d, s, "Reply", s.rx.v),
         NEW r, r.out = d.out, r.deferred = d.deferred, r.err = d.err,
         r.rx = s.rx, r.got = s.got, r.rep = s.rep,
         r.nData = s.nData, r.nReq = s.nReq,
         r.err = "ok" => r.rxs = "Idle"
  PROVE  KeepsOrder(r, s)
<1> SUFFICES ASSUME NEW o, Typed(o), NEW n \in Seq(Packet),
                    NEW inc \in Seq(Packet),
                    OrderOf(s, o, n \o s.out, inc)
             PROVE  OrderOf(r, o, n \o r.out, inc)
  BY ZenonT(60) DEF KeepsOrder
<1> DEFINE a == n \o s.out
           b == n \o r.out
           k == Len(s.deferred)
<1>1. /\ s.out \in Seq(Packet) /\ k \in Nat
      /\ s.deferred \in Seq(PacketTypes \X Values)
  BY FieldTypes
<1>2. /\ a \in Seq(Packet)
      /\ \A p \in Packet : n \o Append(s.out, p) = Append(a, p)
  BY Zenon, <1>1, StreamMoves
<1>3. OrderOf(s, o, a, inc)
  OBVIOUS
<1>4. ~HasData(s) /\ ~Holds(s, "Reply")
  BY DEF HasData, Holds
<1>5. r.err = "ok" => ~HasData(r) /\ ~Holds(r, "Reply") /\ ~Holds(r, "Req")
  BY Zenon DEF HasData, Holds
<1>6. ReplyOK(o, r, inc, b)
  <2> HIDE DEF a
  <2> SUFFICES ASSUME o.err = "ok" PROVE ReplyOK(o, r, inc, b)
    BY Zenon DEF ReplyOK
  <2>1. PICK mid \in Nat :
          /\ Numbered(a, "Reply", RepliesIn(o), mid)
          /\ \A i \in 1..k : s.deferred[i][2][1] = mid + i
          /\ s.rx.v[1] = mid + k + 1
          /\ Numbered(inc, "Req", ReqsIn(s, mid), o.nReq)
    BY Zenon, <1>3 DEF OrderOf, ReplyOK
  <2>2. Holds(o, "Reply") => o.rx.v[1] = Len(o.rep) + 1
    BY Zenon, <1>3 DEF OrderOf, ReplyOK
  <2>3. CASE r.err # "ok"
    <3>1. b = a
      BY Zenon, <2>3 DEF Sends, a
    <3> QED
      BY Zenon, <2>1, <2>2, <2>3, <3>1 DEF ReplyOK
  <2>4. CASE r.err = "ok" /\ Pushed(d, s, "Reply", s.rx.v)
    <3>1. PICK p \in Packet : /\ p.t = "Reply" /\ p.v = s.rx.v
                              /\ d.out = Append(s.out, p)
      BY Zenon, <2>4 DEF Pushed
    <3>2. s.deferred = <<>> /\ r.deferred = <<>> /\ k = 0
      BY <2>4 DEF Pushed, CatKex
    <3>3. b = Append(a, p)
      BY Zenon, <1>2, <3>1
    <3>4. Numbered(b, "Reply", RepliesIn(o), mid + 1)
      <4>1. p.v[1] = mid + 0 + 1 /\ RepliesIn(o) \in Nat
        BY Zenon, <2>1, <3>1, <3>2, CountTypes
      <4>2. p.v[1] = mid + 1
        BY Zenon, <4>1, OneMore
      <4> QED
        BY ZenonT(60), <1>2, <2>1, <3>1, <3>3, <4>1, <4>2, NumberedAppend
    <3>5. ReqsIn(r, mid + 1) = ReqsIn(s, mid) /\ mid + 1 \in Nat
      <4>1. Len(r.deferred) = k
        BY Zenon, <3>2
      <4>2. ReqsIn(s, mid) = mid + k + 1
        BY Zenon DEF ReqsIn
      <4>3. ReqsIn(r, mid + 1) = mid + 1 + k
        BY Zenon, <1>5, <2>4, <4>1 DEF ReqsIn
      <4>4. k = 0
        BY Zenon, <3>2
      <4> HIDE DEF k
      <4>5. ReqsIn(s, mid) = mid + 0 + 1 /\ ReqsIn(r, mid + 1) = mid + 1 + 0
        BY Zenon, <4>2, <4>3, <4>4
      <4>6. mid + 1 \in Nat /\ mid + 0 + 1 = mid + 1 /\ mid + 1 + 0 = mid + 1
        BY Zenon, OneMore
      <4> QED
        BY Zenon, <4>5, <4>6
    <3>6. \A i \in 1..Len(r.deferred) : r.deferred[i][2][1] = mid + 1 + i
      BY <3>2
    <3>7. Numbered(inc, "Req", ReqsIn(r, mid + 1), o.nReq)
      BY Zenon, <2>1, <3>5
    <3> QED
      BY Zenon, <1>5, <2>2, <2>4, <3>4, <3>5, <3>6, <3>7 DEF ReplyOK
  <2>5. CASE r.err = "ok" /\ Queued(d, s, "Reply", s.rx.v)
    <3>1. b = a /\ r.deferred = Append(s.deferred, <<"Reply", s.rx.v>>)
      BY <2>5 DEF Queued, a
    <3>2. /\ Len(r.deferred) = k + 1
          /\ \A i \in 1..Len(r.deferred) : r.deferred[i][2][1] = mid + i
      <4>1. <<"Reply", s.rx.v>> \in PacketTypes \X Values
        BY Zenon, PacketValue DEF PacketTypes, CatSess
      <4>2. /\ Len(r.deferred) = k + 1
            /\ \A i \in 1..k : r.deferred[i] = s.deferred[i]
            /\ r.deferred[k + 1] = <<"Reply", s.rx.v>>
        BY <1>1, <3>1, <4>1
      <4>3. r.deferred[k + 1][2][1] = mid + (k + 1)
        BY <1>1, <2>1, <4>2
      <4>4. \A i \in 1..Len(r.deferred) : i \in 1..k \/ i = k + 1
        BY <1>1, <4>2
      <4> HIDE DEF k
      <4> QED
        BY ZenonT(60), <2>1, <4>2, <4>3, <4>4
    <3>3. ReqsIn(r, mid) = ReqsIn(s, mid)
      BY <1>1, <1>5, <2>5, <3>2 DEF ReqsIn
    <3> QED
      BY Zenon, <1>5, <2>1, <2>2, <2>5, <3>1, <3>2, <3>3 DEF ReplyOK
  <2> QED
    BY Zenon, <2>3, <2>4, <2>5 DEF Sends
<1>7. \A T : T # "Reply" => KeepsNumbers(r, s, T)
  BY Zenon DEF Sends, KeepsNumbers
<1> HIDE DEF a, b
<1> QED
  BY <1>4, <1>5, <1>6, <1>7, AnswersOnly DEF b

LEMMA RepTakenOrder ==
  ASSUME NEW s, Typed(s), s.err = "ok", Holds(s, "Reply"),
         NEW r, r.out = s.out, r.deferred = s.deferred, r.err = s.err,
         r.rx = s.rx, r.got = s.got, r.rep = Append(s.rep, s.rx.v[1]),
         r.nData = s.nData, r.nReq = s.nReq, r.rxs = "Idle"
  PROVE  KeepsOrder(r, s)
<1> SUFFICES ASSUME NEW o, Typed(o), NEW n \in Seq(Packet),
                    NEW inc \in Seq(Packet),
                    OrderOf(s, o, n \o s.out, inc)
             PROVE  OrderOf(r, o, n \o s.out, inc)
  BY ZenonT(60) DEF KeepsOrder
<1> DEFINE a == n \o s.out
<1>1. OrderOf(s, o, a, inc)
  OBVIOUS
<1> HIDE DEF a
<1>2. /\ s.rep \in Seq(Nat) /\ s.rx.v[1] \in Nat
      /\ s.rx.v[1] = Len(s.rep) + 1
  BY Zenon, <1>1, FieldTypes, PacketValue DEF OrderOf, ReplyOK
<1>3. Len(r.rep) = Len(s.rep) + 1 /\ Counting(r.rep)
  <2> DEFINE q == s.rep
             u == s.rx.v[1]
             t == Append(q, u)
  <2>1. Counting(q)
    BY Zenon, <1>1 DEF OrderOf
  <2>2. q \in Seq(Nat) /\ u \in Nat /\ u = Len(q) + 1
    BY <1>2
  <2>3. Len(t) = Len(q) + 1 /\ Counting(t)
    <3> HIDE DEF q, u
    <3> QED
      BY <2>1, <2>2 DEF Counting
  <2> QED
    BY Zenon, <2>3
<1>4. /\ ~HasData(s) /\ ~HasData(r) /\ ~Holds(s, "Req") /\ ~Holds(r, "Req")
      /\ ~Holds(r, "Reply")
  BY DEF HasData, Holds
<1>5. /\ RepliesIn(r) = RepliesIn(s) /\ DataIn(r) = DataIn(s)
      /\ \A mid \in Nat : ReqsIn(r, mid) = ReqsIn(s, mid)
  BY Zenon, <1>3, <1>4 DEF RepliesIn, DataIn, ReqsIn
<1>6. DataOK(r, o, a) /\ DataOK(o, r, inc)
  BY Zenon, <1>1, <1>4, <1>5 DEF OrderOf, DataOK
<1>7. ReplyOK(r, o, a, inc)
  BY Zenon, <1>1, <1>4, <1>5 DEF OrderOf, ReplyOK
<1>8. ReplyOK(o, r, inc, a)
  BY ZenonT(60), <1>1, <1>4, <1>5 DEF OrderOf, ReplyOK
<1>9. Counting(r.got)
  BY Zenon, <1>1 DEF OrderOf
<1> QED
  BY <1>3, <1>6, <1>7, <1>8, <1>9 DEF OrderOf, a

LEMMA MovedOrder ==
  ASSUME NEW s, Typed(s), s.err = "ok", OnlyReplies(s),
         NEW r, Beside(r, s), r.err = "ok", Moved(r, s),
         r.sendingKex = s.sendingKex
  PROVE  KeepsOrder(r, s)
<1> SUFFICES ASSUME NEW o, Typed(o), NEW n \in Seq(Packet),
                    NEW inc \in Seq(Packet),
                    OrderOf(s, o, n \o s.out, inc)
             PROVE  OrderOf(r, o, n \o r.out, inc)
  BY ZenonT(60) DEF KeepsOrder
<1> DEFINE a == n \o s.out
           b == n \o r.out
<1>1. PICK m \in Seq(Packet) :
        /\ r.out = s.out \o m
        /\ Len(m) <= Len(s.deferred)
        /\ \A i \in 1..Len(m) : m[i].t = s.deferred[i][1]
                                /\ m[i].v = s.deferred[i][2]
        /\ Len(r.deferred) = Len(s.deferred) - Len(m)
        /\ \A i \in 1..Len(r.deferred) : r.deferred[i] = s.deferred[Len(m) + i]
  BY ZenonT(60) DEF Moved
<1>2. /\ s.out \in Seq(Packet) /\ Len(m) \in Nat /\ Len(s.deferred) \in Nat
      /\ a \in Seq(Packet) /\ b = a \o m
  <2>1. s.out \in Seq(Packet) /\ Len(m) \in Nat /\ Len(s.deferred) \in Nat
    BY FieldTypes
  <2>2. (n \o s.out) \o m = n \o (s.out \o m)
    BY ZenonT(60), <2>1, StreamAssociative
  <2> QED
    BY Zenon, <1>1, <2>1, <2>2, Joined
<1>3. \A T : T # "Reply" => KeepsNumbers(r, s, T)
  BY Zenon, MovedKeeps DEF OnlyReplies
<1>4. OrderOf(s, o, a, inc)
  OBVIOUS
<1>5. /\ HasData(r) <=> HasData(s)
      /\ Holds(r, "Reply") <=> Holds(s, "Reply")
      /\ Holds(r, "Req") <=> Holds(s, "Req")
      /\ r.got = s.got /\ r.rep = s.rep /\ r.nData = s.nData
      /\ r.nReq = s.nReq /\ r.rx = s.rx
  BY Zenon DEF HasData, Holds, Beside
<1> HIDE DEF a
<1>6. ReplyOK(o, r, inc, b)
  <2> SUFFICES ASSUME o.err = "ok" PROVE ReplyOK(o, r, inc, b)
    BY DEF ReplyOK
  <2>1. PICK mid \in Nat :
          /\ Numbered(a, "Reply", RepliesIn(o), mid)
          /\ \A i \in 1..Len(s.deferred) : s.deferred[i][2][1] = mid + i
          /\ Holds(s, "Req") => s.rx.v[1] = mid + Len(s.deferred) + 1
          /\ Numbered(inc, "Req", ReqsIn(s, mid), o.nReq)
    BY ZenonT(60), <1>4 DEF OrderOf, ReplyOK
  <2>2. Holds(o, "Reply") => o.rx.v[1] = Len(o.rep) + 1
    BY Zenon, <1>4 DEF OrderOf, ReplyOK
  <2> DEFINE new == mid + Len(m)
  <2>3. new \in Nat /\ new + Len(r.deferred) = mid + Len(s.deferred)
    <3> DEFINE x == Len(m)
               y == Len(s.deferred)
               z == Len(r.deferred)
    <3>1. z = y - x /\ x \in Nat /\ y \in Nat /\ mid \in Nat
      BY Zenon, <1>1, <1>2, <2>1
    <3> HIDE DEF x, y, z
    <3>2. mid + x \in Nat /\ (mid + x) + z = mid + y
      BY <3>1
    <3> QED
      BY ZenonT(60), <3>2 DEF x, y, z
  <2>4. Numbered(b, "Reply", RepliesIn(o), new)
    <3>1. \A i \in 1..Len(m) : m[i].t = "Reply" /\ m[i].v[1] = mid + i
      <4> TAKE i \in 1..Len(m)
      <4>1. i \in 1..Len(s.deferred)
        BY <1>1, <1>2
      <4> QED
        BY ZenonT(60), <1>1, <2>1, <4>1 DEF OnlyReplies
    <3>2. RepliesIn(o) \in Nat
      BY Zenon, CountTypes
    <3> QED
      BY ZenonT(60), <1>2, <2>1, <3>1, <3>2, RepliesNumbered
  <2>5. \A i \in 1..Len(r.deferred) : r.deferred[i][2][1] = new + i
    <3> TAKE i \in 1..Len(r.deferred)
    <3> DEFINE j == Len(m) + i
    <3>1. j \in 1..Len(s.deferred) /\ mid + j = new + i
      BY <1>1, <1>2
    <3>2. r.deferred[i] = s.deferred[j]
      BY <1>1
    <3> HIDE DEF j, new
    <3> QED
      BY <2>1, <3>1, <3>2
  <2> HIDE DEF new
  <2>6. ReqsIn(r, new) = ReqsIn(s, mid)
    BY ZenonT(60), <1>5, <2>3 DEF ReqsIn
  <2>7. Holds(r, "Req") => r.rx.v[1] = new + Len(r.deferred) + 1
    BY ZenonT(60), <1>5, <2>1, <2>3
  <2> QED
    BY Zenon, <2>1, <2>2, <2>3, <2>4, <2>5, <2>6, <2>7 DEF ReplyOK
<1> QED
  BY <1>3, <1>5, <1>6, AnswersOnly
=============================================================================
