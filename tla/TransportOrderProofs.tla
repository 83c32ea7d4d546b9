------------------------ MODULE TransportOrderProofs ------------------------
(***************************************************************************)
(* What the two streams of module Transport carry: nothing but key         *)
(* exchange between a KexInit and its NewKeys, and channel data, requests  *)
(* and answers in order.                                                   *)
(***************************************************************************)
EXTENDS TransportProofs

QuietInv ==
  /\ Inv
  /\ \A p \in Peers : /\ OnlyReplies(peer[p]) /\ Early(peer[p])
                      /\ Lawful(Stream(p), peer[p])

OrderInv ==
  /\ QuietInv
  /\ \A p \in Peers :
       /\ Settled(peer[p])
       /\ OrderOf(peer[p], peer[Other(p)], Stream(p), Stream(Other(p)))

-----------------------------------------------------------------------------
(* The stages of Runner::progress().                                       *)

Steps(r, s) ==
  /\ r.err = "ok" => s.err = "ok"
  /\ s.conn # "SendIdent" => r.conn # "SendIdent"
  /\ OnlyReplies(s) =>
       /\ OnlyReplies(r) /\ KeepsLaw(r, s)
       /\ Mid(s) => Mid(r) /\ KeepsOrder(r, s)

LEMMA StepsTrans ==
  ASSUME NEW s, NEW r, NEW q, Steps(r, s), Steps(q, r)
  PROVE  Steps(q, s)
<1>1. OnlyReplies(s) => KeepsLaw(q, s)
  BY ZenonT(60) DEF Steps, KeepsLaw
<1>2. OnlyReplies(s) /\ Mid(s) => KeepsOrder(q, s)
  BY ZenonT(60) DEF Steps, KeepsOrder
<1> QED
  BY <1>1, <1>2 DEF Steps

LEMMA StepsRefl ==
  ASSUME NEW s
  PROVE  Steps(s, s)
  BY ZenonT(60) DEF Steps, KeepsLaw, KeepsOrder

LEMMA CalmSteps ==
  ASSUME NEW s, Typed(s), NEW r, Calm(r, s),
         (r.err = "ok" /\ r.rxs = "InPayload")
           => r.ev \in {s.ev, "None"} \/ s.rx.t \notin CatSess
  PROVE  Steps(r, s)
<1>1. Undisturbed(r, s)
  BY DEF Calm, Same, Beside, Undisturbed, HasData, Holds
<1>2. KeepsOrder(r, s)
  BY <1>1, UndisturbedOrder
<1>3. Mid(s) => Mid(r)
  BY DEF Calm, Same, Beside, Mid
<1>4. OnlyReplies(s) => OnlyReplies(r)
  BY DEF Calm, Same, OnlyReplies
<1> QED
  BY <1>2, <1>3, <1>4 DEF Calm, Same, Beside, Steps

\* Nothing is sent and no packet of the session is taken in or finished with
LEMMA SilentSteps ==
  ASSUME NEW s, Typed(s), NEW r, r.out = s.out, r.deferred = s.deferred,
         r.err = s.err, r.sendingKex = s.sendingKex, r.rx = s.rx,
         r.got = s.got, r.rep = s.rep, r.nData = s.nData, r.nReq = s.nReq,
         s.conn # "SendIdent" => r.conn # "SendIdent",
         Mid(s) => /\ Mid(r) /\ (HasData(r) <=> HasData(s))
                   /\ (Holds(r, "Reply") <=> Holds(s, "Reply"))
                   /\ (Holds(r, "Req") <=> Holds(s, "Req"))
  PROVE  Steps(r, s)
<1>1. KeepsLaw(r, s) /\ \A T : KeepsNumbers(r, s, T)
  BY SilentKeeps
<1>2. Mid(s) => Undisturbed(r, s)
  BY <1>1 DEF Undisturbed
<1>3. Mid(s) => KeepsOrder(r, s)
  BY <1>2, UndisturbedOrder
<1>4. OnlyReplies(s) => OnlyReplies(r)
  BY DEF OnlyReplies
<1> QED
  BY <1>1, <1>3, <1>4 DEF Steps

LEMMA DoneEventFields ==
  ASSUME NEW s, Typed(s)
  PROVE  LET r == DoneEvent(s)
         IN  /\ r.out = s.out /\ r.deferred = s.deferred /\ r.rx = s.rx
             /\ r.got = s.got /\ r.rep = s.rep
             /\ r.nData = s.nData /\ r.nReq = s.nReq
             /\ r.conn = s.conn /\ r.extra = s.extra /\ r.idled = s.idled
             /\ r.rxs = IF s.rxs = "InPayload" THEN "Idle" ELSE s.rxs
<1> DEFINE x == IF s.rxs = "InPayload" THEN "Idle" ELSE s.rxs
           r == [s EXCEPT !.ev = "None", !.rxs = x]
<1>1. DoneEvent(s) = r
  BY DEF DoneEvent
<1> HIDE DEF x
<1>2. /\ r.out = s.out /\ r.deferred = s.deferred /\ r.rx = s.rx
      /\ r.got = s.got /\ r.rep = s.rep
      /\ r.nData = s.nData /\ r.nReq = s.nReq
      /\ r.conn = s.conn /\ r.extra = s.extra /\ r.idled = s.idled
      /\ r.rxs = x
  BY ZenonT(60) DEF Typed, PeerState
<1> HIDE DEF r
<1> QED
  BY <1>1, <1>2 DEF x

\* An event whose payload is not of the session is completed
LEMMA DoneEventSteps ==
  ASSUME NEW s, Typed(s),
         Mid(s) /\ s.err = "ok" /\ s.rxs = "InPayload" => s.rx.t \notin CatSess
  PROVE  Steps(DoneEvent(s), s)
<1> DEFINE r == DoneEvent(s)
<1>1. /\ r.out = s.out /\ r.deferred = s.deferred /\ r.rx = s.rx
      /\ r.got = s.got /\ r.rep = s.rep
      /\ r.nData = s.nData /\ r.nReq = s.nReq
      /\ r.conn = s.conn /\ r.extra = s.extra /\ r.idled = s.idled
      /\ r.rxs = IF s.rxs = "InPayload" THEN "Idle" ELSE s.rxs
      /\ r.err = s.err /\ r.ev = "None" /\ r.sendingKex = s.sendingKex
  BY DoneEventFields, DoneEventFacts
<1> HIDE DEF r
<1>2. Mid(s) => Mid(r)
  BY <1>1 DEF Mid
<1>3. Steps(r, s)
  <2>1. CASE s.err = "ok"
    <3>1. Mid(s) => /\ (HasData(r) <=> HasData(s))
                    /\ (Holds(r, "Reply") <=> Holds(s, "Reply"))
                    /\ (Holds(r, "Req") <=> Holds(s, "Req"))
      BY <1>1, <2>1 DEF HasData, Holds, CatSess
    <3> QED
      BY <1>1, <1>2, <3>1, SilentSteps
  <2>2. CASE s.err # "ok"
    <3>1. KeepsLaw(r, s) /\ \A T : KeepsNumbers(r, s, T)
      BY Zenon, <1>1, SilentKeeps
    <3>2. Undisturbed(r, s)
      BY <1>1, <2>2, <3>1 DEF Undisturbed
    <3>3. KeepsOrder(r, s)
      BY <3>2, UndisturbedOrder
    <3> QED
      BY <1>1, <1>2, <2>2, <3>1, <3>3 DEF Steps, OnlyReplies
  <2> QED
    BY <2>1, <2>2
<1> QED
  BY <1>3 DEF r

LEMMA SendDeferredSteps ==
  ASSUME NEW s, Typed(s), s.err = "ok"
  PROVE  Steps(SendDeferredPackets(s), s)
<1> DEFINE r == SendDeferredPackets(s)
<1>1. /\ Typed(r) /\ Beside(r, s) /\ r.ev = s.ev
      /\ IF r.err = "ok" THEN Moved(r, s) /\ r.sendingKex = s.sendingKex
         ELSE r.out = s.out /\ r.deferred = s.deferred
  BY SendDeferredMoves, SendDeferredPacketsFacts DEF Sent, Steady
<1> HIDE DEF r
<1>2. CASE r.err = "ok"
  <2>1. OnlyReplies(s) => OnlyReplies(r) /\ KeepsLaw(r, s)
    BY <1>1, <1>2, MovedKeeps DEF OnlyReplies
  <2>2. OnlyReplies(s) => KeepsOrder(r, s)
    BY <1>1, <1>2, MovedOrder
  <2>3. Mid(s) => Mid(r)
    BY <1>1 DEF Mid, Beside
  <2>4. Steps(r, s)
    BY <1>1, <2>1, <2>2, <2>3 DEF Steps, Beside
  <2> QED
    BY <2>4 DEF r
<1>3. CASE r.err # "ok"
  <2>1. KeepsLaw(r, s) /\ \A T : KeepsNumbers(r, s, T)
    BY <1>1, <1>3, SilentKeeps
  <2>2. Undisturbed(r, s)
    BY <1>1, <1>3, <2>1 DEF Undisturbed, Beside
  <2>3. KeepsOrder(r, s)
    BY <2>2, UndisturbedOrder
  <2>4. Steps(r, s)
    BY <1>1, <1>3, <2>1, <2>3 DEF Steps, OnlyReplies, Mid, Beside
  <2> QED
    BY <2>4 DEF r
<1> QED
  BY <1>2, <1>3

LEMMA BeginProgressSteps ==
  ASSUME NEW s, Typed(s), s.err = "ok", s.ev \notin Resumable
  PROVE  Steps(BeginProgress(s), s)
<1>1. CASE s.extra # "None"
  <2> DEFINE r == [s EXCEPT !.ev = s.extra, !.extra = "None", !.idled = FALSE]
  <2>1. BeginProgress(s) = r
    BY <1>1 DEF BeginProgress
  <2>2. /\ r.out = s.out /\ r.deferred = s.deferred /\ r.rx = s.rx
        /\ r.got = s.got /\ r.rep = s.rep
        /\ r.nData = s.nData /\ r.nReq = s.nReq
        /\ r.conn = s.conn /\ r.err = s.err /\ r.sendingKex = s.sendingKex
        /\ r.rxs = s.rxs /\ r.extra = "None" /\ r.idled = FALSE
    BY ZenonT(60) DEF Typed, PeerState
  <2> HIDE DEF r
  <2>3. Mid(s) => Mid(r)
    BY <1>1, <2>2 DEF Mid
  <2>4. Steps(r, s)
    BY <2>2, <2>3, SilentSteps DEF HasData, Holds
  <2> QED
    BY <2>1, <2>4
<1>2. CASE s.extra = "None"
  <2> DEFINE d == IF s.ev # "None" THEN DoneEvent(s) ELSE s
             ready == [d EXCEPT !.idled = TRUE]
  <2>1. BeginProgress(s) = IF IsSending(ready) THEN ready
                           ELSE SendDeferredPackets(ready)
    BY <1>2 DEF BeginProgress
  <2>2. Typed(d) /\ Steps(d, s) /\ d.err = "ok" /\ d.extra = "None"
    <3>1. CASE s.ev # "None"
      <4>1. Mid(s) /\ s.rxs = "InPayload" => s.rx.t \notin CatSess
        BY <3>1 DEF Mid
      <4> QED
        BY <1>2, <3>1, <4>1, DoneEventSteps, DoneEventFacts, DoneEventFields
    <3>2. CASE s.ev = "None"
      BY <1>2, <3>2, StepsRefl
    <3> QED
      BY <3>1, <3>2
  <2> HIDE DEF d
  <2>3. /\ ready.out = d.out /\ ready.deferred = d.deferred /\ ready.rx = d.rx
        /\ ready.got = d.got /\ ready.rep = d.rep
        /\ ready.nData = d.nData /\ ready.nReq = d.nReq
        /\ ready.conn = d.conn /\ ready.err = d.err /\ ready.ev = d.ev
        /\ ready.sendingKex = d.sendingKex
        /\ ready.rxs = d.rxs /\ ready.extra = d.extra /\ ready.idled = TRUE
        /\ Typed(ready)
    BY ZenonT(60), <2>2 DEF Typed, PeerState
  <2> HIDE DEF ready
  <2>4. Mid(d) => Mid(ready)
    BY <2>2, <2>3 DEF Mid
  <2>5. Steps(ready, d)
    BY <2>2, <2>3, <2>4, SilentSteps DEF HasData, Holds
  <2>6. Steps(ready, s)
    BY ZenonT(60), <2>2, <2>5, StepsTrans
  <2>7. Steps(SendDeferredPackets(ready), ready)
    BY <2>2, <2>3, SendDeferredSteps
  <2>8. Steps(SendDeferredPackets(ready), s)
    BY ZenonT(60), <2>6, <2>7, StepsTrans
  <2> QED
    BY <2>1, <2>6, <2>8
<1> QED
  BY <1>1, <1>2

\* A Runner that has not started stays so in this stage
LEMMA BeginProgressEarly ==
  ASSUME NEW s, Typed(s), s.err = "ok", s.conn = "SendIdent", Early(s)
  PROVE  LET r == BeginProgress(s)
         IN  /\ r.conn = "SendIdent" /\ r.kex = "Idle" /\ r.rxs = "Idle"
             /\ r.ev = "None" /\ r.extra = "None"
<1> DEFINE ready == [s EXCEPT !.idled = TRUE]
<1>1. s.kex = "Idle" /\ s.rxs = "Idle" /\ s.ev = "None" /\ s.extra = "None"
  BY DEF Early
<1>2. BeginProgress(s) = IF IsSending(ready) THEN ready
                         ELSE SendDeferredPackets(ready)
  BY <1>1 DEF BeginProgress
<1>3. /\ Typed(ready) /\ ready.conn = s.conn /\ ready.kex = s.kex
      /\ ready.rxs = s.rxs /\ ready.ev = s.ev /\ ready.extra = s.extra
      /\ ready.err = s.err
  BY ZenonT(60) DEF Typed, PeerState
<1> HIDE DEF ready
<1> DEFINE r == SendDeferredPackets(ready)
<1>4. Beside(r, ready) /\ Steady(r, ready)
  BY <1>3, SendDeferredMoves, SendDeferredPacketsFacts DEF Sent
<1> HIDE DEF r
<1>5. BeginProgress(s) = ready \/ BeginProgress(s) = r
  BY <1>2 DEF r
<1> QED
  BY <1>1, <1>3, <1>4, <1>5 DEF Beside, Steady

\* What becomes of a payload once it has been dispatched
Finished(d) == IF Running(d) THEN DoneEvent(d) ELSE d

LEMMA CalmFinished ==
  ASSUME NEW s, Typed(s), NEW d, Calm(d, s),
         d.err = "ok" => s.rx.t \notin CatSess
  PROVE  Steps(Finished(d), s)
<1>1. Typed(d) /\ d.rx = s.rx
  BY DEF Calm, Same, Beside
<1>2. Steps(d, s)
  BY CalmSteps
<1>3. Steps(DoneEvent(d), d)
  BY <1>1, DoneEventSteps
<1>4. Steps(DoneEvent(d), s)
  BY ZenonT(60), <1>2, <1>3, StepsTrans
<1> QED
  BY <1>2, <1>4 DEF Finished

LEMMA DispatchCalm ==
  ASSUME NEW s, Typed(s), s.rx.t \notin CatSess \cup {"UserauthSuccess"}
  PROVE  Calm(DispatchPacket(s), s)
<1>0. /\ "SSHProto" \in Errors \ {"ok"} /\ "PacketWrong" \in Errors \ {"ok"}
      /\ "Hostkeys" \in Events /\ "Hostkey" \in Events
      /\ "FirstAuth" \in Events /\ NoValue \in Values
      /\ "ServiceAccept" \in PacketTypes \ CatSess
      /\ "UserauthSuccess" \in PacketTypes \ CatSess
  BY DEF Errors, Events, Resumable, PacketTypes, CatAuth, CatSess,
         NoValue, Values
<1>1. Calm(Fail(s, "SSHProto"), s) /\ Calm(Fail(s, "PacketWrong"), s)
  BY ZenonT(60), <1>0, FailCalm
<1>2. Calm(HandleKexDHInit(s), s) /\ Calm(HandleKexDHReply(s), s)
  BY ZenonT(60), <1>0, <1>1, PutCalm DEF HandleKexDHInit, HandleKexDHReply
<1>3. /\ Calm(SendPacket(s, "ServiceAccept", NoValue), s)
      /\ Calm(SendPacket(s, "UserauthSuccess", NoValue), s)
  BY <1>0, SendCalm
<1>4. Calm(ServiceRequest(s), s) /\ Calm(UserauthRequest(s), s)
  BY ZenonT(60), <1>0, <1>1, <1>3, PutCalm DEF ServiceRequest, UserauthRequest
<1>5. /\ Calm(HandleKexInit(s), s) /\ Calm(HandleNewKeys(s), s) /\ Calm(s, s)
  BY HandleKexInitCalm, HandleNewKeysCalm, CalmRefl
<1>6. /\ s.rx.t # "Data" /\ s.rx.t # "Req" /\ s.rx.t # "Reply"
      /\ s.rx.t # "UserauthSuccess"
  BY DEF CatSess
<1> QED
  BY ZenonT(60), <1>1, <1>2, <1>4, <1>5, <1>6 DEF DispatchPacket

LEMMA UserauthSuccessSteps ==
  ASSUME NEW s, Typed(s), s.rx.t = "UserauthSuccess"
  PROVE  Steps(Finished(UserauthSuccess(s)), s)
<1> DEFINE r == [s EXCEPT !.conn = "Authed", !.ev = "Authenticated"]
<1>1. s.rx.t \notin CatSess
  BY DEF CatSess
<1>2. Steps(Finished(Fail(s, "SSHProto")), s) /\ Steps(Finished(s), s)
  <2>1. Calm(Fail(s, "SSHProto"), s) /\ Calm(s, s)
    BY FailCalm, CalmRefl DEF Errors
  <2> QED
    BY <1>1, <2>1, CalmFinished
<1>3. /\ r.out = s.out /\ r.deferred = s.deferred /\ r.rx = s.rx
      /\ r.got = s.got /\ r.rep = s.rep
      /\ r.nData = s.nData /\ r.nReq = s.nReq
      /\ r.conn = "Authed" /\ r.err = s.err /\ r.sendingKex = s.sendingKex
      /\ r.rxs = s.rxs /\ r.extra = s.extra /\ r.idled = s.idled
      /\ r.ev = "Authenticated"
  BY ZenonT(60) DEF Typed, PeerState
<1>4. Steps(Finished(r), s)
  <2> HIDE DEF r
  <2>1. Finished(r) = r
    BY <1>3 DEF Finished, Running
  <2>2. Mid(s) => Mid(r)
    BY <1>1, <1>3 DEF Mid
  <2> QED
    BY <1>3, <2>1, <2>2, SilentSteps DEF HasData, Holds
<1> QED
  BY ZenonT(60), <1>2, <1>4 DEF UserauthSuccess

LEMMA DataSteps ==
  ASSUME NEW s, Typed(s), Running(s), Holds(s, "Data")
  PROVE  Steps(Finished([s EXCEPT !.rxs = "InChannelData"]), s)
<1> DEFINE d == [s EXCEPT !.rxs = "InChannelData"]
           r == DoneEvent(d)
<1>1. /\ d.out = s.out /\ d.deferred = s.deferred /\ d.rx = s.rx
      /\ d.got = s.got /\ d.rep = s.rep
      /\ d.nData = s.nData /\ d.nReq = s.nReq
      /\ d.conn = s.conn /\ d.err = s.err /\ d.sendingKex = s.sendingKex
      /\ d.rxs = "InChannelData" /\ d.extra = s.extra /\ d.idled = s.idled
      /\ d.ev = s.ev /\ Typed(d)
  BY ZenonT(60) DEF Typed, PeerState, RxStates
<1> HIDE DEF d
<1>2. /\ r.out = s.out /\ r.deferred = s.deferred /\ r.rx = s.rx
      /\ r.got = s.got /\ r.rep = s.rep
      /\ r.nData = s.nData /\ r.nReq = s.nReq
      /\ r.conn = s.conn /\ r.err = s.err /\ r.sendingKex = s.sendingKex
      /\ r.rxs = "InChannelData" /\ r.extra = s.extra /\ r.idled = s.idled
      /\ r.ev = "None"
  BY <1>1, DoneEventFields, DoneEventFacts
<1>3. Finished(d) = r
  BY <1>1 DEF Finished, Running
<1> HIDE DEF r
<1>4. Mid(s) => Mid(r)
  BY <1>2 DEF Mid
<1>5. Steps(r, s)
  BY <1>2, <1>4, SilentSteps DEF HasData, Holds
<1> QED
  BY <1>3, <1>5 DEF d

LEMMA RequestSteps ==
  ASSUME NEW s, Typed(s), Running(s), Holds(s, "Req")
  PROVE  Steps(Finished(SendPacket(s, "Reply", s.rx.v)), s)
<1> DEFINE d == SendPacket(s, "Reply", s.rx.v)
           r == Finished(d)
<1>1. Sends(d, s, "Reply", s.rx.v) /\ Typed(d) /\ d.ev = s.ev
  <2>1. "Reply" \in PacketTypes /\ s.rx.v \in Values
    BY PacketValue DEF PacketTypes, CatSess
  <2> QED
    BY <2>1, SendPacketSends, SendPacketFacts DEF Sent, Steady
<1> HIDE DEF d
<1>2. /\ r.out = d.out /\ r.deferred = d.deferred /\ r.rx = s.rx
      /\ r.got = s.got /\ r.rep = s.rep
      /\ r.nData = s.nData /\ r.nReq = s.nReq
      /\ r.conn = s.conn /\ r.err = d.err /\ r.sendingKex = d.sendingKex
      /\ r.extra = s.extra /\ r.idled = s.idled
      /\ r.err = "ok" => r.rxs = "Idle" /\ r.ev = "None"
  <2>1. Beside(d, s)
    BY <1>1 DEF Sends
  <2>2. CASE Running(d)
    <3>1. r = DoneEvent(d) /\ d.rxs = "InPayload"
      BY <2>1, <2>2 DEF Finished, Beside, Holds
    <3> HIDE DEF r
    <3> QED
      BY <1>1, <2>1, <3>1, DoneEventFields, DoneEventFacts DEF Beside
  <2>3. CASE ~Running(d)
    BY <1>1, <2>1, <2>3 DEF Finished, Beside, Running
  <2> QED
    BY <2>2, <2>3
<1> HIDE DEF r
<1>3. KeepsOrder(r, s)
  BY <1>1, <1>2, AnswerOrder DEF Running
<1>4. KeepsLaw(r, s)
  BY <1>1, <1>2 DEF Sends, KeepsLaw, Lawful
<1>5. OnlyReplies(s) => OnlyReplies(r)
  <2> SUFFICES ASSUME OnlyReplies(s), r.err = "ok" PROVE OnlyReplies(r)
    BY DEF OnlyReplies
  <2>1. r.deferred = s.deferred
        \/ r.deferred = Append(s.deferred, <<"Reply", s.rx.v>>)
    BY <1>1, <1>2 DEF Sends, Pushed, Queued
  <2>2. s.deferred \in Seq(PacketTypes \X Values)
        /\ <<"Reply", s.rx.v>> \in PacketTypes \X Values
    BY FieldTypes, PacketValue DEF PacketTypes, CatSess
  <2>3. \A i \in 1..Len(s.deferred) : s.deferred[i][1] = "Reply"
    BY DEF OnlyReplies, Running
  <2>4. CASE r.deferred = s.deferred
    BY <2>3, <2>4 DEF OnlyReplies
  <2>5. CASE r.deferred = Append(s.deferred, <<"Reply", s.rx.v>>)
    <3>1. \A i \in 1..Len(r.deferred) :
            \/ i \in 1..Len(s.deferred) /\ r.deferred[i] = s.deferred[i]
            \/ r.deferred[i] = <<"Reply", s.rx.v>>
      BY <2>2, <2>5
    <3> QED
      BY <2>3, <3>1 DEF OnlyReplies
  <2> QED
    BY <2>1, <2>4, <2>5
<1>6. Mid(s) => Mid(r)
  BY <1>2 DEF Mid, Running
<1>7. Steps(r, s)
  BY <1>2, <1>3, <1>4, <1>5, <1>6 DEF Steps, Running
<1> QED
  BY <1>7 DEF r, d

LEMMA ReplySteps ==
  ASSUME NEW s, Typed(s), Running(s), Holds(s, "Reply")
  PROVE  Steps(Finished([s EXCEPT !.rep = Append(@, s.rx.v[1])]), s)
<1> DEFINE x == Append(s.rep, s.rx.v[1])
           d == [s EXCEPT !.rep = x]
           r == DoneEvent(d)
<1>0. x \in Seq(Nat)
  BY FieldTypes, PacketValue
<1> HIDE DEF x
<1>1. /\ d.out = s.out /\ d.deferred = s.deferred /\ d.rx = s.rx
      /\ d.got = s.got /\ d.rep = x
      /\ d.nData = s.nData /\ d.nReq = s.nReq
      /\ d.conn = s.conn /\ d.err = s.err /\ d.sendingKex = s.sendingKex
      /\ d.rxs = s.rxs /\ d.extra = s.extra /\ d.idled = s.idled
      /\ d.ev = s.ev /\ Typed(d)
  BY ZenonT(60), <1>0 DEF Typed, PeerState
<1>2. [s EXCEPT !.rep = Append(@, s.rx.v[1])] = d
  BY DEF x
<1> HIDE DEF d
<1>3. /\ r.out = s.out /\ r.deferred = s.deferred /\ r.rx = s.rx
      /\ r.got = s.got /\ r.rep = x
      /\ r.nData = s.nData /\ r.nReq = s.nReq
      /\ r.conn = s.conn /\ r.err = s.err /\ r.sendingKex = s.sendingKex
      /\ r.rxs = "Idle" /\ r.extra = s.extra /\ r.idled = s.idled
      /\ r.ev = "None"
  BY <1>1, DoneEventFields, DoneEventFacts DEF Holds
<1>4. Finished(d) = r
  BY <1>1 DEF Finished, Running
<1> HIDE DEF r
<1>5. KeepsOrder(r, s)
  BY <1>3, RepTakenOrder DEF x, Running
<1>6. /\ KeepsLaw(r, s)
      /\ OnlyReplies(s) => OnlyReplies(r)
      /\ Mid(s) => Mid(r)
  BY <1>3, SilentKeeps DEF OnlyReplies, Mid
<1>7. Steps(r, s)
  BY <1>3, <1>5, <1>6 DEF Steps
<1> QED
  BY <1>2, <1>4, <1>7

LEMMA HandlePayloadSteps ==
  ASSUME NEW s, Typed(s)
  PROVE  Steps(HandlePayload(s), s)
<1> DEFINE d == DispatchPacket(s)
<1>1. CASE ~(Running(s) /\ s.rxs = "InPayload")
  BY <1>1, StepsRefl DEF HandlePayload
<1>2. CASE Running(s) /\ s.rxs = "InPayload"
  <2>1. HandlePayload(s) = Finished(d)
    BY <1>2 DEF HandlePayload, Finished
  <2>2. CASE s.rx.t \notin CatSess \cup {"UserauthSuccess"}
    BY <2>1, <2>2, DispatchCalm, CalmFinished
  <2>3. CASE ~CheckPacket(s)
    <3>1. d = Fail(s, "SSHProto")
      BY <2>3 DEF DispatchPacket
    <3>2. "SSHProto" \in Errors \ {"ok"}
      BY DEF Errors
    <3>3. Calm(d, s) /\ d.err # "ok"
      BY <3>1, <3>2, FailCalm, FailFacts
    <3> HIDE DEF d
    <3> QED
      BY <2>1, <3>3, CalmFinished
  <2>4. CASE CheckPacket(s) /\ s.rx.t = "UserauthSuccess"
    <3>1. d = UserauthSuccess(s)
      BY <2>4 DEF DispatchPacket
    <3> QED
      BY <2>1, <2>4, <3>1, UserauthSuccessSteps
  <2>5. CASE CheckPacket(s) /\ s.rx.t = "Data"
    <3>1. d = [s EXCEPT !.rxs = "InChannelData"]
      BY <2>5 DEF DispatchPacket
    <3>2. Holds(s, "Data")
      BY <1>2, <2>5 DEF Holds
    <3> QED
      BY ZenonT(60), <1>2, <2>1, <3>1, <3>2, DataSteps
  <2>6. CASE CheckPacket(s) /\ s.rx.t = "Req"
    <3>1. d = SendPacket(s, "Reply", s.rx.v)
      BY <2>6 DEF DispatchPacket
    <3>2. Holds(s, "Req")
      BY <1>2, <2>6 DEF Holds
    <3> QED
      BY ZenonT(60), <1>2, <2>1, <3>1, <3>2, RequestSteps
  <2>7. CASE CheckPacket(s) /\ s.rx.t = "Reply"
    <3>1. d = [s EXCEPT !.rep = Append(@, s.rx.v[1])]
      BY <2>7 DEF DispatchPacket
    <3>2. Holds(s, "Reply")
      BY <1>2, <2>7 DEF Holds
    <3> QED
      BY ZenonT(60), <1>2, <2>1, <3>1, <3>2, ReplySteps
  <2> QED
    BY ZenonT(60), <2>2, <2>3, <2>4, <2>5, <2>6, <2>7 DEF CatSess
<1> QED
  BY <1>1, <1>2

\* When this stage has not ended the call, the payload is finished with
LEMMA HandlePayloadEmpties ==
  ASSUME NEW s, PeerInv(s), Running(HandlePayload(s))
  PROVE  HandlePayload(s).rxs # "InPayload"
<1> DEFINE d == DispatchPacket(s)
<1>1. CASE ~(Running(s) /\ s.rxs = "InPayload")
  BY <1>1 DEF HandlePayload
<1>2. CASE Running(s) /\ s.rxs = "InPayload"
  <2>1. HandlePayload(s) = IF Running(d) THEN DoneEvent(d) ELSE d
    BY <1>2 DEF HandlePayload
  <2>2. PeerInv(d)
    BY <1>2, DispatchPacketInv DEF Running
  <2> HIDE DEF d
  <2>3. DoneEvent(d).rxs # "InPayload"
    BY <2>2, DoneEventFields DEF PeerInv
  <2> QED
    BY <2>1, <2>3
<1> QED
  BY <1>1, <1>2

LEMMA KexProgressSteps ==
  ASSUME NEW s, PeerInv(s), Running(s)
  PROVE  Steps(KexProgress(s), s)
<1>1. Calm(KexProgress(s), s) /\ Typed(s)
  BY KexProgressCalm DEF PeerInv
<1>2. KexProgress(s).ev = "None"
  BY KexProgressFacts DEF Running
<1> QED
  BY <1>1, <1>2, CalmSteps

LEMMA ConnProgressSteps ==
  ASSUME NEW s, Typed(s), Running(s), s.rxs # "InPayload",
         s.conn = "SendIdent" => ~s.sendingKex
  PROVE  /\ Steps(ConnProgress(s), s)
         /\ ConnProgress(s).err = "ok" => ConnProgress(s).conn # "SendIdent"
<1>1. CASE s.conn = "SendIdent"
  <2> DEFINE o == Append(s.out, Nothing)
             i == [s EXCEPT !.out = o, !.used = 1]
             k == StartKexInit(i)
             r == [k EXCEPT !.conn = "ReceiveIdent", !.idled = FALSE]
  <2>1. ConnProgress(s) = r
    BY <1>1 DEF ConnProgress
  <2>2. o \in Seq(Packet) /\ Nothing \in Packet /\ Nothing.t = "Ident"
    <3>1. Nothing \in Packet /\ Nothing.t = "Ident"
      BY DEF Nothing, Packet, PacketTypes, Values, NoValue, Cleartext
    <3> QED  BY <3>1, FieldTypes
  <2> HIDE DEF o
  <2>3. Typed(i) /\ Same(i, s) /\ i.out = o /\ i.err = s.err /\ i.ev = s.ev
        /\ i.sendingKex = s.sendingKex
    <3>1. 1 <= OutRoom
      BY TransportAssumption
    <3> QED
      BY ZenonT(60), <2>2, <3>1 DEF Same, Beside, Typed, PeerState
  <2> HIDE DEF i
  <2>4. Calm(i, s)
    <3>1. KeepsLaw(i, s) /\ \A T : T # "Ident" => KeepsNumbers(i, s, T)
      BY <1>1, <2>2, <2>3, PushKeeps DEF o, Running
    <3>2. "Ident" \notin CatSess
      BY DEF CatSess
    <3> QED
      BY <2>3, <3>1, <3>2 DEF Calm
  <2>5. Calm(k, s) /\ Typed(k)
    BY ZenonT(60), <2>3, <2>4, StartKexInitCalm, CalmTrans DEF Calm
  <2> HIDE DEF k
  <2>6. Steps(k, s)
    BY <2>5, CalmSteps DEF Calm, Same, Beside
  <2>7. /\ r.out = k.out /\ r.deferred = k.deferred /\ r.rx = k.rx
        /\ r.got = k.got /\ r.rep = k.rep
        /\ r.nData = k.nData /\ r.nReq = k.nReq
        /\ r.conn = "ReceiveIdent" /\ r.err = k.err
        /\ r.sendingKex = k.sendingKex /\ r.ev = k.ev
        /\ r.rxs = k.rxs /\ r.extra = k.extra /\ r.idled = FALSE
    BY ZenonT(60), <2>5 DEF Typed, PeerState
  <2> HIDE DEF r
  <2>8. Mid(k) => Mid(r)
    BY <2>7 DEF Mid
  <2>9. Steps(r, k)
    BY <2>5, <2>7, <2>8, SilentSteps DEF HasData, Holds
  <2>10. Steps(r, s)
    BY ZenonT(60), <2>6, <2>9, StepsTrans
  <2> QED
    BY <2>1, <2>7, <2>10
<1>2. ASSUME NEW x \in ConnStates \ {"SendIdent"},
             ConnProgress(s) = [s EXCEPT !.conn = x, !.idled = FALSE]
      PROVE  Steps(ConnProgress(s), s) /\ ConnProgress(s).conn # "SendIdent"
  <2> DEFINE r == [s EXCEPT !.conn = x, !.idled = FALSE]
  <2>1. /\ r.out = s.out /\ r.deferred = s.deferred /\ r.rx = s.rx
        /\ r.got = s.got /\ r.rep = s.rep
        /\ r.nData = s.nData /\ r.nReq = s.nReq
        /\ r.conn = x /\ r.err = s.err
        /\ r.sendingKex = s.sendingKex /\ r.ev = s.ev
        /\ r.rxs = s.rxs /\ r.extra = s.extra /\ r.idled = FALSE
    BY ZenonT(60) DEF Typed, PeerState
  <2> HIDE DEF r
  <2>2. Mid(s) => Mid(r)
    BY <2>1 DEF Mid
  <2>3. Steps(r, s)
    BY <2>1, <2>2, SilentSteps DEF HasData, Holds
  <2> QED
    BY <1>2, <2>1, <2>3 DEF r
<1>3. CASE ConnProgress(s) = [s EXCEPT !.ev = "Username", !.auth = TRUE]
           /\ s.conn # "SendIdent"
  <2> DEFINE r == [s EXCEPT !.ev = "Username", !.auth = TRUE]
  <2>1. /\ r.out = s.out /\ r.deferred = s.deferred /\ r.rx = s.rx
        /\ r.got = s.got /\ r.rep = s.rep
        /\ r.nData = s.nData /\ r.nReq = s.nReq
        /\ r.conn = s.conn /\ r.err = s.err
        /\ r.sendingKex = s.sendingKex
        /\ r.rxs = s.rxs /\ r.extra = s.extra /\ r.idled = s.idled
    BY ZenonT(60) DEF Typed, PeerState
  <2> HIDE DEF r
  <2>2. Mid(s) => Mid(r)
    BY <2>1 DEF Mid
  <2>3. Steps(r, s)
    BY <2>1, <2>2, SilentSteps DEF HasData, Holds
  <2> QED
    BY <1>3, <2>1, <2>3 DEF r
<1>4. CASE ConnProgress(s) = s /\ s.conn # "SendIdent"
  BY <1>4, StepsRefl
<1>5. "FirstKex" \in ConnStates \ {"SendIdent"}
      /\ "PreAuth" \in ConnStates \ {"SendIdent"}
  BY DEF ConnStates
<1> QED
  BY ZenonT(60), <1>1, <1>2, <1>3, <1>4, <1>5 DEF ConnProgress

-----------------------------------------------------------------------------
(* The actions.  An action that leaves the streams in flight alone takes   *)
(* the Runner s to a Runner r.                                             *)

Advances(r, s) ==
  /\ OnlyReplies(r) /\ Early(r) /\ KeepsLaw(r, s)
  /\ Settled(s) => Settled(r) /\ KeepsOrder(r, s)

LEMMA StepsAdvance ==
  ASSUME NEW s, NEW r, Steps(r, s), OnlyReplies(s),
         r.err = "ok" => r.conn # "SendIdent",
         r.err = "ok" /\ r.idled => r.ev = "None"
  PROVE  Advances(r, s)
  BY DEF Advances, Steps, Settled, Early

\* Where a Runner has not sent its identification, Kex has nothing to do or
\* starts to drain
LEMMA KexProgressIdle ==
  ASSUME NEW s, PeerInv(s), Running(s), s.kex = "Idle",
         KexProgress(s).err = "ok"
  PROVE  ~KexProgress(s).sendingKex
<1> DEFINE d == SetDrainOutput(s, TRUE)
<1>1. Typed(s) /\ ~s.sendingKex
  BY DEF PeerInv, KexOK, Running, IsSending
<1>2. KexProgress(s) = s \/ KexProgress(s) = Become(d, "StartKexInit")
  BY ZenonT(60) DEF KexProgress, StartKexInit
<1>3. Typed(d) /\ d.sendingKex = s.sendingKex
  BY ZenonT(60), <1>1, SetDrainFacts
<1> HIDE DEF d
<1>4. Become(d, "StartKexInit").sendingKex = d.sendingKex
  BY <1>3, BecomeFacts DEF KexStates
<1> QED
  BY <1>1, <1>2, <1>3, <1>4

LEMMA ProgressAdvances ==
  ASSUME QuietInv, NEW p \in Peers, Progress(p)
  PROVE  \E r : Set(p, r) /\ Advances(r, peer[p])
<1> DEFINE s0 == peer[p]
           s1 == BeginProgress(s0)
           s2 == HandlePayload(s1)
           s3 == IF Running(s2) THEN KexProgress(s2) ELSE s2
           s4 == IF Running(s3) THEN ConnProgress(s3) ELSE s3
           b == s4.idled /\ s4.ev = "None"
           s5 == [s4 EXCEPT !.idled = b]
<1>1. Set(p, s5) /\ Free(p)
  BY DEF Progress
<1>2. /\ PeerInv(s0) /\ Typed(s0) /\ OnlyReplies(s0) /\ Early(s0)
      /\ s0.err = "ok" /\ s0.ev \notin Resumable
  BY <1>1 DEF QuietInv, Inv, PeerInv, Free
<1>3. PeerInv(s1) /\ Typed(s1) /\ Steps(s1, s0)
  BY <1>2, BeginProgressInv, BeginProgressSteps DEF PeerInv
<1>4. s0.conn = "SendIdent" =>
        s1.kex = "Idle" /\ s1.rxs = "Idle" /\ s1.ev = "None"
  BY <1>2, BeginProgressEarly
<1> HIDE DEF s0, s1
<1>5. /\ PeerInv(s2) /\ Typed(s2) /\ Steps(s2, s1)
      /\ Running(s2) => s2.rxs # "InPayload"
  BY <1>3, HandlePayloadInv, HandlePayloadSteps, HandlePayloadEmpties
  DEF PeerInv
<1>6. s0.conn = "SendIdent" => s2 = s1
  BY <1>4 DEF HandlePayload
<1> HIDE DEF s2
<1>7. PeerInv(s3) /\ Typed(s3) /\ Steps(s3, s2)
  BY ZenonT(60), <1>5, KexProgressFacts, KexProgressSteps, StepsRefl
  DEF PeerInv, Running
<1>8. Running(s3) => s3.rxs # "InPayload"
  BY <1>5, KexProgressCalm DEF Calm, Same, Beside
<1>9. s0.conn = "SendIdent" /\ s3.err = "ok" => ~s3.sendingKex /\ Running(s3)
  <2> SUFFICES ASSUME s0.conn = "SendIdent", s3.err = "ok"
               PROVE  ~s3.sendingKex /\ Running(s3)
    OBVIOUS
  <2>1. s2.err = "ok"
    BY <1>7 DEF Steps
  <2>2. Running(s2) /\ s2.kex = "Idle"
    BY <1>4, <1>6, <2>1 DEF Running
  <2> QED
    BY <1>5, <2>2, KexProgressIdle, KexProgressFacts DEF Running
<1> HIDE DEF s3
<1>10. Steps(s3, s0)
  BY ZenonT(60), <1>3, <1>5, <1>7, StepsTrans
<1>11. s3.conn = "SendIdent" => s0.conn = "SendIdent"
  BY <1>10 DEF Steps
<1>12. /\ PeerInv(s4) /\ Typed(s4) /\ Steps(s4, s3)
       /\ s4.err = "ok" => s4.conn # "SendIdent"
  <2>1. CASE Running(s3)
    BY <1>7, <1>8, <1>9, <1>11, <2>1, ConnProgressInv, ConnProgressSteps
    DEF PeerInv, Running
  <2>2. CASE ~Running(s3)
    BY <1>7, <1>9, <1>11, <2>2, StepsRefl
  <2> QED
    BY <2>1, <2>2
<1> HIDE DEF s4
<1>13. b \in BOOLEAN /\ (b => s4.idled /\ s4.ev = "None")
  OBVIOUS
<1> HIDE DEF b
<1>14. /\ s5.out = s4.out /\ s5.deferred = s4.deferred /\ s5.rx = s4.rx
       /\ s5.got = s4.got /\ s5.rep = s4.rep
       /\ s5.nData = s4.nData /\ s5.nReq = s4.nReq
       /\ s5.conn = s4.conn /\ s5.err = s4.err
       /\ s5.sendingKex = s4.sendingKex /\ s5.ev = s4.ev
       /\ s5.rxs = s4.rxs /\ s5.extra = s4.extra /\ s5.idled = b
  BY ZenonT(60), <1>12 DEF Typed, PeerState
<1> HIDE DEF s5
<1>15. Mid(s4) => Mid(s5)
  BY <1>13, <1>14 DEF Mid
<1>16. Steps(s5, s4)
  BY <1>12, <1>14, <1>15, SilentSteps DEF HasData, Holds
<1>17. Steps(s5, s0)
  BY ZenonT(60), <1>10, <1>12, <1>16, StepsTrans
<1>18. Advances(s5, s0)
  BY <1>2, <1>12, <1>13, <1>14, <1>17, StepsAdvance
<1> QED
  BY <1>1, <1>18 DEF s0

\* A calm answer to an event, which is then completed
LEMMA CalmDone ==
  ASSUME NEW s, Typed(s), NEW n, Calm(n, s), s.ev # "None"
  PROVE  Steps(DoneEvent(n), s)
<1>1. Typed(n) /\ n.rx = s.rx /\ n.rxs = s.rxs
  BY DEF Calm, Same, Beside
<1>2. CASE Mid(s)
  <2>1. n.err = "ok" /\ s.rxs = "InPayload" => s.rx.t \notin CatSess
    BY <1>2 DEF Mid, Calm
  <2>2. Steps(n, s)
    BY <1>1, <2>1, CalmSteps
  <2>3. Steps(DoneEvent(n), n)
    BY <1>1, <2>1, DoneEventSteps
  <2> QED
    BY ZenonT(60), <2>2, <2>3, StepsTrans
<1>3. CASE ~Mid(s)
  <2> DEFINE r == DoneEvent(n)
  <2>1. /\ r.out = n.out /\ r.deferred = n.deferred /\ r.conn = n.conn
        /\ r.err = n.err /\ r.sendingKex = n.sendingKex
    BY <1>1, DoneEventFields, DoneEventFacts
  <2> HIDE DEF r
  <2>2. KeepsLaw(r, n)
    BY <2>1, SilentKeeps
  <2>3. KeepsLaw(r, s)
    BY ZenonT(60), <2>2 DEF KeepsLaw, Calm
  <2>4. OnlyReplies(s) => OnlyReplies(r)
    BY <2>1 DEF OnlyReplies, Calm, Same
  <2> QED
    BY <1>3, <2>1, <2>3, <2>4 DEF Steps, Calm, Same, Beside, r
<1> QED
  BY <1>2, <1>3

\* An event that was answered: the Runner cannot have been idle
LEMMA DoneAdvances ==
  ASSUME NEW s, Typed(s), OnlyReplies(s), s.conn # "SendIdent",
         NEW r, Steps(r, s), r.err = "ok" => r.ev = "None"
  PROVE  Advances(r, s)
  BY StepsAdvance DEF Steps

LEMMA ResumeCheckHostkeyAdvances ==
  ASSUME NEW s, Typed(s), s.ev = "Hostkey", OnlyReplies(s),
         s.conn # "SendIdent"
  PROVE  Advances(ResumeCheckHostkey(s, TRUE), s)
<1> DEFINE c == [s EXCEPT !.kex = "Taken"]
           n == SendNewKeys(c)
           f == Fail(c, "BadSig")
<1>1. Calm(c, s) /\ Typed(c) /\ c.ev = s.ev
  <2>1. "Taken" \in KexStates
    BY DEF KexStates
  <2>2. Typed(c) /\ c.ev = s.ev
    BY <2>1, PutKex
  <2>3. Calm(c, s)
    BY ZenonT(60), <2>1, PutCalm
  <2> QED
    BY <2>2, <2>3
<1>2. ResumeCheckHostkey(s, TRUE) \in {f, DoneEvent(n)}
  BY DEF ResumeCheckHostkey
<1> HIDE DEF c
<1>3. Calm(f, s) /\ f.ev = s.ev /\ f.err # "ok"
  <2>1. "BadSig" \in Errors \ {"ok"}
    BY DEF Errors
  <2>2. Calm(f, c) /\ f.ev = c.ev /\ f.err = "BadSig"
    BY ZenonT(60), <1>1, <2>1, FailCalm, FailFacts DEF Steady
  <2> HIDE DEF f
  <2> QED
    BY <1>1, <2>2, CalmTrans
<1>4. Calm(n, s) /\ Typed(n)
  <2>1. Calm(n, c)
    BY <1>1, SendNewKeysCalm
  <2> HIDE DEF n
  <2> QED
    BY ZenonT(60), <1>1, <2>1, CalmTrans DEF Calm
<1> HIDE DEF n, f
<1>5. Advances(f, s)
  BY <1>3, CalmSteps, DoneAdvances
<1>6. Advances(DoneEvent(n), s)
  <2>1. Steps(DoneEvent(n), s)
    BY <1>4, CalmDone
  <2>2. DoneEvent(n).ev = "None"
    BY <1>4, DoneEventFacts
  <2> QED
    BY <2>1, <2>2, DoneAdvances
<1> QED
  BY ZenonT(60), <1>2, <1>5, <1>6

LEMMA ResumeServHostkeysAdvances ==
  ASSUME NEW s, Typed(s), s.ev = "Hostkeys", OnlyReplies(s),
         s.conn # "SendIdent"
  PROVE  Advances(ResumeServHostkeys(s), s)
<1> DEFINE c == [s EXCEPT !.kex = "Taken"]
           h == KexHash(s)
           reply == SendPacket(c, "KexDHReply", h)
           keyed == SendNewKeys(reply)
           info == IF IsFirstKex(s) THEN SendExtInfo(keyed) ELSE keyed
<1>1. Calm(c, s) /\ Typed(c) /\ h \in Values
  BY ZenonT(60), PutCalm, PutKex, KexHashType DEF KexStates
<1>2. ResumeServHostkeys(s) = DoneEvent(info)
  BY DEF ResumeServHostkeys
<1> HIDE DEF c, h
<1>3. /\ "KexDHReply" \in PacketTypes \ CatSess
      /\ "ExtInfo" \in PacketTypes \ CatSess /\ NoValue \in Values
  BY DEF PacketTypes, CatSess, CatKex, CatAll, Values, NoValue
<1>4. Calm(reply, s) /\ Typed(reply)
  <2>1. Calm(reply, c)
    BY <1>1, <1>3, SendCalm
  <2> HIDE DEF reply
  <2> QED
    BY ZenonT(60), <1>1, <2>1, CalmTrans DEF Calm
<1> HIDE DEF reply
<1>5. Calm(keyed, s) /\ Typed(keyed)
  <2>1. Calm(keyed, reply)
    BY <1>4, SendNewKeysCalm
  <2> HIDE DEF keyed
  <2> QED
    BY ZenonT(60), <1>4, <2>1, CalmTrans DEF Calm
<1> HIDE DEF keyed
<1>6. Calm(info, s) /\ Typed(info)
  <2>1. Calm(SendExtInfo(keyed), keyed)
    BY <1>3, <1>5, SendCalm DEF SendExtInfo
  <2>2. Calm(SendExtInfo(keyed), s)
    BY ZenonT(60), <1>5, <2>1, CalmTrans
  <2> QED
    BY ZenonT(60), <1>5, <2>2 DEF Calm
<1> HIDE DEF info
<1>7. Steps(DoneEvent(info), s)
  BY <1>6, CalmDone
<1>8. DoneEvent(info).ev = "None"
  BY <1>6, DoneEventFacts
<1> QED
  BY <1>2, <1>7, <1>8, DoneAdvances

LEMMA ResumeUsernameAdvances ==
  ASSUME NEW s, Typed(s), s.ev = "Username", OnlyReplies(s),
         s.conn # "SendIdent"
  PROVE  Advances(ResumeUsername(s), s)
<1> DEFINE d == DoneEvent(s)
           a == SendPacket(d, "ServiceRequest", NoValue)
           r == SendPacket(a, "UserauthRequest", NoValue)
<1>1. ResumeUsername(s) = r
  BY DEF ResumeUsername
<1>2. /\ "ServiceRequest" \in PacketTypes \ CatSess
      /\ "UserauthRequest" \in PacketTypes \ CatSess /\ NoValue \in Values
  BY DEF PacketTypes, CatSess, CatAuth, Values, NoValue
<1>3. Typed(d) /\ d.ev = "None" /\ Steps(d, s)
  BY DoneEventFacts, DoneEventSteps DEF Mid
<1> HIDE DEF d
<1>4. Calm(a, d) /\ Typed(a) /\ a.ev = "None"
  BY <1>2, <1>3, SendCalm, SendPacketFacts DEF Sent, Steady
<1> HIDE DEF a
<1>5. Calm(r, a) /\ r.ev = "None"
  BY <1>2, <1>4, SendCalm, SendPacketFacts DEF Sent, Steady
<1> HIDE DEF r
<1>6. Steps(a, d) /\ Steps(r, a)
  BY <1>3, <1>4, <1>5, CalmSteps
<1>7. Steps(r, s)
  BY ZenonT(60), <1>3, <1>6, StepsTrans
<1> QED
  BY <1>1, <1>5, <1>7, DoneAdvances

LEMMA ResumeServAuthAdvances ==
  ASSUME NEW s, Typed(s), s.ev = "FirstAuth", OnlyReplies(s),
         s.conn # "SendIdent"
  PROVE  Advances(ResumeServAuth(s), s)
<1> DEFINE sent == SendPacket(s, "UserauthSuccess", NoValue)
           a == [sent EXCEPT !.conn = "Authed", !.extra = "Authenticated"]
           r == DoneEvent(a)
<1>1. ResumeServAuth(s) = IF sent.err = "ok" THEN r ELSE DoneEvent(sent)
  BY DEF ResumeServAuth
<1>2. "UserauthSuccess" \in PacketTypes \ CatSess /\ NoValue \in Values
  BY DEF PacketTypes, CatSess, CatAuth, Values, NoValue
<1>3. Calm(sent, s) /\ Typed(sent)
  BY ZenonT(60), <1>2, SendCalm DEF Calm
<1> HIDE DEF sent
<1>4. /\ Typed(a)
      /\ a.out = sent.out /\ a.deferred = sent.deferred /\ a.rx = sent.rx
      /\ a.got = sent.got /\ a.rep = sent.rep
      /\ a.nData = sent.nData /\ a.nReq = sent.nReq
      /\ a.conn = "Authed" /\ a.err = sent.err
      /\ a.sendingKex = sent.sendingKex /\ a.rxs = sent.rxs
      /\ a.idled = sent.idled
  BY ZenonT(60), <1>3 DEF Typed, PeerState, ConnStates
<1> HIDE DEF a
<1>5. /\ r.out = sent.out /\ r.deferred = sent.deferred /\ r.rx = sent.rx
      /\ r.got = sent.got /\ r.rep = sent.rep
      /\ r.nData = sent.nData /\ r.nReq = sent.nReq
      /\ r.conn = "Authed" /\ r.err = sent.err
      /\ r.sendingKex = sent.sendingKex /\ r.ev = "None"
      /\ r.rxs = IF sent.rxs = "InPayload" THEN "Idle" ELSE sent.rxs
      /\ r.idled = sent.idled
  BY <1>4, DoneEventFields, DoneEventFacts
<1> HIDE DEF r
<1>6. CASE sent.err = "ok"
  <2>1. KeepsLaw(r, sent) /\ \A T : KeepsNumbers(r, sent, T)
    BY <1>5, SilentKeeps
  <2>2. KeepsLaw(r, s) /\ \A T \in CatSess : KeepsNumbers(r, s, T)
    BY ZenonT(60), <1>3, <2>1 DEF KeepsLaw, KeepsNumbers, Calm
  <2>3. OnlyReplies(r) /\ Early(r)
    BY <1>3, <1>5 DEF OnlyReplies, Early, Calm, Same
  <2>4. ASSUME Settled(s) PROVE Settled(r) /\ KeepsOrder(r, s)
    <3>1. s.rxs = "InPayload" => s.rx.t \notin CatSess
      BY <1>3, <1>6, <2>4 DEF Settled, Mid, Calm
    <3>2. ~s.idled
      BY <1>3, <1>6, <2>4 DEF Settled, Calm
    <3>3. Settled(r)
      BY <1>3, <1>5, <3>2 DEF Settled, Mid, Calm, Same, Beside
    <3>4. Undisturbed(r, s)
      BY <1>3, <1>5, <2>2, <3>1
      DEF Undisturbed, HasData, Holds, Calm, Same, Beside, CatSess
    <3> QED
      BY <3>3, <3>4, UndisturbedOrder
  <2> QED
    BY <1>1, <1>6, <2>2, <2>3, <2>4 DEF Advances
<1>7. CASE sent.err # "ok"
  <2>1. Steps(DoneEvent(sent), s)
    BY <1>3, CalmDone
  <2>2. DoneEvent(sent).ev = "None"
    BY <1>3, DoneEventFacts
  <2> QED
    BY <1>1, <1>7, <2>1, <2>2, DoneAdvances
<1> QED
  BY <1>6, <1>7

LEMMA ResumeAdvances ==
  ASSUME QuietInv, NEW p \in Peers, Resume(p)
  PROVE  \E r : Set(p, r) /\ Advances(r, peer[p])
<1>1. /\ Typed(peer[p]) /\ OnlyReplies(peer[p]) /\ Early(peer[p])
      /\ peer[p].err = "ok"
  BY DEF QuietInv, Inv, PeerInv, Resume
<1>2. \/ peer[p].ev = "Hostkey" /\ Set(p, ResumeCheckHostkey(peer[p], TRUE))
      \/ peer[p].ev = "Hostkeys" /\ Set(p, ResumeServHostkeys(peer[p]))
      \/ peer[p].ev = "Username" /\ Set(p, ResumeUsername(peer[p]))
      \/ peer[p].ev = "FirstAuth" /\ Set(p, ResumeServAuth(peer[p]))
  BY ZenonT(60) DEF Resume
<1>3. peer[p].conn # "SendIdent"
  BY ZenonT(60), <1>1, <1>2 DEF Early
<1> QED
  BY ZenonT(60), <1>1, <1>2, <1>3, ResumeCheckHostkeyAdvances,
     ResumeServHostkeysAdvances, ResumeUsernameAdvances, ResumeServAuthAdvances

\* Channel data or a request of the application, with the next number
LEMMA AppSendOrder ==
  ASSUME NEW s, Typed(s), s.err = "ok",
         NEW t \in {"Data", "Req"}, NEW x \in Nat,
         x = (IF t = "Data" THEN s.nData ELSE s.nReq) + 1,
         NEW d, Sends(d, s, t, <<x, 0>>),
         NEW r, r.out = d.out, r.deferred = d.deferred, r.err = d.err,
         r.rx = s.rx, r.got = s.got, r.rep = s.rep, r.rxs = s.rxs,
         r.nData = IF t = "Data" THEN x ELSE s.nData,
         r.nReq = IF t = "Req" THEN x ELSE s.nReq
  PROVE  KeepsOrder(r, s)
<1> SUFFICES ASSUME NEW o, Typed(o), NEW n \in Seq(Packet),
                    NEW inc \in Seq(Packet),
                    OrderOf(s, o, n \o s.out, inc)
             PROVE  OrderOf(r, o, n \o r.out, inc)
  BY ZenonT(60) DEF KeepsOrder
<1> DEFINE a == n \o s.out
           b == n \o r.out
<1>1. OrderOf(s, o, a, inc)
  OBVIOUS
<1>2. /\ HasData(r) <=> HasData(s)
      /\ Holds(r, "Reply") <=> Holds(s, "Reply")
      /\ Holds(r, "Req") <=> Holds(s, "Req")
  BY DEF HasData, Holds
<1>3. r.deferred = s.deferred
  BY DEF Sends, Pushed, Queued, Deferrable
<1>4. /\ DataIn(r) = DataIn(s) /\ RepliesIn(r) = RepliesIn(s)
      /\ \A mid : ReqsIn(r, mid) = ReqsIn(s, mid)
  BY <1>2, <1>3 DEF DataIn, RepliesIn, ReqsIn
<1>5. Counting(r.got) /\ Counting(r.rep)
  BY <1>1 DEF OrderOf
<1>6. \A T : T # t => \A lo, hi \in Nat :
               Numbered(a, T, lo, hi) => Numbered(b, T, lo, hi)
  BY ZenonT(60) DEF Sends, KeepsNumbers
<1>7. CASE r.err # "ok"
  <2>1. b = a
    BY Zenon, <1>7 DEF Sends
  <2>2. DataOK(r, o, a) /\ DataOK(o, r, inc)
    BY Zenon, <1>1, <1>7 DEF OrderOf, DataOK
  <2>3. ReplyOK(r, o, a, inc) /\ ReplyOK(o, r, inc, a)
    BY Zenon, <1>1, <1>7 DEF OrderOf, ReplyOK
  <2> QED
    BY <1>5, <2>1, <2>2, <2>3 DEF OrderOf
<1>8. CASE r.err = "ok"
  <2>1. PICK p \in Packet : /\ p.t = t /\ p.v = <<x, 0>>
                            /\ r.out = Append(s.out, p)
    BY <1>8 DEF Sends, Pushed, Queued, Deferrable
  <2>2. a \in Seq(Packet) /\ b = Append(a, p) /\ p.v[1] = x
    <3>1. s.out \in Seq(Packet)
      BY FieldTypes
    <3>2. a \in Seq(Packet) /\ n \o Append(s.out, p) = Append(a, p)
      BY ZenonT(60), <3>1, StreamMoves
    <3>3. p.v[1] = x
      BY <2>1
    <3> QED
      BY ZenonT(60), <2>1, <3>2, <3>3
  <2>3. \A lo, hi \in Nat : Numbered(a, t, lo, hi) /\ x = hi + 1
                              => Numbered(b, t, lo, x)
    BY ZenonT(60), <2>1, <2>2, NumberedAppend
  <2> HIDE DEF a, b
  <2>4. /\ s.nData \in Nat /\ s.nReq \in Nat
        /\ DataIn(o) \in Nat /\ RepliesIn(o) \in Nat
        /\ \A mid \in Nat : ReqsIn(o, mid) \in Nat
    BY ZenonT(60), CountTypes
  <2>5. DataOK(r, o, b)
    <3> SUFFICES ASSUME o.err = "ok" PROVE DataOK(r, o, b)
      BY Zenon DEF DataOK
    <3>1. /\ HasData(o) => o.rx.v[1] = Len(o.got) + 1
          /\ Numbered(a, "Data", DataIn(o), s.nData)
      BY <1>1 DEF OrderOf, DataOK
    <3>2. Numbered(b, "Data", DataIn(o), r.nData) /\ r.nData \in Nat
      BY ZenonT(60), <1>6, <2>3, <2>4, <3>1
    <3> QED
      BY <3>1, <3>2 DEF DataOK
  <2>6. DataOK(o, r, inc)
    BY Zenon, <1>1, <1>2, <1>4 DEF OrderOf, DataOK
  <2>7. ReplyOK(r, o, b, inc)
    <3>1. PICK mid \in Nat :
            /\ Numbered(inc, "Reply", RepliesIn(s), mid)
            /\ o.err = "ok" =>
                 /\ \A i \in 1..Len(o.deferred) : o.deferred[i][2][1] = mid + i
                 /\ Holds(o, "Req") => o.rx.v[1] = mid + Len(o.deferred) + 1
                 /\ Numbered(a, "Req", ReqsIn(o, mid), s.nReq)
      BY Zenon, <1>1 DEF OrderOf, ReplyOK
    <3>2. Holds(r, "Reply") => r.rx.v[1] = Len(r.rep) + 1
      BY <1>1, <1>2 DEF OrderOf, ReplyOK
    <3>3. Numbered(a, "Req", ReqsIn(o, mid), s.nReq)
            => Numbered(b, "Req", ReqsIn(o, mid), r.nReq)
      BY ZenonT(60), <1>6, <2>3, <2>4, <3>1
    <3> QED
      BY Zenon, <1>4, <3>1, <3>2, <3>3 DEF ReplyOK
  <2>8. ReplyOK(o, r, inc, b)
    <3> SUFFICES ASSUME o.err = "ok" PROVE ReplyOK(o, r, inc, b)
      BY Zenon DEF ReplyOK
    <3>1. PICK mid \in Nat :
            /\ Numbered(a, "Reply", RepliesIn(o), mid)
            /\ \A i \in 1..Len(s.deferred) : s.deferred[i][2][1] = mid + i
            /\ Holds(s, "Req") => s.rx.v[1] = mid + Len(s.deferred) + 1
            /\ Numbered(inc, "Req", ReqsIn(s, mid), o.nReq)
      BY Zenon, <1>1 DEF OrderOf, ReplyOK
    <3>2. Holds(o, "Reply") => o.rx.v[1] = Len(o.rep) + 1
      BY Zenon, <1>1 DEF OrderOf, ReplyOK
    <3>3. Numbered(b, "Reply", RepliesIn(o), mid)
      BY Zenon, <1>6, <2>4, <3>1
    <3> QED
      BY <1>2, <1>3, <1>4, <3>1, <3>2, <3>3 DEF ReplyOK
  <2> QED
    BY Zenon, <1>5, <2>5, <2>6, <2>7, <2>8 DEF OrderOf, b
<1> QED
  BY <1>7, <1>8

\* The Runner d after the packet has been sent, and r with the new number
Numbers(r, d, t, x) ==
  /\ r.out = d.out /\ r.deferred = d.deferred /\ r.rx = d.rx
  /\ r.got = d.got /\ r.rep = d.rep /\ r.conn = d.conn /\ r.err = d.err
  /\ r.sendingKex = d.sendingKex /\ r.ev = d.ev
  /\ r.rxs = d.rxs /\ r.extra = d.extra /\ r.idled = d.idled
  /\ r.nData = IF t = "Data" THEN x ELSE d.nData
  /\ r.nReq = IF t = "Req" THEN x ELSE d.nReq

LEMMA AppSendAdvances ==
  ASSUME NEW s, Typed(s), s.err = "ok", OnlyReplies(s), s.conn = "Authed",
         NEW t \in {"Data", "Req"}, NEW x \in Nat,
         x = (IF t = "Data" THEN s.nData ELSE s.nReq) + 1,
         NEW d, Sends(d, s, t, <<x, 0>>), d.ev = s.ev,
         NEW r, Numbers(r, d, t, x)
  PROVE  Advances(r, s)
<1>1. Typed(d) /\ Beside(d, s)
  BY DEF Sends
<1>2. /\ r.out = d.out /\ r.deferred = d.deferred /\ r.rx = s.rx
      /\ r.got = s.got /\ r.rep = s.rep /\ r.conn = s.conn /\ r.err = d.err
      /\ r.sendingKex = d.sendingKex /\ r.ev = s.ev
      /\ r.rxs = s.rxs /\ r.extra = s.extra /\ r.idled = s.idled
      /\ r.nData = IF t = "Data" THEN x ELSE s.nData
      /\ r.nReq = IF t = "Req" THEN x ELSE s.nReq
  BY <1>1 DEF Numbers, Beside
<1>3. KeepsOrder(r, s)
  BY <1>2, AppSendOrder
<1>4. KeepsLaw(r, s)
  <2>1. KeepsLaw(r, d) /\ KeepsLaw(d, s)
    <3>1. r.err = "ok" => d.err = "ok" /\ r.sendingKex = d.sendingKex
      BY <1>2
    <3>2. KeepsLaw(r, d)
      BY Zenon, <1>2, <3>1, SilentKeeps
    <3> QED
      BY <3>2 DEF Sends
  <2> QED
    BY ZenonT(60), <2>1 DEF KeepsLaw
<1>5. r.deferred = s.deferred
  BY <1>2 DEF Sends, Pushed, Queued, Deferrable
<1>6. OnlyReplies(r) /\ Early(r)
  BY <1>2, <1>5 DEF OnlyReplies, Early, Sends
<1>7. Settled(s) => Settled(r)
  BY <1>2 DEF Settled, Mid
<1> QED
  BY <1>3, <1>4, <1>6, <1>7 DEF Advances

LEMMA ReadAdvances ==
  ASSUME NEW s, Typed(s), s.err = "ok", OnlyReplies(s), Early(s),
         s.rxs = "InChannelData",
         NEW r, r = [s EXCEPT !.rxs = "Idle", !.got = Append(@, s.rx.v[1])]
  PROVE  Advances(r, s)
<1> DEFINE g == Append(s.got, s.rx.v[1])
<1>1. /\ r.out = s.out /\ r.deferred = s.deferred /\ r.rx = s.rx
      /\ r.got = g /\ r.rep = s.rep /\ r.conn = s.conn /\ r.err = s.err
      /\ r.sendingKex = s.sendingKex /\ r.ev = s.ev
      /\ r.rxs = "Idle" /\ r.extra = s.extra /\ r.idled = s.idled
      /\ r.nData = s.nData /\ r.nReq = s.nReq
  BY ZenonT(60) DEF Typed, PeerState
<1>2. KeepsLaw(r, s)
  BY ZenonT(60), <1>1, SilentKeeps
<1>3. OnlyReplies(r) /\ Early(r)
  BY <1>1 DEF OnlyReplies, Early
<1>4. Settled(s) => Settled(r)
  BY <1>1 DEF Settled, Mid
<1>5. KeepsOrder(r, s)
  <2> SUFFICES ASSUME NEW o, Typed(o), NEW n \in Seq(Packet),
                      NEW inc \in Seq(Packet),
                      OrderOf(s, o, n \o s.out, inc)
               PROVE  OrderOf(r, o, n \o s.out, inc)
    BY ZenonT(60), <1>1 DEF KeepsOrder
  <2> DEFINE a == n \o s.out
  <2>1. OrderOf(s, o, a, inc)
    OBVIOUS
  <2> HIDE DEF a
  <2>2. /\ HasData(s) /\ ~HasData(r) /\ ~Holds(s, "Reply")
        /\ ~Holds(r, "Reply") /\ ~Holds(s, "Req") /\ ~Holds(r, "Req")
    BY <1>1 DEF HasData, Holds
  <2>3. /\ s.got \in Seq(Nat) /\ s.rx.v[1] \in Nat
        /\ s.rx.v[1] = Len(s.got) + 1 /\ Counting(s.got) /\ Counting(s.rep)
    BY <2>1, <2>2, FieldTypes, PacketValue DEF OrderOf, DataOK
  <2>4. Counting(r.got) /\ Len(r.got) = Len(s.got) + 1
    BY <1>1, <2>3 DEF Counting
  <2>5. /\ DataIn(r) = DataIn(s) /\ RepliesIn(r) = RepliesIn(s)
        /\ \A mid : ReqsIn(r, mid) = ReqsIn(s, mid)
    BY <1>1, <2>2, <2>4 DEF DataIn, RepliesIn, ReqsIn
  <2> HIDE DEF g
  <2>6. DataOK(r, o, a) /\ DataOK(o, r, inc)
    BY <1>1, <2>1, <2>2, <2>5 DEF OrderOf, DataOK
  <2>7. ReplyOK(r, o, a, inc)
    BY <1>1, <2>1, <2>2, <2>5 DEF OrderOf, ReplyOK
  <2>8. ReplyOK(o, r, inc, a)
    BY ZenonT(60), <1>1, <2>1, <2>2, <2>5 DEF OrderOf, ReplyOK
  <2> QED
    BY <1>1, <2>3, <2>4, <2>6, <2>7, <2>8 DEF OrderOf, a
<1> QED
  BY <1>2, <1>3, <1>4, <1>5 DEF Advances

LEMMA ApplicationAdvances ==
  ASSUME QuietInv, NEW p \in Peers,
         WriteChannel(p) \/ ReadChannel(p) \/ SendRequest(p)
  PROVE  \E r : Set(p, r) /\ Advances(r, peer[p])
<1> DEFINE s == peer[p]
<1>1. /\ Typed(s) /\ OnlyReplies(s) /\ Early(s) /\ s.err = "ok"
      /\ s.nData + 1 \in Nat /\ s.nReq + 1 \in Nat
  BY FieldTypes
  DEF QuietInv, Inv, PeerInv, WriteChannel, ReadChannel, SendRequest, Free
<1>2. CASE WriteChannel(p)
  <2> DEFINE d == SendPacket(s, "Data", <<s.nData + 1, 0>>)
             r == [d EXCEPT !.nData = s.nData + 1]
  <2>1. Set(p, r) /\ s.conn = "Authed"
    BY <1>2 DEF WriteChannel
  <2>2. Sends(d, s, "Data", <<s.nData + 1, 0>>) /\ Typed(d) /\ d.ev = s.ev
    <3>1. "Data" \in PacketTypes /\ <<s.nData + 1, 0>> \in Values
      BY <1>1 DEF PacketTypes, CatSess, Values
    <3> QED
      BY <1>1, <3>1, SendPacketSends, SendPacketFacts DEF Sent, Steady
  <2> HIDE DEF d
  <2>3. Numbers(r, d, "Data", s.nData + 1)
    BY ZenonT(60), <1>1, <2>2 DEF Numbers, Typed, PeerState
  <2> HIDE DEF r
  <2>4. Advances(r, s)
    BY <1>1, <2>1, <2>2, <2>3, AppSendAdvances
  <2> QED
    BY <2>1, <2>4
<1>3. CASE SendRequest(p)
  <2> DEFINE d == SendPacket(s, "Req", <<s.nReq + 1, 0>>)
             r == [d EXCEPT !.nReq = s.nReq + 1]
  <2>1. Set(p, r) /\ s.conn = "Authed"
    BY Zenon, <1>3 DEF SendRequest
  <2>2. Sends(d, s, "Req", <<s.nReq + 1, 0>>) /\ Typed(d) /\ d.ev = s.ev
    <3>1. "Req" \in PacketTypes /\ <<s.nReq + 1, 0>> \in Values
      BY <1>1 DEF PacketTypes, CatSess, Values
    <3> QED
      BY <1>1, <3>1, SendPacketSends, SendPacketFacts DEF Sent, Steady
  <2> HIDE DEF d
  <2>3. Numbers(r, d, "Req", s.nReq + 1)
    BY ZenonT(60), <1>1, <2>2 DEF Numbers, Typed, PeerState
  <2> HIDE DEF r
  <2>4. Advances(r, s)
    BY <1>1, <2>1, <2>2, <2>3, AppSendAdvances
  <2> QED
    BY <2>1, <2>4
<1>4. CASE ReadChannel(p)
  BY ZenonT(60), <1>1, <1>4, ReadAdvances DEF ReadChannel
<1> QED
  BY <1>2, <1>3, <1>4

-----------------------------------------------------------------------------
(* The two Runners and the streams between them.                           *)

LEMMA TwoPeers ==
  ASSUME NEW p \in Peers
  PROVE  /\ Other(p) \in Peers /\ Other(p) # p /\ Other(Other(p)) = p
         /\ \A q \in Peers : q = p \/ q = Other(p)
  BY DEF Peers, Other

LEMMA Streams ==
  ASSUME Inv, NEW p \in Peers
  PROVE  /\ Typed(peer[p]) /\ peer[p].out \in Seq(Packet)
         /\ net[p] \in Seq(Packet) /\ Stream(p) \in Seq(Packet)
<1>1. Typed(peer[p]) /\ net[p] \in Seq(Packet) /\ net[Other(p)] \in Seq(Packet)
  BY TwoPeers DEF Inv, PeerInv
<1>2. peer[p].out \in Seq(Packet)
  BY <1>1, FieldTypes
<1> QED
  BY <1>1, <1>2, StreamMoves DEF Stream

\* What an action that replaces the Runner of p has to show
LEMMA QuietPut ==
  ASSUME QuietInv, Inv', NEW p \in Peers, NEW r, Set(p, r),
         OnlyReplies(r), Early(r),
         Lawful(net'[Other(p)] \o r.out, r),
         Lawful(net'[p] \o peer[Other(p)].out, peer[Other(p)])
  PROVE  QuietInv'
<1> DEFINE o == Other(p)
<1>1. o \in Peers /\ o # p /\ Other(o) = p /\ \A q \in Peers : q = p \/ q = o
  BY TwoPeers
<1>2. peer'[p] = r /\ peer'[o] = peer[o]
  BY <1>1 DEF Set, QuietInv, Inv
<1>3. /\ OnlyReplies(peer'[p]) /\ Early(peer'[p])
      /\ Lawful(net'[Other(p)] \o peer'[p].out, peer'[p])
  BY <1>2
<1>4. /\ OnlyReplies(peer'[o]) /\ Early(peer'[o])
      /\ Lawful(net'[Other(o)] \o peer'[o].out, peer'[o])
  BY <1>1, <1>2 DEF QuietInv
<1> HIDE DEF o
<1>5. \A q \in Peers : /\ OnlyReplies(peer'[q]) /\ Early(peer'[q])
                       /\ Lawful(net'[Other(q)] \o peer'[q].out, peer'[q])
  BY ZenonT(60), <1>1, <1>3, <1>4
<1> QED
  BY ZenonT(60), <1>5
  DEF QuietInv, Stream, OnlyReplies, Early, Lawful, Quiet, Open

LEMMA OrderTurned ==
  ASSUME NEW s, NEW o, NEW a, NEW b, OrderOf(s, o, a, b),
         Counting(o.got), Counting(o.rep)
  PROVE  OrderOf(o, s, b, a)
  BY DEF OrderOf

LEMMA OrderPut ==
  ASSUME OrderInv, QuietInv', NEW p \in Peers, NEW r, Set(p, r), Settled(r),
         OrderOf(r, peer[Other(p)], net'[Other(p)] \o r.out,
                 net'[p] \o peer[Other(p)].out)
  PROVE  OrderInv'
<1> DEFINE o == Other(p)
           a == net'[o] \o r.out
           b == net'[p] \o peer[o].out
<1>1. o \in Peers /\ o # p /\ Other(o) = p /\ \A q \in Peers : q = p \/ q = o
  BY TwoPeers
<1>2. peer'[p] = r /\ peer'[o] = peer[o]
  BY <1>1 DEF Set, OrderInv, QuietInv, Inv
<1>3. a = Stream(p)' /\ b = Stream(o)'
  BY <1>1, <1>2 DEF Stream
<1>4. OrderOf(r, peer[o], a, b)
  OBVIOUS
<1>5. Settled(peer[o]) /\ Counting(peer[o].got) /\ Counting(peer[o].rep)
  BY Zenon, <1>1 DEF OrderInv, OrderOf
<1> HIDE DEF a, b, o
<1>6. OrderOf(peer[o], r, b, a)
  BY Zenon, <1>4, <1>5, OrderTurned
<1>7. /\ Settled(peer'[p])
      /\ OrderOf(peer'[p], peer'[Other(p)], Stream(p)', Stream(Other(p))')
  BY Zenon, <1>2, <1>3, <1>4 DEF o
<1>8. /\ Settled(peer'[o])
      /\ OrderOf(peer'[o], peer'[Other(o)], Stream(o)', Stream(Other(o))')
  BY <1>1, <1>2, <1>3, <1>5, <1>6
<1>9. \A q \in Peers :
        /\ Settled(peer'[q])
        /\ OrderOf(peer'[q], peer'[Other(q)], Stream(q)', Stream(Other(q))')
  BY ZenonT(60), <1>1, <1>7, <1>8
<1> QED
  BY <1>9 DEF OrderInv

LEMMA AdvanceQuiet ==
  ASSUME QuietInv, Inv', NEW p \in Peers, NEW r, Set(p, r), UNCHANGED net,
         Advances(r, peer[p])
  PROVE  QuietInv'
<1> DEFINE o == Other(p)
<1>1. o \in Peers /\ Other(o) = p /\ net[o] \in Seq(Packet)
  BY TwoPeers DEF QuietInv, Inv
<1>2. /\ Lawful(net[o] \o peer[p].out, peer[p])
      /\ Lawful(net[p] \o peer[o].out, peer[o])
  BY <1>1 DEF QuietInv, Stream
<1>3. Lawful(net[o] \o r.out, r)
  BY ZenonT(60), <1>1, <1>2 DEF Advances, KeepsLaw
<1> QED
  BY <1>2, <1>3, QuietPut DEF Advances

LEMMA AdvanceOrder ==
  ASSUME OrderInv, QuietInv', NEW p \in Peers, NEW r, Set(p, r), UNCHANGED net,
         Advances(r, peer[p])
  PROVE  OrderInv'
<1> DEFINE o == Other(p)
           b == net[p] \o peer[o].out
<1>1. /\ o \in Peers /\ Other(o) = p /\ net[o] \in Seq(Packet)
      /\ Typed(peer[o]) /\ b \in Seq(Packet)
  BY Zenon, TwoPeers, Streams DEF OrderInv, QuietInv, Stream, Inv
<1>2. Settled(peer[p]) /\ OrderOf(peer[p], peer[o], net[o] \o peer[p].out, b)
  BY <1>1 DEF OrderInv, Stream
<1> HIDE DEF b
<1>3. Settled(r) /\ OrderOf(r, peer[o], net[o] \o r.out, b)
  BY ZenonT(60), <1>1, <1>2 DEF Advances, KeepsOrder
<1> QED
  BY <1>3, OrderPut DEF b

\* OrderOf does not look into the output buffer
LEMMA OrderAlike ==
  ASSUME NEW s, NEW r, r.got = s.got, r.rep = s.rep, r.nData = s.nData,
         r.nReq = s.nReq, r.deferred = s.deferred, r.rx = s.rx,
         r.rxs = s.rxs, r.err = s.err,
         NEW o, NEW a, NEW b, OrderOf(s, o, a, b)
  PROVE  OrderOf(r, o, a, b)
<1>1. /\ HasData(r) <=> HasData(s)
      /\ Holds(r, "Reply") <=> Holds(s, "Reply")
      /\ Holds(r, "Req") <=> Holds(s, "Req")
  BY DEF HasData, Holds
<1>2. /\ DataIn(r) = DataIn(s) /\ RepliesIn(r) = RepliesIn(s)
      /\ \A mid : ReqsIn(r, mid) = ReqsIn(s, mid)
  BY Zenon, <1>1 DEF DataIn, RepliesIn, ReqsIn
<1>3. DataOK(r, o, a) /\ DataOK(o, r, b)
  BY <1>1, <1>2 DEF OrderOf, DataOK
<1>4. ReplyOK(r, o, a, b)
  BY ZenonT(60), <1>1, <1>2 DEF OrderOf, ReplyOK
<1>5. ReplyOK(o, r, b, a)
  BY ZenonT(60), <1>1, <1>2 DEF OrderOf, ReplyOK
<1> QED
  BY <1>3, <1>4, <1>5 DEF OrderOf

\* Bytes move from the output buffer to the other side: the stream is the same
LEMMA OutputKeeps ==
  ASSUME QuietInv, Inv', NEW p \in Peers, Output(p)
  PROVE  QuietInv' /\ (OrderInv => OrderInv')
<1> DEFINE o == Other(p)
           s == peer[p]
           u == IF Len(s.out) = 1 THEN 0 ELSE s.used
           r == [s EXCEPT !.out = Tail(s.out), !.used = u]
<1>1. /\ o \in Peers /\ o # p /\ Other(o) = p
      /\ Typed(s) /\ s.out \in Seq(Packet) /\ net[o] \in Seq(Packet)
  BY TwoPeers, Streams DEF QuietInv
<1>2. /\ Set(p, r) /\ s.out # <<>>
      /\ net' = [net EXCEPT ![o] = Append(@, Head(s.out))]
  BY DEF Output, ConsumeOutput
<1>3. net'[p] = net[p] /\ net'[o] = Append(net[o], Head(s.out))
  BY <1>1, <1>2 DEF QuietInv, Inv
<1>4. net'[o] \o Tail(s.out) = net[o] \o s.out
  <2>1. s.out # <<>>
    BY <1>2
  <2>2. Append(net[o], Head(s.out)) \o Tail(s.out) = net[o] \o s.out
    BY ZenonT(60), <1>1, <2>1, StreamMoves
  <2> QED
    BY ZenonT(60), <1>3, <2>2
<1> HIDE DEF u
<1>5. /\ r.out = Tail(s.out) /\ r.deferred = s.deferred /\ r.rx = s.rx
      /\ r.got = s.got /\ r.rep = s.rep
      /\ r.nData = s.nData /\ r.nReq = s.nReq
      /\ r.conn = s.conn /\ r.err = s.err /\ r.sendingKex = s.sendingKex
      /\ r.ev = s.ev /\ r.kex = s.kex
      /\ r.rxs = s.rxs /\ r.extra = s.extra /\ r.idled = s.idled
  BY ZenonT(60), <1>1 DEF Typed, PeerState
<1> HIDE DEF r
<1>6. QuietInv'
  <2>1. /\ OnlyReplies(s) /\ Early(s) /\ Lawful(net[o] \o s.out, s)
        /\ Lawful(net[p] \o peer[o].out, peer[o])
    BY <1>1 DEF QuietInv, Stream
  <2>2. OnlyReplies(r) /\ Early(r)
    BY <1>5, <2>1 DEF OnlyReplies, Early
  <2>3. Lawful(net'[o] \o r.out, r)
    BY ZenonT(60), <1>4, <1>5, <2>1 DEF Lawful
  <2> QED
    BY Zenon, <1>2, <1>3, <2>1, <2>2, <2>3, QuietPut
<1>7. ASSUME OrderInv PROVE OrderInv'
  <2>1. /\ Settled(s)
        /\ OrderOf(s, peer[o], net[o] \o s.out, net[p] \o peer[o].out)
    BY Zenon, <1>1, <1>7 DEF OrderInv, Stream
  <2>2. Settled(r)
    BY <1>5, <2>1 DEF Settled, Mid
  <2>3. OrderOf(r, peer[o], net'[o] \o r.out, net'[p] \o peer[o].out)
    BY ZenonT(60), <1>3, <1>4, <1>5, <2>1, OrderAlike
  <2> QED
    BY Zenon, <1>2, <1>6, <1>7, <2>2, <2>3, OrderPut
<1> QED
  BY Zenon, <1>6, <1>7

\* A packet is taken in by an idle Runner
LEMMA TakenOrder ==
  ASSUME NEW s, Typed(s), s.err = "ok", s.rxs = "Idle",
         NEW o, Typed(o), NEW a \in Seq(Packet), NEW b \in Seq(Packet),
         b # <<>>, OrderOf(s, o, a, b),
         NEW r, r.got = s.got, r.rep = s.rep, r.nData = s.nData,
         r.nReq = s.nReq, r.deferred = s.deferred,
         r.err = "ok" =>
           \/ r.rxs = "InPayload" /\ r.rx = Head(b)
           \/ r.rxs = "Idle" /\ Head(b).t = "Ident"
  PROVE  OrderOf(r, o, a, Tail(b))
<1> DEFINE c == Tail(b)
           p == Head(b)
<1>1. c \in Seq(Packet) /\ p \in Packet
  BY TailAt
<1>2. \A T, lo, hi : (lo \in Nat /\ hi \in Nat /\ Numbered(b, T, lo, hi)) =>
        /\ p.t # T => Numbered(c, T, lo, hi)
        /\ p.t = T => p.v[1] = lo + 1 /\ Numbered(c, T, lo + 1, hi)
  BY ZenonT(60), NumberedTail
<1> HIDE DEF c, p
<1>3. /\ ~HasData(s) /\ ~Holds(s, "Reply") /\ ~Holds(s, "Req")
      /\ DataIn(s) = Len(s.got) /\ RepliesIn(s) = Len(s.rep)
      /\ \A mid : ReqsIn(s, mid) = mid + Len(s.deferred)
  BY DEF HasData, Holds, DataIn, RepliesIn, ReqsIn
<1>4. /\ Len(s.got) \in Nat /\ Len(s.rep) \in Nat /\ Len(s.deferred) \in Nat
      /\ o.nReq \in Nat
  BY FieldTypes
<1>5. r.err = "ok" =>
        /\ HasData(r) <=> p.t = "Data"
        /\ Holds(r, "Reply") <=> p.t = "Reply"
        /\ Holds(r, "Req") <=> p.t = "Req"
        /\ p.t \in CatSess => r.rx = p
  BY DEF HasData, Holds, CatSess, p
<1>6. Counting(r.got) /\ Counting(r.rep)
  BY DEF OrderOf
<1>7. DataOK(r, o, a)
  BY DEF OrderOf, DataOK
<1>8. DataOK(o, r, c)
  <2> SUFFICES ASSUME r.err = "ok" PROVE DataOK(o, r, c)
    BY DEF DataOK
  <2>1. PICK hi \in Nat : /\ Numbered(b, "Data", Len(s.got), hi)
                          /\ o.err = "ok" => hi = o.nData
    BY <1>3 DEF OrderOf, DataOK
  <2>2. HasData(r) => r.rx.v[1] = Len(r.got) + 1
    BY Zenon, <1>2, <1>4, <1>5, <2>1 DEF CatSess
  <2>3. Numbered(c, "Data", DataIn(r), hi)
    BY Zenon, <1>2, <1>4, <1>5, <2>1 DEF DataIn
  <2> QED
    BY <2>1, <2>2, <2>3 DEF DataOK
<1>9. ReplyOK(r, o, a, c)
  <2> SUFFICES ASSUME r.err = "ok" PROVE ReplyOK(r, o, a, c)
    BY DEF ReplyOK
  <2>1. PICK mid \in Nat :
          /\ Numbered(b, "Reply", Len(s.rep), mid)
          /\ o.err = "ok" =>
               /\ \A i \in 1..Len(o.deferred) : o.deferred[i][2][1] = mid + i
               /\ Holds(o, "Req") => o.rx.v[1] = mid + Len(o.deferred) + 1
               /\ Numbered(a, "Req", ReqsIn(o, mid), s.nReq)
    BY ZenonT(60), <1>3 DEF OrderOf, ReplyOK
  <2>2. Holds(r, "Reply") => r.rx.v[1] = Len(r.rep) + 1
    BY Zenon, <1>2, <1>4, <1>5, <2>1 DEF CatSess
  <2>3. Numbered(c, "Reply", RepliesIn(r), mid)
    BY Zenon, <1>2, <1>4, <1>5, <2>1 DEF RepliesIn
  <2> QED
    BY Zenon, <2>1, <2>2, <2>3 DEF ReplyOK
<1>10. ReplyOK(o, r, c, a)
  <2> SUFFICES ASSUME o.err = "ok" PROVE ReplyOK(o, r, c, a)
    BY DEF ReplyOK
  <2>1. PICK mid \in Nat :
          /\ Numbered(a, "Reply", RepliesIn(o), mid)
          /\ \A i \in 1..Len(s.deferred) : s.deferred[i][2][1] = mid + i
          /\ Numbered(b, "Req", mid + Len(s.deferred), o.nReq)
    BY Zenon, <1>3 DEF OrderOf, ReplyOK
  <2>2. Holds(o, "Reply") => o.rx.v[1] = Len(o.rep) + 1
    BY DEF OrderOf, ReplyOK
  <2>3. mid + Len(s.deferred) \in Nat
    BY <1>4, <2>1
  <2>4. r.err = "ok" /\ Holds(r, "Req")
          => r.rx.v[1] = mid + Len(r.deferred) + 1
    BY Zenon, <1>2, <1>4, <1>5, <2>1, <2>3 DEF CatSess
  <2>5. r.err = "ok" => Numbered(c, "Req", ReqsIn(r, mid), o.nReq)
    BY <1>2, <1>4, <1>5, <2>1, <2>3 DEF ReqsIn
  <2> QED
    BY Zenon, <2>1, <2>2, <2>4, <2>5 DEF ReplyOK
<1> QED
  BY Zenon, <1>6, <1>7, <1>8, <1>9, <1>10 DEF OrderOf, c

LEMMA InputKeeps ==
  ASSUME QuietInv, Inv', NEW p \in Peers, Input(p)
  PROVE  QuietInv' /\ (Prompt /\ OrderInv => OrderInv')
<1> DEFINE o == Other(p)
           s == peer[p]
           b == net[p] \o peer[o].out
           i == RunnerInput(s, Head(net[p]))
           r == [i EXCEPT !.idled = FALSE]
<1>1. /\ o \in Peers /\ o # p /\ Other(o) = p
      /\ PeerInv(s) /\ Typed(s) /\ Typed(peer[o])
      /\ net[o] \in Seq(Packet) /\ net[p] \in Seq(Packet)
      /\ peer[o].out \in Seq(Packet)
      /\ net[o] \o s.out \in Seq(Packet) /\ b \in Seq(Packet)
  BY TwoPeers, Streams DEF QuietInv, Inv, Stream
<1>2. /\ Set(p, r) /\ net[p] # <<>> /\ net' = [net EXCEPT ![p] = Tail(@)]
      /\ s.err = "ok" /\ s.conn # "SendIdent" /\ s.rxs = "Idle"
      /\ Prompt => s.idled
  BY DEF Input, Free, IsInputReady
<1>3. net'[o] = net[o] /\ net'[p] = Tail(net[p])
  BY <1>1, <1>2 DEF QuietInv, Inv
<1>4. net[p] # <<>>
  BY <1>2
<1>5. /\ b # <<>> /\ Head(b) = Head(net[p])
      /\ Tail(net[p]) \o peer[o].out = Tail(b)
  BY ZenonT(60), <1>1, <1>4, StreamMoves
<1>6. net'[p] \o peer[o].out = Tail(b)
  BY ZenonT(60), <1>3, <1>5
<1>7. Head(net[p]) \in Packet
  BY <1>1, <1>4
<1>8. /\ Typed(i)
      /\ i.out = s.out /\ i.deferred = s.deferred
      /\ i.got = s.got /\ i.rep = s.rep
      /\ i.nData = s.nData /\ i.nReq = s.nReq
      /\ i.conn = s.conn /\ i.sendingKex = s.sendingKex
      /\ i.ev = s.ev /\ i.extra = s.extra
      /\ i.err = "ok" =>
           \/ i.rxs = "InPayload" /\ i.rx = Head(net[p])
           \/ i.rxs = "Idle" /\ Head(net[p]).t = "Ident"
  <2> DEFINE pkt == Head(net[p])
             x == s.seqD + 1
             y == s.blkIn + 1
             n1 == [s EXCEPT !.ver = TRUE]
             n2 == Fail(s, "BadDecrypt")
             n3 == [s EXCEPT !.rx = pkt, !.rxs = "InPayload",
                             !.seqD = x, !.blkIn = y]
  <2>1. \/ i = n1 /\ pkt.t = "Ident"
        \/ i = n2
        \/ i = n3
    BY DEF RunnerInput
  <2>2. Typed(i)
    BY <1>1, <1>7, RunnerInputInv DEF PeerInv
  <2> HIDE DEF pkt, x, y, i
  <2>3. CASE i = n1 /\ pkt.t = "Ident"
    BY ZenonT(60), <1>1, <1>2, <2>2, <2>3 DEF Typed, PeerState, pkt
  <2>4. CASE i = n2
    <3>1. i.err = "BadDecrypt"
      BY <1>1, <2>4, FailFacts DEF Errors
    <3> QED
      BY ZenonT(60), <1>1, <2>2, <2>4, <3>1 DEF Fail, Typed, PeerState
  <2>5. CASE i = n3
    BY ZenonT(60), <1>1, <1>7, <2>2, <2>5 DEF Typed, PeerState, pkt
  <2> QED
    BY <2>1, <2>3, <2>4, <2>5
<1> HIDE DEF i
<1>9. /\ r.out = i.out /\ r.deferred = i.deferred /\ r.rx = i.rx
      /\ r.got = i.got /\ r.rep = i.rep
      /\ r.nData = i.nData /\ r.nReq = i.nReq
      /\ r.conn = i.conn /\ r.err = i.err /\ r.sendingKex = i.sendingKex
      /\ r.ev = i.ev /\ r.rxs = i.rxs /\ r.extra = i.extra
      /\ r.idled = FALSE
  BY ZenonT(60), <1>8 DEF Typed, PeerState
<1>10. Set(p, r)
  BY <1>2
<1> HIDE DEF r
<1>11. QuietInv'
  <2>1. /\ OnlyReplies(s) /\ Lawful(net[o] \o s.out, s)
        /\ Lawful(b, peer[o])
    BY <1>1 DEF QuietInv, Stream
  <2>2. OnlyReplies(r) /\ Early(r)
    <3>1. r.conn # "SendIdent" /\ r.deferred = s.deferred
      BY Zenon, <1>2, <1>8, <1>9
    <3>2. OnlyReplies(r)
      BY <1>2, <2>1, <3>1 DEF OnlyReplies
    <3> QED
      BY <3>1, <3>2 DEF Early
  <2>3. Lawful(net'[o] \o r.out, r)
    <3>1. net'[o] \o r.out = net[o] \o s.out
      BY ZenonT(60), <1>3, <1>8, <1>9
    <3>2. Lawful(net[o] \o s.out, r)
      BY Zenon, <1>2, <1>8, <1>9, <2>1 DEF Lawful
    <3> QED
      BY ZenonT(60), <3>1, <3>2
  <2>4. Lawful(Tail(b), peer[o])
    <3> HIDE DEF b
    <3> QED
      BY <1>1, <1>5, <2>1, TailQuiet DEF Lawful
  <2>5. Lawful(net'[p] \o peer[o].out, peer[o])
    BY ZenonT(60), <1>6, <2>4
  <2> QED
    BY <1>10, <2>2, <2>3, <2>5, QuietPut
<1>12. ASSUME Prompt, OrderInv PROVE OrderInv'
  <2>1. Settled(s) /\ OrderOf(s, peer[o], net[o] \o s.out, b)
    BY Zenon, <1>1, <1>12 DEF OrderInv, Stream
  <2>2. Settled(r)
    BY <1>2, <1>8, <1>9, <1>12, <2>1 DEF Settled, Mid
  <2>3. OrderOf(r, peer[o], net[o] \o s.out, Tail(b))
    <3>1. r.err = "ok" =>
            \/ r.rxs = "InPayload" /\ r.rx = Head(b)
            \/ r.rxs = "Idle" /\ Head(b).t = "Ident"
      BY ZenonT(60), <1>5, <1>8, <1>9
    <3> DEFINE a == net[o] \o s.out
    <3>2. a \in Seq(Packet) /\ OrderOf(s, peer[o], a, b)
      BY <1>1, <2>1
    <3> HIDE DEF a, b
    <3>3. OrderOf(r, peer[o], a, Tail(b))
      BY ZenonT(60), <1>1, <1>2, <1>5, <1>8, <1>9, <3>1, <3>2, TakenOrder
    <3> QED
      BY <3>3 DEF a
  <2>4. net'[o] \o r.out = net[o] \o s.out
    BY ZenonT(60), <1>3, <1>8, <1>9
  <2>5. OrderOf(r, peer[o], net'[o] \o r.out, net'[p] \o peer[o].out)
    BY ZenonT(60), <1>6, <2>3, <2>4
  <2> QED
    BY <1>10, <1>11, <1>12, <2>2, <2>5, OrderPut
<1> QED
  BY <1>11, <1>12

LEMMA NothingSent ==
  ASSUME NEW q, q = <<>>
  PROVE  /\ Quiet(q) /\ ~Open(q) /\ Counting(q)
         /\ \A T : Numbered(q, T, 0, 0)
<1>1. Len(q) = 0
  OBVIOUS
<1>2. 1..Len(q) = {} /\ (0+1)..0 = {} /\ 0 <= 0
  BY <1>1
<1> QED
  BY <1>2 DEF Quiet, Open, Counting, Numbered

LEMMA NewRunnerFields ==
  ASSUME NEW c, NEW s, s = NewRunner(c)
  PROVE  /\ s.out = <<>> /\ s.deferred = <<>> /\ s.got = <<>> /\ s.rep = <<>>
         /\ s.nData = 0 /\ s.nReq = 0 /\ s.rxs = "Idle" /\ s.ev = "None"
         /\ s.extra = "None" /\ s.idled = FALSE /\ s.kex = "Idle"
         /\ s.err = "ok"
  BY DEF NewRunner

LEMMA NewRunnersOrder ==
  ASSUME NEW c, NEW d, NEW s, s = NewRunner(c), NEW o, o = NewRunner(d),
         NEW q, q = <<>>
  PROVE  DataOK(s, o, q) /\ ReplyOK(s, o, q, q)
<1>1. /\ s.deferred = <<>> /\ s.rep = <<>> /\ s.rxs = "Idle"
      /\ s.nData = 0 /\ s.nReq = 0
      /\ o.deferred = <<>> /\ o.got = <<>> /\ o.rxs = "Idle"
  BY ZenonT(60), NewRunnerFields
<1>2. /\ ~HasData(o) /\ ~Holds(o, "Req") /\ ~Holds(s, "Reply")
  BY <1>1 DEF HasData, Holds
<1>3. DataIn(o) = 0 /\ RepliesIn(s) = 0 /\ ReqsIn(o, 0) = 0
      /\ 1..Len(o.deferred) = {}
  BY <1>1, <1>2 DEF DataIn, RepliesIn, ReqsIn
<1>4. \A T : Numbered(q, T, 0, 0)
  BY NothingSent
<1>5. DataOK(s, o, q)
  BY Zenon, <1>1, <1>2, <1>3, <1>4 DEF DataOK
<1>6. ReplyOK(s, o, q, q)
  BY <1>1, <1>2, <1>3, <1>4 DEF ReplyOK
<1> QED
  BY <1>5, <1>6

LEMMA InitOrder == Init => OrderInv
<1> SUFFICES ASSUME Init PROVE OrderInv
  OBVIOUS
<1>1. Inv
  BY InitInv
<1>2. ASSUME NEW p \in Peers
      PROVE  /\ OnlyReplies(peer[p]) /\ Early(peer[p])
             /\ Lawful(Stream(p), peer[p])
             /\ Settled(peer[p])
             /\ OrderOf(peer[p], peer[Other(p)], Stream(p), Stream(Other(p)))
  <2> DEFINE s == peer[p]
             o == peer[Other(p)]
             c == p = "client"
             d == Other(p) = "client"
  <2>1. Other(p) \in Peers /\ Other(Other(p)) = p
    BY TwoPeers
  <2>2. s = NewRunner(c) /\ o = NewRunner(d) /\ \A q \in Peers : net[q] = <<>>
    BY ZenonT(60), <2>1 DEF Init
  <2> HIDE DEF s, o, c, d
  <2>3. /\ s.out = <<>> /\ s.deferred = <<>> /\ s.got = <<>> /\ s.rep = <<>>
        /\ s.rxs = "Idle" /\ s.ev = "None" /\ s.extra = "None"
        /\ s.kex = "Idle" /\ s.idled = FALSE /\ o.out = <<>>
    BY ZenonT(60), <2>2, NewRunnerFields
  <2>4. Stream(p) = <<>> /\ Stream(Other(p)) = <<>>
    BY <2>1, <2>2, <2>3 DEF Stream, s, o
  <2>5. OnlyReplies(s) /\ Early(s) /\ Settled(s)
    BY <2>3 DEF OnlyReplies, Early, Settled, Mid
  <2>6. Lawful(Stream(p), s)
    BY <2>4, NothingSent DEF Lawful
  <2>7. /\ DataOK(s, o, <<>>) /\ ReplyOK(s, o, <<>>, <<>>)
        /\ DataOK(o, s, <<>>) /\ ReplyOK(o, s, <<>>, <<>>)
    BY <2>2, NewRunnersOrder
  <2>8. Counting(s.got) /\ Counting(s.rep)
    BY <2>3, NothingSent
  <2>9. OrderOf(s, o, Stream(p), Stream(Other(p)))
    BY <2>4, <2>7, <2>8 DEF OrderOf
  <2> QED
    BY <2>5, <2>6, <2>9 DEF s, o
<1> QED
  BY <1>1, <1>2 DEF OrderInv, QuietInv

LEMMA UnchangedOrder ==
  ASSUME UNCHANGED vars
  PROVE  (QuietInv => QuietInv') /\ (OrderInv => OrderInv')
<1>1. peer' = peer /\ net' = net /\ \A p : Stream(p)' = Stream(p)
  BY DEF vars, Stream
<1>2. Inv => Inv'
  BY <1>1 DEF Inv
<1>3. QuietInv => QuietInv'
  BY <1>1, <1>2 DEF QuietInv
<1> QED
  BY <1>1, <1>3 DEF OrderInv

\* One step keeps the streams quiet, and in order when progress() idles
\* before the next input
LEMMA StepKeeps ==
  ASSUME QuietInv, [Next]_vars
  PROVE  QuietInv' /\ (Prompt /\ OrderInv => OrderInv')
<1>1. CASE UNCHANGED vars
  BY <1>1, UnchangedOrder
<1>2. ASSUME NEW p \in Peers, Step(p)
      PROVE  QuietInv' /\ (Prompt /\ OrderInv => OrderInv')
  <2>1. Inv'
    BY Zenon, <1>2, ProgressInv, InputInv, OutputInv, ResumeInv, ApplicationInv
    DEF QuietInv, Step, Serve
  <2>2. CASE \E r : Set(p, r) /\ UNCHANGED net /\ Advances(r, peer[p])
    BY <2>1, <2>2, AdvanceQuiet, AdvanceOrder
  <2>3. CASE Progress(p)
    BY <2>2, <2>3, ProgressAdvances DEF Progress
  <2>4. CASE Resume(p)
    BY ZenonT(60), <2>2, <2>4, ResumeAdvances DEF Resume
  <2>5. CASE WriteChannel(p) \/ ReadChannel(p) \/ SendRequest(p)
    BY ZenonT(60), <2>2, <2>5, ApplicationAdvances
    DEF WriteChannel, ReadChannel, SendRequest
  <2>6. CASE Input(p)
    BY <2>1, <2>6, InputKeeps
  <2>7. CASE Output(p)
    BY <2>1, <2>7, OutputKeeps
  <2> QED
    BY Zenon, <1>2, <2>3, <2>4, <2>5, <2>6, <2>7 DEF Step, Serve
<1> QED
  BY <1>1, <1>2 DEF Next

\* Between a KexInit and its NewKeys a Runner puts nothing but key exchange
\* packets on the stream, whatever the capacities and re-key limits, and
\* whether or not the application lets progress() idle before it gives input:
\* SendPacket refuses or defers everything else while sending_kex is set, and
\* the flag is set whenever the stream has an open KexInit.
THEOREM NothingBetween == Spec => []QuietDuringKex
<1>1. Init => QuietInv
  BY InitOrder DEF OrderInv
<1>2. QuietInv /\ [Next]_vars => QuietInv'
  BY StepKeeps
<1>3. QuietInv => QuietDuringKex
  BY DEF QuietInv, QuietDuringKex, Lawful, Quiet
<1> QED
  BY <1>1, <1>2, <1>3, PTL DEF Spec

\* Channel data and answers reach the application once each and in the order
\* they were sent, through any deferral and re-keying, for every capacity and
\* re-key limit, provided the application runs progress() to idle before it
\* gives the Runner more input.
THEOREM InOrderIfPrompt ==
  ASSUME Prompt
  PROVE  Spec => []InOrder
<1>1. Init => OrderInv
  BY Zenon, InitOrder
<1>2. OrderInv /\ [Next]_vars => OrderInv'
  BY StepKeeps DEF OrderInv
<1>3. OrderInv => InOrder
  BY DEF OrderInv, OrderOf, InOrder
<1> QED
  BY <1>1, <1>2, <1>3, PTL DEF Spec
=============================================================================
