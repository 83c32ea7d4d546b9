----------------------------- MODULE AuthProofs -----------------------------
(***************************************************************************)
(* Proofs about module Auth, for any keys, agents, user names and builds,  *)
(* any number of attempts, and another implementation at either end: the   *)
(* inductive invariant, the steps of the client, those of the server, and  *)
(* the theorems.                                                           *)
(***************************************************************************)
EXTENDS Auth, TLAPS

\* Messages in a queue
All(q, S)  == \A i \in 1..Len(q) : q[i] \in S
None(q, S) == \A i \in 1..Len(q) : q[i] \notin S
One(q, S)  == \A i, j \in 1..Len(q) : q[i] \in S /\ q[j] \in S => i = j

Requests  == {p \in Message : IsRequest(p)}
Answers   == {p \in Message : IsAnswer(p)}
Successes == {p \in Message : p.t = "UserauthSuccess"}

\* A client, of this library or another, signs only requests for a key, and
\* names a user in every request.
Proper == {p \in Message : p.m # "publickey" => p.s = "absent"}
Named  == {p \in Message : IsRequest(p) => p.u \in Users}

\* A client is asked for an agent's signature with the key at hand.
CliOK(c) ==
  /\ c \in Client /\ (c.key # NoKey <=> c.state = "RequestKey")
  /\ c.ev = "AgentSign" => c.state = "RequestKey"
  /\ All(c.out, Proper)

\* The methods are changed only when there is an event, and the application
\* has been asked first then.
SrvOK(s) ==
  /\ s \in Server /\ (s.authed <=> s.conn = "Authed")
  /\ s.rx = NoPayload \/ s.rx \in Proper \cap Named
  /\ ~s.triedFirst => s.password /\ s.pubkey
  /\ s.ev \in ServResumable =>
       s.triedFirst /\ s.rx \in Requests /\ s.rx.s # "invalid"
  /\ s.ev = "PubkeyQuery" => s.rx.m = "publickey" /\ s.rx.s = "absent"

Histories == [users: SUBSET Users, firsts: 0..1,
              allowed: SUBSET ServResumable, badSig: {FALSE}]

\* Every event the application was shown was about the server's one user.
HistInv(h, s) ==
  /\ h \in Histories
  /\ ~s.triedFirst => h.firsts = 0
  /\ \A u \in h.users : u = s.user
  /\ s.authed =>
       \E e \in {"FirstAuth", "PasswordAuth", "PubkeySigned"} :
         e \in h.allowed

\* The key k is the one the client asks about
Asked(c, k) ==
  c.authType = "PubKey" /\ c.state = "RequestKey" /\ c.key = k

\* What a client and a server of this library send, the client being in c
FromClient(c) ==
  {p \in Proper :
     \/ p.t = "ServiceRequest" /\ p.m = "userauth"
     \/ /\ IsRequest(p) /\ c.user # NoUser /\ p.u = c.user
        /\ p.m = "publickey" => p.k \in Keys
        /\ p.m = "publickey" /\ p.s = "absent" => Asked(c, p.k)}

FromServer(c) ==
  {p \in Message :
     /\ p.t \in {"ExtInfo", "ServiceAccept", "UserauthFailure",
                 "UserauthSuccess", "Userauth60"}
     /\ IsAnswer(p) => c.user # NoUser
     /\ p.t = "Userauth60" => p.k \in Keys /\ Asked(c, p.k)}

\* The name is asked for once, before the first request
StartInv(c, s) ==
  /\ c.user \notin LongUsers /\ s.user \in {NoUser, c.user}
  /\ c.state = "Unstarted" => c.user = NoUser
  /\ c.ev = "Username" => c.user = NoUser /\ c.state # "Unstarted"
  /\ c.user = NoUser => c.ev \in {"None", "Username"} /\ c.extra = "None"

\* One request at a time, in one of six places
TokenInv(c, s) ==
  /\ One(c.out, Requests) /\ One(s.out, Answers)
  /\ \/ None(c.out, Requests)
     \/ /\ s.rx \notin Requests /\ None(s.out, Answers)
        /\ c.rx \notin Answers /\ c.ev \notin CliResumable /\ c.extra = "None"
  /\ s.rx \in Requests =>
       /\ None(s.out, Answers)
       /\ c.rx \notin Answers /\ c.ev \notin CliResumable /\ c.extra = "None"
  /\ \/ None(s.out, Answers)
     \/ c.rx \notin Answers /\ c.ev \notin CliResumable /\ c.extra = "None"
  /\ c.rx \in Answers => c.extra = "None"
  /\ c.ev \in CliResumable => c.extra = "None"

Linked(c, s) ==
  /\ c.err \notin {"SSHProto", "PacketWrong", "PasswordExpired"}
  /\ s.err = "ok"
  /\ All(c.out, FromClient(c)) /\ All(s.out, FromServer(c))
  /\ s.rx = NoPayload \/ s.rx \in FromClient(c)
  /\ c.rx = NoPayload \/ c.rx \in FromServer(c)
  /\ \/ s.authed
     \/ /\ c.conn = "PreAuth" /\ c.rx \notin Successes
        /\ None(s.out, Successes)
  /\ StartInv(c, s) /\ TokenInv(c, s)

Inv ==
  /\ link \in Links /\ sent \in 0..MaxOther
  /\ CliOK(cli) /\ SrvOK(srv) /\ HistInv(hist, srv)
  /\ link # "otherServer" => All(cli.out, Named)
  /\ link = "sunset" => Linked(cli, srv)

-----------------------------------------------------------------------------
(* Queues and messages.                                                    *)

LEMMA TailFacts ==
  ASSUME NEW T, NEW q \in Seq(T), q # <<>>, NEW S
  PROVE  /\ Head(q) \in T /\ Tail(q) \in Seq(T)
         /\ All(q, S) => Head(q) \in S /\ All(Tail(q), S)
         /\ None(q, S) => Head(q) \notin S /\ None(Tail(q), S)
         /\ One(q, S) => One(Tail(q), S)
         /\ One(q, S) /\ Head(q) \in S => None(Tail(q), S)
<1> DEFINE r == Tail(q)
<1>1. Head(q) \in T /\ r \in Seq(T) /\ Len(r) = Len(q) - 1
  OBVIOUS
<1>2. Len(q) \in Nat /\ 1 \in 1..Len(q) /\ Head(q) = q[1]
  OBVIOUS
<1>3. \A i \in 1..Len(r) : r[i] = q[i + 1] /\ i + 1 \in 1..Len(q)
  BY <1>1, <1>2
<1>4. \A i \in 1..Len(r) : i \in Nat /\ i + 1 # 1
  BY <1>1, <1>2
<1>5. \A i, j \in 1..Len(r) : i + 1 = j + 1 => i = j
  BY <1>1, <1>2
<1> HIDE DEF r
<1> QED
  BY <1>1, <1>2, <1>3, <1>4, <1>5 DEF All, None, One, r

LEMMA AppendFacts ==
  ASSUME NEW T, NEW q \in Seq(T), NEW p \in T, NEW S
  PROVE  /\ Append(q, p) \in Seq(T)
         /\ All(q, S) /\ p \in S => All(Append(q, p), S)
         /\ None(q, S) /\ p \notin S => None(Append(q, p), S)
         /\ One(q, S) /\ p \notin S => One(Append(q, p), S)
         /\ None(q, S) => One(Append(q, p), S)
<1> DEFINE r == Append(q, p)
<1>1. /\ r \in Seq(T) /\ Len(r) = Len(q) + 1 /\ Len(q) \in Nat
  OBVIOUS
<1>2. \A i \in 1..Len(r) : \/ i \in 1..Len(q) /\ r[i] = q[i]
                           \/ i = Len(q) + 1 /\ r[i] = p
  BY <1>1
<1> HIDE DEF r
<1> QED
  BY <1>1, <1>2 DEF All, None, One, r

LEMMA Widen ==
  ASSUME NEW q, NEW S, NEW T, All(q, S),
         \A p \in S : (\E i \in 1..Len(q) : q[i] = p) => p \in T
  PROVE  All(q, T)
  BY DEF All

LEMMA NoneIsOne ==
  ASSUME NEW q, NEW S, None(q, S)
  PROVE  One(q, S)
  BY DEF One, None

LEMMA EmptyQueue ==
  ASSUME NEW S
  PROVE  All(<<>>, S) /\ None(<<>>, S) /\ One(<<>>, S)
  BY DEF All, None, One

\* The messages this library makes
LEMMA MsgTyped ==
  ASSUME NEW t \in {"ServiceAccept", "UserauthSuccess", "UserauthBanner"}
  PROVE  Msg(t) \in Message /\ Msg(t).t = t
  BY DEF Msg, Message, Names, Signatures

LEMMA ServiceRequestTyped ==
  ASSUME NEW m \in {"userauth", "connection", "other"},
         NEW p, p = ServiceRequest(m)
  PROVE  p \in Message /\ p.t = "ServiceRequest" /\ p.m = m /\ p.s = "absent"
  BY ZenonT(60) DEF ServiceRequest, Msg, Message, Names, Signatures

LEMMA UserauthRequestTyped ==
  ASSUME NEW u \in Users \cup {NoUser}, NEW k \in Keys \cup {NoKey},
         NEW m \in {"none", "password", "publickey", "other"},
         NEW s \in Signatures, NEW p, p = UserauthRequest(u, m, k, s)
  PROVE  /\ p \in Message /\ p.t = "UserauthRequest" /\ p.u = u /\ p.m = m
         /\ p.k = k /\ p.s = s
  BY ZenonT(60) DEF UserauthRequest, Msg, Message, Names, Signatures

LEMMA UserauthFailureTyped ==
  ASSUME NEW ms \in SUBSET Methods, NEW p, p = UserauthFailure(ms)
  PROVE  p \in Message /\ p.t = "UserauthFailure"
  BY ZenonT(60) DEF UserauthFailure, Msg, Message, Names, Signatures

LEMMA Userauth60Typed ==
  ASSUME NEW k \in Keys \cup {NoKey}, NEW p, p = Userauth60(k)
  PROVE  p \in Message /\ p.t = "Userauth60" /\ p.k = k
  BY ZenonT(60) DEF Userauth60, Msg, Message, Names, Signatures

LEMMA ExtInfoTyped ==
  ASSUME NEW ms \in SUBSET SigAlgs, NEW p, p = ExtInfo(ms)
  PROVE  p \in Message /\ p.t = "ExtInfo"
  BY ZenonT(60) DEF ExtInfo, Msg, Message, Names, Signatures

LEMMA NoPayloadFacts ==
  /\ NoPayload.t = "none" /\ NoPayload \notin Message
  BY DEF NoPayload, Msg, Message

LEMMA MessageTypes ==
  ASSUME NEW p \in Message
  PROVE  /\ p.t \in {"ServiceRequest", "ServiceAccept", "UserauthRequest",
                     "UserauthFailure", "UserauthSuccess", "Userauth60",
                     "UserauthBanner", "ExtInfo"}
         /\ p.u \in Users \cup {NoUser} /\ p.m \in Names
         /\ p.k \in Keys \cup {NoKey} /\ p.s \in Signatures
         /\ p # NoPayload
  BY NoPayloadFacts DEF Message

-----------------------------------------------------------------------------
(* Steps of the client.                                                    *)

LEMMA ClientTypes ==
  ASSUME NEW c \in Client
  PROVE  /\ c.conn \in {"PreAuth", "Authed"}
         /\ c.state \in {"Unstarted", "MethodQuery", "Request", "RequestKey",
                         "Idle"}
         /\ c.user \in Users \cup {NoUser} /\ c.key \in Keys \cup {NoKey}
         /\ c.tryPassword \in BOOLEAN /\ c.tryPubkey \in BOOLEAN
         /\ c.authType \in {"None", "Password", "PubKey"}
         /\ c.rx \in Message \cup {NoPayload}
         /\ c.ev \in CliResumable \cup {"None", "Authenticated", "Banner"}
         /\ c.extra \in {"None", "Pubkey", "Password"}
         /\ c.out \in Seq(Message) /\ c.answers \in 0..MaxAnswers
         /\ c.err \in CliErrors
  BY DEF Client

LEMMA SignedTyped ==
  ASSUME NEW c \in Client, NEW sig \in Signatures
  PROVE  /\ Signed(c, sig) \in Message /\ IsRequest(Signed(c, sig))
         /\ Signed(c, sig).u = c.user /\ Signed(c, sig).k = c.key
         /\ Signed(c, sig).m = "publickey" /\ Signed(c, sig).s = sig
<1>1. c.user \in Users \cup {NoUser} /\ c.key \in Keys \cup {NoKey}
  BY ClientTypes
<1>2. "publickey" \in {"none", "password", "publickey", "other"}
  OBVIOUS
<1> DEFINE p == UserauthRequest(c.user, "publickey", c.key, sig)
<1>3. p = Signed(c, sig)
  BY DEF Signed
<1>4. p = UserauthRequest(c.user, "publickey", c.key, sig)
  OBVIOUS
<1> HIDE DEF p
<1>5. /\ p \in Message /\ p.t = "UserauthRequest" /\ p.u = c.user
      /\ p.m = "publickey" /\ p.k = c.key /\ p.s = sig
  BY <1>1, <1>2, <1>4, UserauthRequestTyped
<1> QED
  BY <1>3, <1>5 DEF IsRequest

LEMMA PasswordTyped ==
  ASSUME NEW c \in Client, NEW p,
         p = UserauthRequest(c.user, "password", NoKey, "absent")
  PROVE  /\ p \in Message /\ p.t = "UserauthRequest" /\ p.u = c.user
         /\ p.m = "password" /\ p.k = NoKey /\ p.s = "absent"
<1>1. c.user \in Users \cup {NoUser}
  BY ClientTypes
<1> QED
  BY ZenonT(60), <1>1 DEF UserauthRequest, Msg, Message, Names, Signatures

LEMMA QueryTyped ==
  ASSUME NEW c \in Client, NEW k \in Keys, NEW p,
         p = UserauthRequest(c.user, "publickey", k, "absent")
  PROVE  /\ p \in Message /\ p.t = "UserauthRequest" /\ p.u = c.user
         /\ p.m = "publickey" /\ p.k = k /\ p.s = "absent"
<1>1. c.user \in Users \cup {NoUser}
  BY ClientTypes
<1> QED
  BY ZenonT(60), <1>1 DEF UserauthRequest, Msg, Message, Names, Signatures

\* d has the request of c, and no more to handle
Same(d, c) ==
  /\ d.user = c.user /\ d.authType = c.authType /\ d.state = c.state
  /\ d.key = c.key /\ d.out = c.out /\ d.conn = c.conn
  /\ d.extra = c.extra /\ d.rx \in {c.rx, NoPayload}
  /\ \/ d.ev \in {c.ev, "None"}
     \/ d.ev \notin CliResumable /\ c.user # NoUser

LEMMA SameLinked ==
  ASSUME NEW c, NEW s, NEW d, Linked(c, s), Same(d, c),
         d.err \notin {"SSHProto", "PacketWrong", "PasswordExpired"}
  PROVE  Linked(d, s)
<1>1. FromClient(d) = FromClient(c) /\ FromServer(d) = FromServer(c)
  BY DEF Same, FromClient, FromServer, Asked
<1>2. /\ NoPayload \notin Answers /\ NoPayload \notin Successes
      /\ "None" \notin CliResumable
  BY NoPayloadFacts DEF Answers, Successes, CliResumable
<1>3. StartInv(d, s)
  BY <1>2 DEF Linked, Same, StartInv, CliResumable
<1>4. TokenInv(d, s)
  BY <1>2 DEF Linked, Same, TokenInv
<1> QED
  BY <1>1, <1>2, <1>3, <1>4 DEF Linked, Same

\* The request is with the client: nothing that depends on its state is on
\* its way or at the server.
Held(c, s) ==
  None(c.out, Requests) /\ s.rx \notin Requests /\ None(s.out, Answers)

LEMMA HeldFacts ==
  ASSUME NEW c, NEW s, Linked(c, s),
         \/ c.rx \in Answers \/ c.ev \in CliResumable \/ c.extra # "None"
         \/ c.user = NoUser
  PROVE  Held(c, s)
<1>1. CASE c.user # NoUser
  BY <1>1 DEF Linked, TokenInv, Held
<1>2. CASE c.user = NoUser
  <2>1. \A p \in FromClient(c) : p \notin Requests
    BY <1>2 DEF FromClient, Requests, IsRequest
  <2>2. \A p \in FromServer(c) : p \notin Answers
    BY <1>2 DEF FromServer, Answers
  <2>3. NoPayload \notin Requests
    BY NoPayloadFacts DEF Requests
  <2> QED
    BY <2>1, <2>2, <2>3 DEF Linked, Held, All, None
<1> QED
  BY <1>1, <1>2

\* Then the client may go on to another state, and send a request.
LEMMA HeldLinked ==
  ASSUME NEW c, NEW s, NEW d, Linked(c, s), Held(c, s),
         d.err \notin {"SSHProto", "PacketWrong", "PasswordExpired"},
         d.rx = NoPayload \/ (d.rx \in FromServer(d) /\ d.rx = c.rx),
         s.authed \/ d.conn = c.conn,
         All(d.out, FromClient(d)), One(d.out, Requests),
         \/ None(d.out, Requests)
         \/ d.rx = NoPayload /\ d.ev \notin CliResumable /\ d.extra = "None",
         d.rx \in Answers => d.extra = "None",
         d.ev \in CliResumable => d.extra = "None",
         d.user = c.user \/ c.user = NoUser,
         StartInv(d, s)
  PROVE  Linked(d, s)
<1>1. NoPayload \notin Answers /\ NoPayload \notin Successes
  BY NoPayloadFacts DEF Answers, Successes
<1>2. TokenInv(d, s)
  BY <1>1 DEF Linked, TokenInv, Held
<1>3. \A p \in FromServer(c) : p \notin Answers => p \in FromServer(d)
  BY DEF FromServer, Answers, IsAnswer
<1>4. All(s.out, FromServer(d))
  BY <1>3 DEF Linked, Held, All, None
<1>5. \A p \in FromClient(c) : p \notin Requests => p \in FromClient(d)
  BY DEF FromClient, Requests, Proper
<1>6. s.rx = NoPayload \/ s.rx \in FromClient(d)
  BY <1>5 DEF Linked, Held
<1> QED
  BY <1>1, <1>2, <1>4, <1>6 DEF Linked

\* A step of the client from c to d, with the server in s
CliStep(c, d, s) == CliOK(d) /\ (Linked(c, s) => Linked(d, s))

LEMMA ResumedStep ==
  ASSUME NEW c, NEW s, CliOK(c)
  PROVE  /\ CliStep(c, Resumed(c), s) /\ Resumed(c).ev = "None"
         /\ Resumed(c).err = c.err /\ Resumed(c).extra = c.extra
<1> DEFINE d == Resumed(c)
<1>1. c \in Client
  BY DEF CliOK
<1>2. /\ d \in Client /\ d.ev = "None" /\ d.rx = NoPayload
      /\ d.key = c.key /\ d.state = c.state /\ d.out = c.out
      /\ d.user = c.user /\ d.authType = c.authType /\ d.conn = c.conn
      /\ d.extra = c.extra /\ d.err = c.err
  BY ZenonT(60), <1>1 DEF Client, Resumed
<1> HIDE DEF d
<1>3. CliOK(d)
  BY <1>2 DEF CliOK
<1>4. Linked(c, s) => Linked(d, s)
  BY <1>2, SameLinked DEF Same, Linked
<1> QED
  BY <1>2, <1>3, <1>4 DEF CliStep, d

LEMMA TakenStep ==
  ASSUME NEW c, NEW s, CliOK(c)
  PROVE  /\ CliStep(c, Taken(c), s) /\ Taken(c).ev = "None"
         /\ Taken(c).err = c.err /\ Taken(c).extra = c.extra
<1>1. CliStep(c, c, s)
  BY DEF CliStep
<1> QED
  BY <1>1, ResumedStep DEF Taken

LEMMA CliAuthProgressStep ==
  ASSUME NEW c, NEW s, CliOK(c), c.ev = "None"
  PROVE  CliStep(c, CliAuthProgress(c), s)
<1> DEFINE d == [c EXCEPT !.state = "MethodQuery", !.ev = "Username"]
<1>1. c \in Client
  BY DEF CliOK
<1>2. /\ d \in Client /\ d.ev = "Username" /\ d.rx = c.rx
      /\ d.key = c.key /\ d.state = "MethodQuery" /\ d.out = c.out
      /\ d.user = c.user /\ d.authType = c.authType /\ d.conn = c.conn
      /\ d.extra = c.extra /\ d.err = c.err
  BY ZenonT(60), <1>1 DEF Client, CliResumable
<1> HIDE DEF d
<1>3. ASSUME c.state = "Unstarted" PROVE CliStep(c, d, s)
  <2>1. CliOK(d)
    BY <1>2, <1>3 DEF CliOK
  <2>2. ASSUME Linked(c, s) PROVE Linked(d, s)
    <3>1. c.user = NoUser /\ c.extra = "None" /\ Held(c, s)
      BY <1>3, <2>2, HeldFacts DEF Linked, StartInv
    <3>2. StartInv(d, s)
      BY <1>2, <2>2, <3>1 DEF Linked, StartInv
    <3>3. \A p \in FromClient(c) : p \in FromClient(d)
      BY <1>2, <3>1 DEF FromClient
    <3>4. \A p \in FromServer(c) : p \in FromServer(d)
      BY <1>2, <3>1 DEF FromServer, IsAnswer
    <3>5. All(d.out, FromClient(d))
      BY <1>2, <2>2, <3>3 DEF Linked, All
    <3>6. None(d.out, Requests) /\ One(d.out, Requests)
      BY <1>2, <3>1, NoneIsOne DEF Held
    <3>7. d.rx = NoPayload \/ (d.rx \in FromServer(d) /\ d.rx = c.rx)
      BY <1>2, <2>2, <3>4 DEF Linked
    <3>8. d.err \notin {"SSHProto", "PacketWrong", "PasswordExpired"}
      BY <1>2, <2>2 DEF Linked
    <3> QED
      BY <1>2, <2>2, <3>1, <3>2, <3>5, <3>6, <3>7, <3>8, HeldLinked
  <2> QED
    BY <2>1, <2>2 DEF CliStep
<1>4. CliStep(c, c, s)
  BY DEF CliStep
<1> QED
  BY <1>3, <1>4 DEF CliAuthProgress, d

\* A request that the client sends while it holds the only one
LEMMA SendRequestStep ==
  ASSUME NEW c, NEW s, NEW d, CliOK(c), NEW p \in Message,
         d \in Client, d.key # NoKey <=> d.state = "RequestKey",
         d.out = Append(c.out, p), d.ev = "None", d.extra = c.extra,
         d.rx = NoPayload, d.err = "ok",
         d.user = c.user, d.conn = c.conn, d.state # "Unstarted",
         p \in Proper, IsRequest(p), p.u = c.user,
         p.m = "publickey" =>
           p.k \in Keys /\ (p.s = "absent" => Asked(d, p.k)),
         \/ c.rx \in Answers \/ c.ev \in CliResumable \ {"Username"}
  PROVE  CliStep(c, d, s)
<1>1. c.out \in Seq(Message) /\ c \in Client
  BY DEF CliOK, Client
<1>2. CliOK(d)
  BY <1>1, AppendFacts DEF CliOK
<1>3. ASSUME Linked(c, s) PROVE Linked(d, s)
  <2>1. Held(c, s) /\ c.user # NoUser
    <3>1. Held(c, s)
      BY <1>3, HeldFacts
    <3>2. ASSUME c.rx \in Answers PROVE c.user # NoUser
      <4>1. c.rx \in FromServer(c)
        BY <1>3, <3>2, NoPayloadFacts DEF Linked, Answers
      <4> QED
        BY <3>2, <4>1 DEF FromServer, Answers
    <3>3. ASSUME c.ev \in CliResumable \ {"Username"} PROVE c.user # NoUser
      BY <1>3, <3>3 DEF Linked, StartInv, CliResumable
    <3> QED
      BY <3>1, <3>2, <3>3
  <2>2. p \in FromClient(d)
    BY <2>1 DEF FromClient
  <2>3. \A x \in FromClient(c) : x \notin Requests => x \in FromClient(d)
    BY DEF FromClient, Requests, Proper
  <2>4. All(c.out, FromClient(d))
    BY <1>3, <2>1, <2>3 DEF Linked, Held, All, None
  <2>5. All(d.out, FromClient(d)) /\ One(d.out, Requests)
    BY <1>1, <2>1, <2>2, <2>4, AppendFacts DEF Held
  <2>6. StartInv(d, s)
    BY <1>3, <2>1 DEF Linked, StartInv
  <2>7. d.ev \notin CliResumable /\ d.rx \notin Answers /\ d.extra = "None"
    BY <1>3, NoPayloadFacts DEF CliResumable, Answers, Linked, TokenInv
  <2>8. d.err \notin {"SSHProto", "PacketWrong", "PasswordExpired"}
    OBVIOUS
  <2> QED
    BY ZenonT(60), <1>3, <2>1, <2>5, <2>6, <2>7, <2>8, HeldLinked
<1> QED
  BY <1>2, <1>3 DEF CliStep

\* An error that two ends of this library do not meet, or one that is none
\* of the protocol's
LEMMA FailStep ==
  ASSUME NEW c, NEW s, CliOK(c),
         NEW e \in {"TooLong", "PacketWrong", "PasswordExpired", "SSHProto",
                    "NoAuthMethods", "BadUsage"},
         e \in {"SSHProto", "PacketWrong", "PasswordExpired"}
           => ~Linked(c, s)
  PROVE  CliStep(c, Fail(c, e), s) /\ Fail(c, e).err = e
<1> DEFINE d == Fail(c, e)
<1>1. c \in Client /\ e \in CliErrors
  BY DEF CliOK, CliErrors
<1>2. /\ d \in Client /\ d.ev = c.ev /\ d.rx = c.rx
      /\ d.key = c.key /\ d.state = c.state /\ d.out = c.out
      /\ d.user = c.user /\ d.authType = c.authType /\ d.conn = c.conn
      /\ d.extra = c.extra /\ d.err = e
  BY ZenonT(60), <1>1 DEF Client, Fail
<1> HIDE DEF d
<1>3. CliOK(d)
  BY <1>2 DEF CliOK
<1>4. Linked(c, s) => Linked(d, s)
  BY <1>2, SameLinked DEF Same
<1> QED
  BY <1>2, <1>3, <1>4 DEF CliStep, d

LEMMA HandledStep ==
  ASSUME NEW c, NEW s, CliOK(c)
  PROVE  CliStep(c, Handled(c), s)
<1> DEFINE d == [c EXCEPT !.rx = NoPayload]
<1>1. c \in Client
  BY DEF CliOK
<1>2. /\ d \in Client /\ d.ev = c.ev /\ d.rx = NoPayload
      /\ d.key = c.key /\ d.state = c.state /\ d.out = c.out
      /\ d.user = c.user /\ d.authType = c.authType /\ d.conn = c.conn
      /\ d.extra = c.extra /\ d.err = c.err
  BY ZenonT(60), <1>1 DEF Client
<1> HIDE DEF d
<1>3. CliOK(d)
  BY <1>2 DEF CliOK
<1>4. Linked(c, s) => Linked(d, s)
  BY <1>2, SameLinked DEF Same, Linked
<1>5. Handled(c) = c \/ Handled(c) = d
  BY DEF Handled, d
<1> QED
  BY <1>3, <1>4, <1>5 DEF CliStep

LEMMA StepTransitive ==
  ASSUME NEW c, NEW d, NEW f, NEW s, CliStep(c, d, s), CliStep(d, f, s)
  PROVE  CliStep(c, f, s)
  BY DEF CliStep

\* An answer that leads to another state, and is kept with its event
LEMMA AnsweredStep ==
  ASSUME NEW c, NEW s, NEW d, CliOK(c), d \in Client,
         c.rx \in Answers, c.rx.t # "Userauth60", c.extra = "None",
         d.rx = c.rx, d.out = c.out, d.extra = c.extra, d.user = c.user,
         d.state = "Idle", d.key = NoKey,
         d.ev # "Username", d.ev # "AgentSign",
         d.err \in {"ok", "NoAuthMethods"},
         d.conn = c.conn \/ c.rx \in Successes
  PROVE  CliStep(c, d, s)
<1>1. CliOK(d)
  BY DEF CliOK
<1>2. ASSUME Linked(c, s) PROVE Linked(d, s)
  <2>1. Held(c, s)
    BY <1>2, HeldFacts
  <2>2. c.rx \in FromServer(c)
    BY <1>2, NoPayloadFacts DEF Linked, Answers
  <2>3. c.user # NoUser /\ d.rx \in FromServer(d)
    BY <2>2 DEF FromServer, Answers
  <2>4. StartInv(d, s)
    BY <1>2, <2>3 DEF Linked, StartInv
  <2>5. \A p \in FromClient(c) : p \notin Requests => p \in FromClient(d)
    BY DEF FromClient, Requests, Proper
  <2>6. All(d.out, FromClient(d))
    BY <1>2, <2>1, <2>5 DEF Linked, Held, All, None
  <2>7. None(d.out, Requests) /\ One(d.out, Requests)
    BY <2>1, NoneIsOne DEF Held
  <2>8. d.err \notin {"SSHProto", "PacketWrong", "PasswordExpired"}
    BY ZenonT(60)
  <2>9. s.authed \/ d.conn = c.conn
    BY <1>2 DEF Linked
  <2> QED
    BY <1>2, <2>1, <2>3, <2>4, <2>6, <2>7, <2>8, <2>9, HeldLinked
<1> QED
  BY <1>1, <1>2 DEF CliStep

LEMMA FailureStep ==
  ASSUME NEW c, NEW s, CliOK(c), c.rx \in Message, c.ev = "None",
         c.err = "ok", c.extra = "None", c.rx.t = "UserauthFailure"
  PROVE  CliStep(c, Failure(c), s) /\ ~Running(Failure(c))
<1> DEFINE i == [c EXCEPT !.authType = "None", !.state = "Idle",
                          !.key = NoKey]
           d == Failure(c)
<1>1. c \in Client /\ c.rx \in Answers
  BY DEF CliOK, Answers, IsAnswer
<1>2. /\ i \in Client /\ i.ev = "None" /\ i.rx = c.rx
      /\ i.key = NoKey /\ i.state = "Idle" /\ i.out = c.out
      /\ i.user = c.user /\ i.conn = c.conn /\ i.extra = c.extra
      /\ i.err = "ok"
  BY ZenonT(60), <1>1 DEF Client
<1>3. \/ d = [i EXCEPT !.ev = "Pubkey"] \/ d = [i EXCEPT !.ev = "Password"]
      \/ d = [i EXCEPT !.err = "NoAuthMethods"]
  BY DEF Failure, Fail
<1> HIDE DEF i, d
<1>4. /\ d \in Client /\ d.rx = i.rx /\ d.key = i.key /\ d.state = i.state
      /\ d.out = i.out /\ d.user = i.user /\ d.conn = i.conn
      /\ d.extra = i.extra
      /\ \/ d.ev \in {"Pubkey", "Password"} /\ d.err = i.err
         \/ d.ev = i.ev /\ d.err = "NoAuthMethods"
  BY ZenonT(60), <1>2, <1>3 DEF Client, CliErrors, CliResumable
<1>5. d.ev # "Username" /\ d.ev # "AgentSign" /\ ~Running(d)
      /\ d.err \in {"ok", "NoAuthMethods"}
  BY ZenonT(60), <1>2, <1>4 DEF Running
<1> QED
  BY <1>1, <1>2, <1>4, <1>5, AnsweredStep DEF d

LEMMA SuccessStep ==
  ASSUME NEW c, NEW s, CliOK(c), c.rx \in Message, c.ev = "None",
         c.err = "ok", c.extra = "None", c.rx.t = "UserauthSuccess"
  PROVE  CliStep(c, Success(c), s)
<1> DEFINE d == [c EXCEPT !.conn = "Authed", !.authType = "None",
                          !.state = "Idle", !.key = NoKey,
                          !.ev = "Authenticated"]
<1>1. c \in Client /\ c.rx \in Answers /\ c.rx \in Successes
  BY DEF CliOK, Answers, IsAnswer, Successes
<1>2. /\ d \in Client /\ d.ev = "Authenticated" /\ d.rx = c.rx
      /\ d.key = NoKey /\ d.state = "Idle" /\ d.out = c.out
      /\ d.user = c.user /\ d.extra = c.extra /\ d.err = "ok"
  BY ZenonT(60), <1>1 DEF Client
<1> HIDE DEF d
<1>3. CliStep(c, d, s)
  BY <1>1, <1>2, AnsweredStep
<1>4. CliStep(c, c, s)
  BY DEF CliStep
<1> QED
  BY <1>3, <1>4 DEF Success, d

\* auth60() finds the request it answers, between two ends of this library
LEMMA Auth60Step ==
  ASSUME NEW c, NEW s, CliOK(c), c.rx \in Message, c.ev = "None",
         c.err = "ok", c.extra = "None", c.rx.t = "Userauth60"
  PROVE  CliStep(c, Handled(Auth60(c)), s)
<1>1. c \in Client /\ c.rx \in Answers /\ c.out \in Seq(Message)
  BY DEF CliOK, Answers, IsAnswer, Client
<1>2. c.authType \in {"None", "Password", "PubKey"}
  BY <1>1, ClientTypes
<1>3. ASSUME Linked(c, s)
      PROVE  c.authType = "PubKey" /\ c.rx.k # NoKey
             /\ c.state = "RequestKey" /\ c.key = c.rx.k
  <2>1. c.rx \in FromServer(c)
    BY <1>3, MessageTypes DEF Linked
  <2> QED
    BY <2>1, AuthAssumption DEF FromServer, Asked
<1>4. ASSUME NEW e \in {"PacketWrong", "PasswordExpired", "SSHProto"},
             Auth60(c) = Fail(c, e), ~Linked(c, s)
      PROVE  CliStep(c, Handled(Auth60(c)), s)
  <2>1. CliStep(c, Fail(c, e), s)
    BY ZenonT(60), <1>4, FailStep
  <2>2. CliStep(Fail(c, e), Handled(Fail(c, e)), s)
    BY <2>1, HandledStep DEF CliStep
  <2> QED
    BY <1>4, <2>1, <2>2, StepTransitive
<1>5. CASE c.authType = "None"
  <2>1. Auth60(c) = Fail(c, "PacketWrong") /\ ~Linked(c, s)
    BY <1>3, <1>5 DEF Auth60
  <2> QED
    BY <1>4, <2>1
<1>6. CASE c.authType = "Password"
  <2>1. Auth60(c) = Fail(c, "PasswordExpired") /\ ~Linked(c, s)
    BY <1>3, <1>6 DEF Auth60
  <2> QED
    BY <1>4, <2>1
<1>7. CASE c.authType = "PubKey" /\ c.rx.k = NoKey
  <2>1. Auth60(c) = Fail(c, "PacketWrong") /\ ~Linked(c, s)
    BY <1>3, <1>7 DEF Auth60
  <2> QED
    BY <1>4, <2>1
<1>8. CASE /\ c.authType = "PubKey" /\ c.rx.k # NoKey
           /\ c.state # "RequestKey" \/ c.key # c.rx.k
  <2>1. Auth60(c) = Fail(c, "SSHProto") /\ ~Linked(c, s)
    BY <1>3, <1>8 DEF Auth60
  <2> QED
    BY <1>4, <2>1
<1>9. CASE /\ c.authType = "PubKey" /\ c.rx.k # NoKey
           /\ c.state = "RequestKey" /\ c.key = c.rx.k /\ c.key \in AgentKeys
  <2> DEFINE d == [c EXCEPT !.ev = "AgentSign"]
  <2>1. Auth60(c) = d
    BY <1>9 DEF Auth60
  <2>2. /\ d \in Client /\ d.ev = "AgentSign" /\ d.rx = c.rx
        /\ d.key = c.key /\ d.state = c.state /\ d.out = c.out
        /\ d.user = c.user /\ d.authType = c.authType /\ d.conn = c.conn
        /\ d.extra = c.extra /\ d.err = c.err
    BY ZenonT(60), <1>1 DEF Client, CliResumable
  <2> HIDE DEF d
  <2>3. Handled(d) = d
    BY <2>2 DEF Handled, Running
  <2>4. CliOK(d)
    BY <1>9, <2>2 DEF CliOK
  <2>5. ASSUME Linked(c, s) PROVE Linked(d, s)
    <3>1. Held(c, s) /\ c.rx \in FromServer(c)
      BY <1>1, <2>5, MessageTypes, HeldFacts DEF Linked
    <3>2. FromServer(d) = FromServer(c) /\ FromClient(d) = FromClient(c)
      BY <2>2 DEF FromServer, FromClient, Asked
    <3>3. StartInv(d, s)
      <4>1. c.user # NoUser
        BY <1>1, <3>1 DEF FromServer, Answers
      <4> QED
        BY <2>2, <2>5, <4>1 DEF Linked, StartInv
    <3>4. All(d.out, FromClient(d)) /\ None(d.out, Requests)
          /\ One(d.out, Requests)
      BY <2>2, <2>5, <3>1, <3>2, NoneIsOne DEF Linked, Held
    <3>5. d.err \notin {"SSHProto", "PacketWrong", "PasswordExpired"}
      BY <2>2
    <3> QED
      BY ZenonT(60), <2>2, <2>5, <3>1, <3>2, <3>3, <3>4, <3>5, HeldLinked
  <2> QED
    BY <2>1, <2>3, <2>4, <2>5 DEF CliStep
<1>10. CASE /\ c.authType = "PubKey" /\ c.rx.k # NoKey
            /\ c.state = "RequestKey" /\ c.key = c.rx.k
            /\ c.key \notin AgentKeys
  <2> DEFINE p == Signed(c, "valid")
             d == [c EXCEPT !.authType = "None", !.out = Append(c.out, p)]
             h == [d EXCEPT !.rx = NoPayload]
  <2>1. Auth60(c) = d
    <3>1. Auth60(c) = Send([c EXCEPT !.authType = "None"], p)
      BY <1>10 DEF Auth60
    <3>2. [c EXCEPT !.authType = "None"].out = c.out
      BY ZenonT(60), <1>1 DEF Client
    <3> HIDE DEF p
    <3> QED
      BY <3>1, <3>2 DEF Send
  <2>2. /\ p \in Message /\ IsRequest(p) /\ p.u = c.user /\ p.k = c.key
        /\ p.m = "publickey" /\ p.s = "valid"
    BY <1>1, SignedTyped DEF Signatures
  <2> HIDE DEF p
  <2>3. Append(c.out, p) \in Seq(Message)
    BY <1>1, <2>2
  <2>4. /\ d \in Client /\ d.err = "ok" /\ d.ev = "None"
        /\ h \in Client /\ h.ev = "None" /\ h.rx = NoPayload
        /\ h.key = c.key /\ h.state = c.state /\ h.out = Append(c.out, p)
        /\ h.user = c.user /\ h.conn = c.conn
        /\ h.extra = "None" /\ h.err = "ok"
    BY ZenonT(60), <1>1, <2>3 DEF Client
  <2>5. Handled(d) = h
    BY <2>4 DEF Handled, Running
  <2> HIDE DEF d, h
  <2>6. c.key \in Keys /\ p \in Proper
    BY <1>1, <1>10, <2>2, ClientTypes DEF Proper
  <2>7. h.key # NoKey <=> h.state = "RequestKey"
    BY <2>4 DEF CliOK
  <2>8. CliStep(c, h, s)
    BY <1>1, <1>10, <2>2, <2>4, <2>6, <2>7, SendRequestStep
  <2> QED
    BY <2>1, <2>5, <2>8
<1> QED
  BY <1>2, <1>5, <1>6, <1>7, <1>8, <1>9, <1>10

LEMMA DispatchStep ==
  ASSUME NEW c, NEW s, CliOK(c), c.rx \in Message, c.ev = "None",
         c.err = "ok", c.extra = "None"
  PROVE  CliStep(c, Handled(CliDispatch(c)), s)
<1>1. c \in Client
  BY DEF CliOK
<1>2. c.rx.t \in {"ServiceRequest", "ServiceAccept", "UserauthRequest",
                  "UserauthFailure", "UserauthSuccess", "Userauth60",
                  "UserauthBanner", "ExtInfo"}
  BY MessageTypes
<1>3. ASSUME NEW d, CliStep(c, d, s) PROVE CliStep(c, Handled(d), s)
  BY <1>3, HandledStep DEF CliStep
<1>4. CliStep(c, c, s)
  BY DEF CliStep
<1>5. CASE c.rx.t = "ExtInfo"
  <2> DEFINE b == IF c.rx.ms = {} THEN c.allowRsa ELSE "rsa-sha2" \in c.rx.ms
             d == [c EXCEPT !.allowRsa = b]
  <2>0. b \in BOOLEAN
    <3>1. c.allowRsa \in BOOLEAN
      BY <1>1 DEF Client
    <3>2. ("rsa-sha2" \in c.rx.ms) \in BOOLEAN
      OBVIOUS
    <3>3. CASE c.rx.ms = {}
      BY Zenon, <3>1, <3>3
    <3>4. CASE c.rx.ms # {}
      BY Zenon, <3>2, <3>4
    <3> QED
      BY Zenon, <3>3, <3>4
  <2> HIDE DEF b
  <2>1. /\ d \in Client /\ d.ev = c.ev /\ d.rx = c.rx
        /\ d.key = c.key /\ d.state = c.state /\ d.out = c.out
        /\ d.user = c.user /\ d.authType = c.authType /\ d.conn = c.conn
        /\ d.extra = c.extra /\ d.err = c.err
    BY ZenonT(60), <1>1, <2>0 DEF Client
  <2>2. CliDispatch(c) = d
    BY <1>5 DEF CliDispatch, HandleExtInfo, b
  <2> HIDE DEF d
  <2>3. CliOK(d)
    BY <2>1 DEF CliOK
  <2>4. Linked(c, s) => Linked(d, s)
    BY <2>1, SameLinked DEF Same, Linked
  <2> QED
    BY <1>3, <2>2, <2>3, <2>4 DEF CliStep
<1>6. CASE c.rx.t = "ServiceAccept"
  BY <1>3, <1>4, <1>6 DEF CliDispatch
<1>7. CASE c.rx.t = "UserauthFailure"
  BY <1>3, <1>7, FailureStep DEF CliDispatch
<1>8. CASE c.rx.t = "UserauthSuccess"
  BY <1>3, <1>8, SuccessStep DEF CliDispatch
<1>9. CASE c.rx.t = "UserauthBanner"
  <2> DEFINE d == [c EXCEPT !.ev = "Banner"]
  <2>1. /\ d \in Client /\ d.ev = "Banner" /\ d.out = c.out
        /\ d.key = c.key /\ d.state = c.state
    BY ZenonT(60), <1>1 DEF Client
  <2>2. CliDispatch(c) = d
    BY <1>9 DEF CliDispatch
  <2> HIDE DEF d
  <2>3. CliOK(d)
    BY <2>1 DEF CliOK
  <2>4. ~Linked(c, s)
    BY <1>9, MessageTypes DEF Linked, FromServer
  <2> QED
    BY <1>3, <2>2, <2>3, <2>4 DEF CliStep
<1>10. CASE c.rx.t = "Userauth60"
  <2>1. CliDispatch(c) = Auth60(c)
    BY <1>10 DEF CliDispatch
  <2> QED
    BY <1>10, <2>1, Auth60Step
<1>11. CASE c.rx.t \in {"ServiceRequest", "UserauthRequest"}
  <2>1. CliDispatch(c) = Fail(c, "SSHProto")
    BY <1>11 DEF CliDispatch
  <2>2. ~Linked(c, s)
    BY <1>11, MessageTypes DEF Linked, FromServer
  <2>3. CliStep(c, Fail(c, "SSHProto"), s)
    BY <2>2, FailStep
  <2> QED
    BY <1>3, <2>1, <2>3
<1> QED
  BY <1>2, <1>5, <1>6, <1>7, <1>8, <1>9, <1>10, <1>11

\* Runner::progress() of the client
LEMMA CliRunnerProgressStep ==
  ASSUME NEW c, NEW s, CliOK(c), c.ev \notin CliResumable, c.err = "ok"
  PROVE  CliStep(c, CliRunnerProgress(c), s)
<1>1. CASE c.extra # "None"
  <2> DEFINE d == [c EXCEPT !.ev = c.extra, !.extra = "None"]
  <2>1. c \in Client /\ c.extra \in {"Pubkey", "Password"}
    BY <1>1, ClientTypes DEF CliOK
  <2>2. /\ d \in Client /\ d.ev = c.extra /\ d.rx = c.rx
        /\ d.key = c.key /\ d.state = c.state /\ d.out = c.out
        /\ d.user = c.user /\ d.authType = c.authType /\ d.conn = c.conn
        /\ d.extra = "None" /\ d.err = c.err
    BY ZenonT(60), <2>1 DEF Client, CliResumable
  <2>3. CliRunnerProgress(c) = d
    BY <1>1 DEF CliRunnerProgress
  <2> HIDE DEF d
  <2>4. CliOK(d)
    BY <2>1, <2>2 DEF CliOK
  <2>5. ASSUME Linked(c, s) PROVE Linked(d, s)
    <3>1. Held(c, s)
      BY <1>1, <2>5, HeldFacts
    <3>2. FromServer(d) = FromServer(c) /\ FromClient(d) = FromClient(c)
      BY <2>2 DEF FromServer, FromClient, Asked
    <3>3. StartInv(d, s)
      BY <1>1, <2>1, <2>2, <2>5 DEF Linked, StartInv
    <3>4. /\ All(d.out, FromClient(d)) /\ None(d.out, Requests)
          /\ One(d.out, Requests)
      BY <2>2, <2>5, <3>1, <3>2, NoneIsOne DEF Linked, Held
    <3>5. d.err \notin {"SSHProto", "PacketWrong", "PasswordExpired"}
      BY <2>2
    <3>6. d.rx = NoPayload \/ (d.rx \in FromServer(d) /\ d.rx = c.rx)
      BY <2>2, <2>5, <3>2 DEF Linked
    <3> QED
      BY ZenonT(60), <2>2, <2>5, <3>1, <3>3, <3>4, <3>5, <3>6, HeldLinked
  <2> QED
    BY <2>3, <2>4, <2>5 DEF CliStep
<1>2. CASE c.extra = "None"
  <2> DEFINE t == Taken(c)
             h == IF t.rx = NoPayload THEN t ELSE Handled(CliDispatch(t))
  <2>1. CliStep(c, t, s) /\ t.ev = "None" /\ t.err = "ok"
    BY TakenStep
  <2>2. t.extra = "None"
    BY <1>2, TakenStep
  <2>3. CliRunnerProgress(c) = IF Running(h) THEN CliAuthProgress(h) ELSE h
    BY <1>2 DEF CliRunnerProgress
  <2> HIDE DEF t
  <2>4. CliStep(c, h, s)
    <3>1. t.rx # NoPayload => t.rx \in Message
      BY <2>1, ClientTypes DEF CliStep, CliOK
    <3>2. t.rx # NoPayload => CliStep(t, Handled(CliDispatch(t)), s)
      BY <2>1, <2>2, <3>1, DispatchStep DEF CliStep
    <3> QED
      BY <2>1, <3>2, StepTransitive
  <2> HIDE DEF h
  <2>5. Running(h) => CliStep(h, CliAuthProgress(h), s)
    BY <2>4, CliAuthProgressStep DEF CliStep, Running
  <2> QED
    BY <2>3, <2>4, <2>5, StepTransitive
<1> QED
  BY <1>1, <1>2

-----------------------------------------------------------------------------
(* Answers of the client's application.                                    *)

LEMMA ResumeUsernameStep ==
  ASSUME NEW c, NEW s, CliOK(c), c.ev = "Username", c.err = "ok",
         NEW u \in Users
  PROVE  CliStep(c, ResumeUsername(c, u), s)
<1> DEFINE r == Resumed(c)
<1>1. CliStep(c, r, s) /\ r.err = "ok"
  BY ResumedStep
<1>2. CASE u \in LongUsers
  <2>1. CliStep(r, Fail(r, "TooLong"), s)
    BY <1>1, FailStep DEF CliStep
  <2>2. ResumeUsername(c, u) = Fail(r, "TooLong")
    BY <1>2 DEF ResumeUsername
  <2> HIDE DEF r
  <2> QED
    BY <1>1, <2>1, <2>2, StepTransitive
<1>3. CASE u \notin LongUsers
  <2> DEFINE p == ServiceRequest("userauth")
             q == UserauthRequest(u, "none", NoKey, "absent")
             o1 == Append(c.out, p)
             o == Append(o1, q)
             d == [Resumed(c) EXCEPT !.user = u, !.out = o]
  <2>1. c \in Client /\ c.out \in Seq(Message)
    BY DEF CliOK, Client
  <2>2. /\ p \in Message /\ p.t = "ServiceRequest" /\ p.m = "userauth"
        /\ p.s = "absent"
    BY ServiceRequestTyped
  <2>3. q = UserauthRequest(u, "none", NoKey, "absent")
    OBVIOUS
  <2>4. ResumeUsername(c, u) = d
    <3>1. [Resumed(c) EXCEPT !.user = u].out = c.out
      BY ZenonT(60), <2>1 DEF Client, Resumed
    <3>2. Send([Resumed(c) EXCEPT !.user = u], p)
            = [Resumed(c) EXCEPT !.user = u, !.out = Append(c.out, p)]
      BY ZenonT(60), <3>1 DEF Send
    <3>3. [Resumed(c) EXCEPT !.user = u, !.out = Append(c.out, p)].out
            = Append(c.out, p)
      BY ZenonT(60), <2>1 DEF Client, Resumed
    <3> HIDE DEF p, q
    <3> QED
      BY ZenonT(60), <1>3, <3>2, <3>3 DEF ResumeUsername, Send, p, q
  <2> HIDE DEF p, q
  <2>5. /\ q \in Message /\ q.t = "UserauthRequest" /\ q.u = u
        /\ q.m = "none" /\ q.k = NoKey /\ q.s = "absent"
    <3>1. /\ "none" \in {"none", "password", "publickey", "other"}
          /\ NoKey \in Keys \cup {NoKey} /\ u \in Users \cup {NoUser}
          /\ "absent" \in Signatures
      BY DEF Signatures
    <3> QED
      BY <2>3, <3>1, UserauthRequestTyped
  <2>6. p \in Proper /\ q \in Proper /\ p \notin Requests
    BY <2>2, <2>5 DEF Proper, Requests, IsRequest
  <2>7. o1 \in Seq(Message) /\ o \in Seq(Message)
    BY <2>1, <2>2, <2>5
  <2>8. All(o, Proper)
    <3>1. All(o1, Proper)
      BY <2>1, <2>2, <2>6, AppendFacts DEF CliOK
    <3> HIDE DEF o1
    <3> QED
      BY <2>5, <2>6, <2>7, <3>1, AppendFacts
  <2> DEFINE oo == o
  <2>9. oo = o
    OBVIOUS
  <2> HIDE DEF oo
  <2>10. /\ d \in Client /\ d.ev = "None" /\ d.rx = NoPayload
         /\ d.key = c.key /\ d.state = c.state /\ d.out = o
         /\ d.user = u /\ d.conn = c.conn
         /\ d.extra = c.extra /\ d.err = c.err
    <3>1. oo \in Seq(Message)
      BY <2>7, <2>9
    <3> DEFINE dd == [Resumed(c) EXCEPT !.user = u, !.out = oo]
    <3>2. /\ dd \in Client /\ dd.ev = "None" /\ dd.rx = NoPayload
          /\ dd.key = c.key /\ dd.state = c.state /\ dd.out = oo
          /\ dd.user = u /\ dd.conn = c.conn
          /\ dd.extra = c.extra /\ dd.err = c.err
      BY ZenonT(60), <2>1, <3>1 DEF Client, Resumed
    <3> QED
      BY <2>9, <3>2
  <2> HIDE DEF d
  <2>11. CliOK(d)
    BY <2>8, <2>10 DEF CliOK
  <2>12. ASSUME Linked(c, s) PROVE Linked(d, s)
    <3>1. /\ c.user = NoUser /\ c.state # "Unstarted" /\ c.extra = "None"
          /\ s.user = NoUser /\ u # NoUser
      BY <2>12, AuthAssumption DEF Linked, StartInv
    <3>2. Held(c, s)
      BY <2>12, <3>1, HeldFacts
    <3>3. \A x \in FromClient(c) : x \in FromClient(d)
      BY <3>1 DEF FromClient
    <3>4. p \in FromClient(d) /\ q \in FromClient(d)
      BY <2>2, <2>5, <2>6, <2>10, <3>1 DEF FromClient, IsRequest
    <3>5. All(c.out, FromClient(d))
      BY <2>12, <3>3 DEF Linked, All
    <3>6. All(o1, FromClient(d)) /\ None(o1, Requests)
      BY <2>1, <2>2, <2>6, <3>2, <3>4, <3>5, AppendFacts DEF Held
    <3>7. All(d.out, FromClient(d)) /\ One(d.out, Requests)
      <4> HIDE DEF o1
      <4> QED
        BY <2>5, <2>7, <2>10, <3>4, <3>6, AppendFacts
    <3>8. StartInv(d, s)
      BY <1>3, <2>10, <3>1 DEF StartInv
    <3>9. /\ d.err \notin {"SSHProto", "PacketWrong", "PasswordExpired"}
          /\ d.ev \notin CliResumable
      BY <2>10 DEF CliResumable
    <3>10. d.extra = "None"
      BY <2>10, <3>1
    <3> QED
      BY ZenonT(60), <2>10, <2>12, <3>1, <3>2, <3>7, <3>8, <3>9, <3>10,
         HeldLinked
  <2> QED
    BY <2>4, <2>11, <2>12 DEF CliStep
<1> QED
  BY <1>2, <1>3

\* An answer after which the client has another question
LEMMA ExtraStep ==
  ASSUME NEW c, NEW s, NEW d, CliOK(c), d \in Client,
         c.ev \in CliResumable \ {"Username"},
         d.key = c.key, d.state = c.state, d.out = c.out, d.user = c.user,
         d.conn = c.conn, d.rx = NoPayload, d.ev = "None", d.err = "ok"
  PROVE  CliStep(c, d, s)
<1>1. CliOK(d)
  BY DEF CliOK
<1>2. ASSUME Linked(c, s) PROVE Linked(d, s)
  <2>1. Held(c, s) /\ c.user # NoUser
    <3>1. Held(c, s)
      BY <1>2, HeldFacts
    <3> QED
      BY <1>2, <3>1 DEF Linked, StartInv, CliResumable
  <2>2. StartInv(d, s)
    BY <1>2, <2>1 DEF Linked, StartInv
  <2>3. \A p \in FromClient(c) : p \notin Requests => p \in FromClient(d)
    BY DEF FromClient, Requests, Proper
  <2>4. All(d.out, FromClient(d))
    BY <1>2, <2>1, <2>3 DEF Linked, Held, All, None
  <2>5. None(d.out, Requests) /\ One(d.out, Requests)
    BY <2>1, NoneIsOne DEF Held
  <2>6. /\ d.err \notin {"SSHProto", "PacketWrong", "PasswordExpired"}
        /\ d.ev \notin CliResumable /\ d.rx \notin Answers
    BY NoPayloadFacts DEF CliResumable, Answers
  <2> QED
    BY ZenonT(60), <1>2, <2>1, <2>2, <2>4, <2>5, <2>6, HeldLinked
<1> QED
  BY <1>1, <1>2 DEF CliStep

\* An answer with which the client gives up
LEMMA GiveUpStep ==
  ASSUME NEW c, NEW s, NEW d, CliOK(c), d \in Client, d.err = "NoAuthMethods",
         d.key = c.key, d.state = c.state, d.out = c.out, d.user = c.user,
         d.conn = c.conn, d.rx = c.rx, d.ev = c.ev, d.extra = c.extra,
         d.authType = c.authType
  PROVE  CliStep(c, d, s)
<1>1. CliOK(d)
  BY DEF CliOK
<1>2. Linked(c, s) => Linked(d, s)
  BY SameLinked DEF Same
<1> QED
  BY <1>1, <1>2 DEF CliStep

LEMMA AnswersCount ==
  ASSUME NEW c \in Client, c.answers < MaxAnswers
  PROVE  c.answers + 1 \in 0..MaxAnswers
<1>1. c.answers \in 0..MaxAnswers
  BY ClientTypes
<1> QED
  BY <1>1, AuthAssumption

Counted(c) == [c EXCEPT !.answers = @ + 1]

LEMMA AnswerPasswordStep ==
  ASSUME NEW c, NEW s, NEW d, CliOK(c), c.ev = "Password", c.err = "ok",
         \/ /\ c.answers < MaxAnswers
            /\ d = Counted(ResumePassword(c, TRUE))
         \/ d = ResumePassword(c, FALSE)
  PROVE  CliStep(c, d, s)
<1>1. /\ c \in Client /\ c.out \in Seq(Message)
      /\ c.ev \in CliResumable \ {"Username"}
  BY DEF CliOK, Client, CliResumable
<1>2. CASE /\ c.answers < MaxAnswers
           /\ d = Counted(ResumePassword(c, TRUE))
  <2> DEFINE p == UserauthRequest(c.user, "password", NoKey, "absent")
             n == c.answers + 1
             o == Append(c.out, p)
  <2>1. p = UserauthRequest(c.user, "password", NoKey, "absent")
    OBVIOUS
  <2>2. n \in 0..MaxAnswers
    BY <1>1, <1>2, AnswersCount
  <2> HIDE DEF p
  <2>3. /\ p \in Message /\ p.t = "UserauthRequest" /\ p.u = c.user
        /\ p.m = "password" /\ p.k = NoKey /\ p.s = "absent"
    BY <1>1, <2>1, PasswordTyped
  <2>4. o \in Seq(Message) /\ o = Append(c.out, p)
    BY <1>1, <2>3
  <2> HIDE DEF o, n
  <2> DEFINE r == [Resumed(c) EXCEPT !.authType = "Password",
                                     !.state = "Request", !.key = NoKey]
  <2>5. /\ r \in Client /\ r.out = c.out /\ r.answers = c.answers
        /\ r.key = NoKey /\ r.state = "Request" /\ r.user = c.user
        /\ r.conn = c.conn /\ r.rx = NoPayload /\ r.ev = "None"
        /\ r.extra = c.extra /\ r.err = "ok"
    BY ZenonT(60), <1>1 DEF Client, Resumed
  <2>6. d = [[r EXCEPT !.out = Append(@, p)] EXCEPT !.answers = @ + 1]
    BY <1>2, <2>1 DEF ResumePassword, Send, Counted
  <2> HIDE DEF r
  <2>7. d = [[r EXCEPT !.out = o] EXCEPT !.answers = n]
    <3>1. [r EXCEPT !.out = o].answers = r.answers
      BY ZenonT(60), <2>5 DEF Client
    <3> QED
      BY ZenonT(60), <2>4, <2>5, <2>6, <3>1 DEF n
  <2> DEFINE f == [r EXCEPT !.out = o]
  <2>71. /\ f \in Client /\ f.out = o /\ f.key = NoKey
         /\ f.state = "Request" /\ f.user = r.user /\ f.conn = r.conn
         /\ f.rx = NoPayload /\ f.ev = "None" /\ f.extra = r.extra
         /\ f.err = "ok"
    BY ZenonT(60), <2>4, <2>5 DEF Client
  <2> HIDE DEF f
  <2>72. d = [f EXCEPT !.answers = n]
    BY <2>7 DEF f
  <2>8. /\ d \in Client /\ d.out = o /\ d.key = NoKey /\ d.state = "Request"
        /\ d.user = c.user /\ d.conn = c.conn /\ d.rx = NoPayload
        /\ d.ev = "None" /\ d.extra = c.extra /\ d.err = "ok"
    BY ZenonT(60), <2>2, <2>5, <2>71, <2>72 DEF Client
  <2>9. p \in Proper /\ IsRequest(p)
    BY <2>3 DEF Proper, IsRequest
  <2> QED
    BY <1>1, <2>3, <2>4, <2>8, <2>9, SendRequestStep
<1>3. CASE d = ResumePassword(c, FALSE)
  <2>1. d = [[c EXCEPT !.tryPassword = FALSE] EXCEPT !.err = "NoAuthMethods"]
    BY <1>3 DEF ResumePassword, Fail
  <2>2. /\ d \in Client /\ d.err = "NoAuthMethods" /\ d.key = c.key
        /\ d.state = c.state /\ d.out = c.out /\ d.user = c.user
        /\ d.conn = c.conn /\ d.rx = c.rx /\ d.ev = c.ev
        /\ d.extra = c.extra /\ d.authType = c.authType
    BY ZenonT(60), <1>1, <2>1 DEF Client, CliErrors
  <2> QED
    BY <2>2, GiveUpStep
<1> QED
  BY ZenonT(60), <1>2, <1>3

LEMMA AnswerPubkeyStep ==
  ASSUME NEW c, NEW s, NEW d, CliOK(c), c.ev = "Pubkey", c.err = "ok",
         NEW k \in Keys, c.answers < MaxAnswers,
         d = Counted(ResumePubkey(c, k))
  PROVE  CliStep(c, d, s)
<1> DEFINE n == c.answers + 1
<1>1. /\ c \in Client /\ c.out \in Seq(Message) /\ n \in 0..MaxAnswers
      /\ c.ev \in CliResumable \ {"Username"}
  BY AnswersCount DEF CliOK, Client, CliResumable
<1>11. n \in 0..MaxAnswers
  BY <1>1
<1>2. k # NoKey
  BY AuthAssumption
<1>3. CASE k \in RsaKeys /\ ~c.allowRsa
  <2> DEFINE r == [c EXCEPT !.extra = "Pubkey"]
             t == Resumed(r)
  <2>1. /\ t \in Client /\ t.answers = c.answers
        /\ t.key = c.key /\ t.state = c.state /\ t.out = c.out
        /\ t.user = c.user /\ t.conn = c.conn /\ t.rx = NoPayload
        /\ t.ev = "None" /\ t.err = "ok"
    BY ZenonT(60), <1>1 DEF Client, Resumed
  <2>2. d = [t EXCEPT !.answers = n]
    BY ZenonT(60), <1>2, <1>3, <2>1 DEF ResumePubkey, Counted
  <2> HIDE DEF t, n
  <2>3. /\ d \in Client /\ d.key = c.key /\ d.state = c.state
        /\ d.out = c.out /\ d.user = c.user /\ d.conn = c.conn
        /\ d.rx = NoPayload /\ d.ev = "None" /\ d.err = "ok"
    BY ZenonT(60), <1>1, <2>1, <2>2 DEF Client
  <2> QED
    BY ZenonT(60), <1>1, <2>3, ExtraStep
<1>4. CASE ~(k \in RsaKeys /\ ~c.allowRsa)
  <2> DEFINE p == UserauthRequest(c.user, "publickey", k, "absent")
             o == Append(c.out, p)
             r == [Resumed(c) EXCEPT !.authType = "PubKey",
                                     !.state = "RequestKey", !.key = k]
  <2>1. d = [[r EXCEPT !.out = Append(@, p)] EXCEPT !.answers = @ + 1]
    BY ZenonT(60), <1>2, <1>4 DEF ResumePubkey, SendPubkey, Send, Counted
  <2>2. p = UserauthRequest(c.user, "publickey", k, "absent")
    OBVIOUS
  <2> HIDE DEF p
  <2>3. /\ p \in Message /\ p.t = "UserauthRequest" /\ p.u = c.user
        /\ p.m = "publickey" /\ p.k = k /\ p.s = "absent"
    BY <1>1, <2>2, QueryTyped
  <2>4. o \in Seq(Message) /\ o = Append(c.out, p)
    BY <1>1, <2>3
  <2> HIDE DEF o, n
  <2>5. /\ r \in Client /\ r.out = c.out /\ r.answers = c.answers
        /\ r.key = k /\ r.state = "RequestKey" /\ r.authType = "PubKey"
        /\ r.user = c.user /\ r.conn = c.conn /\ r.rx = NoPayload
        /\ r.ev = "None" /\ r.extra = c.extra /\ r.err = "ok"
    BY ZenonT(60), <1>1 DEF Client, Resumed
  <2> HIDE DEF r
  <2>6. d = [[r EXCEPT !.out = o] EXCEPT !.answers = n]
    <3>1. [r EXCEPT !.out = o].answers = r.answers
      BY ZenonT(60), <2>5 DEF Client
    <3> QED
      BY ZenonT(60), <2>1, <2>4, <2>5, <3>1 DEF n
  <2> DEFINE f == [r EXCEPT !.out = o]
  <2>61. /\ f \in Client /\ f.out = o /\ f.key = k
         /\ f.state = "RequestKey" /\ f.authType = "PubKey"
         /\ f.user = r.user /\ f.conn = r.conn /\ f.rx = NoPayload
         /\ f.ev = "None" /\ f.extra = r.extra /\ f.err = "ok"
    BY ZenonT(60), <2>4, <2>5 DEF Client
  <2> HIDE DEF f
  <2>62. d = [f EXCEPT !.answers = n]
    BY ZenonT(60), <2>6 DEF f
  <2>7. /\ d \in Client /\ d.out = o /\ d.key = k /\ d.state = "RequestKey"
        /\ d.authType = "PubKey"
        /\ d.user = c.user /\ d.conn = c.conn /\ d.rx = NoPayload
        /\ d.ev = "None" /\ d.extra = c.extra /\ d.err = "ok"
    BY ZenonT(60), <1>11, <2>5, <2>61, <2>62 DEF Client
  <2>8. p \in Proper /\ IsRequest(p) /\ Asked(d, p.k)
    BY <2>3, <2>7 DEF Proper, IsRequest, Asked
  <2>9. d.key # NoKey <=> d.state = "RequestKey"
    BY <1>2, <2>7
  <2> QED
    BY ZenonT(60), <1>1, <2>3, <2>4, <2>7, <2>8, <2>9, SendRequestStep
<1> QED
  BY <1>3, <1>4

LEMMA SkipPubkeyStep ==
  ASSUME NEW c, NEW s, NEW d, CliOK(c), c.ev = "Pubkey", c.err = "ok",
         d = ResumePubkey(c, NoKey)
  PROVE  CliStep(c, d, s)
<1>1. c \in Client /\ c.ev \in CliResumable \ {"Username"}
  BY DEF CliOK, CliResumable
<1>2. CASE c.tryPassword
  <2>1. d = Resumed([[c EXCEPT !.tryPubkey = FALSE]
                       EXCEPT !.extra = "Password"])
    BY <1>2 DEF ResumePubkey
  <2>2. /\ d \in Client /\ d.key = c.key /\ d.state = c.state
        /\ d.out = c.out /\ d.user = c.user /\ d.conn = c.conn
        /\ d.rx = NoPayload /\ d.ev = "None" /\ d.err = "ok"
    BY ZenonT(60), <1>1, <2>1 DEF Client, Resumed
  <2> QED
    BY <1>1, <2>2, ExtraStep
<1>3. CASE ~c.tryPassword
  <2>1. d = [[c EXCEPT !.tryPubkey = FALSE] EXCEPT !.err = "NoAuthMethods"]
    BY <1>3 DEF ResumePubkey, Fail
  <2>2. /\ d \in Client /\ d.err = "NoAuthMethods" /\ d.key = c.key
        /\ d.state = c.state /\ d.out = c.out /\ d.user = c.user
        /\ d.conn = c.conn /\ d.rx = c.rx /\ d.ev = c.ev
        /\ d.extra = c.extra /\ d.authType = c.authType
    BY ZenonT(60), <1>1, <2>1 DEF Client, CliErrors
  <2> QED
    BY <2>2, GiveUpStep
<1> QED
  BY <1>2, <1>3

LEMMA AnswerAgentSignStep ==
  ASSUME NEW c, NEW s, NEW d, CliOK(c), c.ev = "AgentSign", c.err = "ok",
         NEW sig \in Signatures, d = ResumeAgentSign(c, sig)
  PROVE  CliStep(c, d, s)
<1> DEFINE r == Resumed([c EXCEPT !.authType = "None"])
<1>1. /\ c \in Client /\ c.out \in Seq(Message) /\ c.state = "RequestKey"
      /\ c.ev \in CliResumable \ {"Username"}
  BY DEF CliOK, Client, CliResumable
<1>2. /\ r \in Client /\ r.key = c.key /\ r.state = c.state
      /\ r.out = c.out /\ r.user = c.user /\ r.conn = c.conn
      /\ r.rx = NoPayload /\ r.ev = "None" /\ r.err = "ok"
      /\ r.extra = c.extra
  BY ZenonT(60), <1>1 DEF Client, Resumed
<1>3. CASE sig = "absent"
  <2>1. d = [r EXCEPT !.extra = "Pubkey"]
    BY <1>1, <1>3 DEF ResumeAgentSign
  <2> HIDE DEF r
  <2>2. /\ d \in Client /\ d.key = c.key /\ d.state = c.state
        /\ d.out = c.out /\ d.user = c.user /\ d.conn = c.conn
        /\ d.rx = NoPayload /\ d.ev = "None" /\ d.err = "ok"
    BY ZenonT(60), <1>2, <2>1 DEF Client
  <2> QED
    BY <1>1, <2>2, ExtraStep
<1>4. CASE sig # "absent"
  <2> DEFINE p == Signed(c, sig)
             o == Append(c.out, p)
  <2>1. d = [r EXCEPT !.out = Append(@, p)]
    BY <1>1, <1>4 DEF ResumeAgentSign, Send
  <2> HIDE DEF r
  <2>2. /\ p \in Message /\ IsRequest(p) /\ p.u = c.user /\ p.k = c.key
        /\ p.m = "publickey" /\ p.s = sig
    BY <1>1, SignedTyped
  <2> HIDE DEF p
  <2>3. o \in Seq(Message) /\ o = Append(c.out, p)
    BY <1>1, <2>2
  <2>4. d = [r EXCEPT !.out = o]
    BY ZenonT(60), <1>2, <2>1
  <2> HIDE DEF o
  <2>5. /\ d \in Client /\ d.key = c.key /\ d.state = c.state
        /\ d.out = o /\ d.user = c.user /\ d.conn = c.conn
        /\ d.rx = NoPayload /\ d.ev = "None" /\ d.err = "ok"
        /\ d.extra = c.extra
    BY ZenonT(60), <1>2, <2>3, <2>4 DEF Client
  <2>6. p \in Proper /\ p.k \in Keys
    BY <1>1, <2>2, ClientTypes DEF Proper, CliOK
  <2>7. d.key # NoKey <=> d.state = "RequestKey"
    BY <2>5 DEF CliOK
  <2> QED
    BY ZenonT(60), <1>1, <1>4, <2>2, <2>3, <2>5, <2>6, <2>7, SendRequestStep
<1> QED
  BY <1>3, <1>4

-----------------------------------------------------------------------------
(* The client's actions.                                                   *)

LEMMA LinkedNamed ==
  ASSUME NEW c \in Client, NEW s, Linked(c, s)
  PROVE  All(c.out, Named)
<1>1. \A p \in FromClient(c) : p \in Named
  BY ClientTypes DEF FromClient, Named, Proper, IsRequest
<1> QED
  BY <1>1 DEF Linked, All

LEMMA CliStepInv ==
  ASSUME Inv, CliHere, CliStep(cli, cli', srv),
         UNCHANGED <<link, srv, sent, hist>>
  PROVE  Inv'
<1>1. CliOK(cli') /\ (link = "sunset" => Linked(cli', srv))
  BY DEF CliStep, Inv
<1>2. link \in {"sunset", "otherServer"}
  BY AuthAssumption DEF Inv, CliHere
<1>3. cli' \in Client
  BY <1>1 DEF CliOK
<1>4. link = "sunset" => All(cli'.out, Named)
  BY <1>1, <1>3, LinkedNamed
<1> QED
  BY <1>1, <1>2, <1>4 DEF Inv

LEMMA CliProgressInv ==
  ASSUME Inv, CliProgress
  PROVE  Inv'
<1>1. CliStep(cli, CliRunnerProgress(cli), srv)
  BY CliRunnerProgressStep DEF Inv, CliProgress, CliHere
<1> QED
  BY <1>1, CliStepInv DEF CliProgress

LEMMA CliAnswerInv ==
  ASSUME Inv, CliAnswer
  PROVE  Inv'
<1>1. CliOK(cli)
  BY DEF Inv
<1>2. ASSUME AnswerUsername PROVE Inv'
  <2>1. CliStep(cli, cli', srv)
    BY <1>1, <1>2, ResumeUsernameStep DEF AnswerUsername, CliHere
  <2> QED
    BY <1>2, <2>1, CliStepInv DEF AnswerUsername
<1>3. ASSUME AnswerPassword PROVE Inv'
  <2>1. CliStep(cli, cli', srv)
    <3>1. /\ cli.ev = "Password" /\ cli.err = "ok"
          /\ \/ /\ cli.answers < MaxAnswers
                /\ cli' = Counted(ResumePassword(cli, TRUE))
             \/ cli' = ResumePassword(cli, FALSE)
      BY ZenonT(60), <1>3 DEF AnswerPassword, CliHere, Counted
    <3> QED
      BY ZenonT(60), <1>1, <3>1, AnswerPasswordStep
  <2> QED
    BY <1>3, <2>1, CliStepInv DEF AnswerPassword
<1>4. ASSUME AnswerPubkey PROVE Inv'
  <2>1. ASSUME cli.answers < MaxAnswers, NEW k \in Keys,
               cli' = Counted(ResumePubkey(cli, k))
        PROVE  CliStep(cli, cli', srv)
    BY <1>1, <1>4, <2>1, AnswerPubkeyStep DEF AnswerPubkey, CliHere
  <2>2. ASSUME cli' = ResumePubkey(cli, NoKey) PROVE CliStep(cli, cli', srv)
    BY <1>1, <1>4, <2>2, SkipPubkeyStep DEF AnswerPubkey, CliHere
  <2>3. CliStep(cli, cli', srv)
    BY <1>4, <2>1, <2>2 DEF AnswerPubkey, Counted
  <2> QED
    BY <1>4, <2>3, CliStepInv DEF AnswerPubkey
<1>5. ASSUME AnswerAgentSign PROVE Inv'
  <2>1. CliStep(cli, cli', srv)
    BY <1>1, <1>5, AnswerAgentSignStep DEF AnswerAgentSign, CliHere
  <2> QED
    BY <1>5, <2>1, CliStepInv DEF AnswerAgentSign
<1>6. ASSUME DropEvent PROVE Inv'
  <2>1. CliStep(cli, cli', srv)
    BY <1>1, <1>6, FailStep DEF DropEvent, CliHere
  <2> QED
    BY <1>6, <2>1, CliStepInv DEF DropEvent
<1> QED
  BY <1>2, <1>3, <1>4, <1>5, <1>6 DEF CliAnswer

\* A message is taken from the server's output
LEMMA CliInputInv ==
  ASSUME Inv, CliInput
  PROVE  Inv'
<1> DEFINE q == srv.out
           p == Head(q)
           d == [cli EXCEPT !.rx = p]
           t == [srv EXCEPT !.out = Tail(q)]
<1>1. /\ cli \in Client /\ srv \in Server /\ q \in Seq(Message) /\ q # <<>>
      /\ cli.rx = NoPayload /\ cli.ev \notin CliResumable
  BY DEF Inv, CliOK, SrvOK, Server, CliInput
<1>2. p \in Message /\ Tail(q) \in Seq(Message)
  BY <1>1
<1>3. cli' = d /\ srv' = t /\ UNCHANGED <<link, sent, hist>>
  BY DEF CliInput
<1> HIDE DEF p
<1>4. /\ d \in Client /\ d.rx = p /\ d.key = cli.key /\ d.state = cli.state
      /\ d.ev = cli.ev /\ d.out = cli.out /\ d.user = cli.user
      /\ d.authType = cli.authType /\ d.conn = cli.conn
      /\ d.extra = cli.extra /\ d.err = cli.err
  BY ZenonT(60), <1>1, <1>2 DEF Client
<1> DEFINE r == Tail(q)
<1>5. /\ t \in Server /\ t.out = r /\ t.rx = srv.rx /\ t.ev = srv.ev
      /\ t.conn = srv.conn /\ t.authed = srv.authed /\ t.user = srv.user
      /\ t.triedFirst = srv.triedFirst /\ t.password = srv.password
      /\ t.pubkey = srv.pubkey /\ t.err = srv.err
  BY ZenonT(60), <1>1, <1>2 DEF Server
<1> HIDE DEF d, t, r
<1>6. CliOK(d) /\ SrvOK(t) /\ HistInv(hist, t)
  BY ZenonT(60), <1>4, <1>5 DEF Inv, CliOK, SrvOK, HistInv
<1>7. ASSUME Linked(cli, srv) PROVE Linked(d, t)
  <2>1. FromServer(d) = FromServer(cli) /\ FromClient(d) = FromClient(cli)
    BY SMTT(30), <1>4 DEF FromServer, FromClient, Asked
  <2>2. All(q, FromServer(d))
    BY <1>7, <2>1 DEF Linked
  <2>3. p \in FromServer(d) /\ All(r, FromServer(d))
    BY <1>1, <2>2, TailFacts DEF p, r
  <2>4. None(q, Answers) => p \notin Answers /\ None(r, Answers)
    BY Zenon, <1>1, TailFacts DEF p, r
  <2>5. One(r, Answers) /\ (p \in Answers => None(r, Answers))
    BY Zenon, <1>1, <1>7, TailFacts DEF Linked, TokenInv, p, r
  <2>6. None(q, Successes) => p \notin Successes /\ None(r, Successes)
    BY <1>1, TailFacts DEF p, r
  <2>7. TokenInv(d, t)
    BY Zenon, <1>1, <1>4, <1>5, <1>7, <2>4, <2>5 DEF Linked, TokenInv
  <2>8. StartInv(d, t)
    BY Zenon, <1>4, <1>5, <1>7 DEF Linked, StartInv
  <2>9. \/ t.authed
        \/ /\ d.conn = "PreAuth" /\ d.rx \notin Successes
           /\ None(t.out, Successes)
    BY <1>4, <1>5, <1>7, <2>6 DEF Linked
  <2> QED
    BY SMTT(30), <1>4, <1>5, <1>7, <2>1, <2>3, <2>7, <2>8, <2>9 DEF Linked
<1> QED
  BY <1>3, <1>4, <1>6, <1>7 DEF Inv

-----------------------------------------------------------------------------
(* Steps of the server.                                                    *)

LEMMA ServerTypes ==
  ASSUME NEW s \in Server
  PROVE  /\ s.conn \in {"PreAuth", "Authed"} /\ s.authed \in BOOLEAN
         /\ s.triedFirst \in BOOLEAN /\ s.user \in Users \cup {NoUser}
         /\ s.password \in BOOLEAN /\ s.pubkey \in BOOLEAN
         /\ s.rx \in Message \cup {NoPayload}
         /\ s.ev \in ServResumable \cup {"None", "Authenticated"}
         /\ s.extra \in {"None", "Authenticated"} /\ s.out \in Seq(Message)
         /\ s.err \in {"ok", "SSHProto", "SSHProtoUnsupported"}
  BY DEF Server

LEMMA ServResumableFacts ==
  /\ "None" \notin ServResumable /\ "Authenticated" \notin ServResumable
  /\ ServResumable = {"FirstAuth", "PasswordAuth", "PubkeyQuery",
                      "PubkeySigned"}
  BY DEF ServResumable

\* A step of the server from s to t, with the application's history h, which
\* becomes g, and the client in c
SrvStep(s, t, h, g, c) ==
  SrvOK(t) /\ HistInv(g, t) /\ (Linked(c, s) => Linked(c, t))

\* The request is no longer at the server, and nothing else changes
LEMMA SrvSameLinked ==
  ASSUME NEW c, NEW s, NEW t, Linked(c, s),
         t.out = s.out, t.authed = s.authed, t.user = s.user,
         t.err = s.err, t.rx \in {s.rx, NoPayload}
  PROVE  Linked(c, t)
<1>1. NoPayload \notin Requests
  BY NoPayloadFacts DEF Requests
<1>2. StartInv(c, t)
  BY Zenon DEF Linked, StartInv
<1>3. TokenInv(c, t)
  BY Zenon, <1>1 DEF Linked, TokenInv
<1> QED
  BY <1>2, <1>3 DEF Linked

\* The request is answered
LEMMA SrvAnswered ==
  ASSUME NEW c, NEW s, NEW t, NEW p, Linked(c, s), s.rx \in Requests,
         s.out \in Seq(Message), p \in FromServer(c),
         t.out = Append(s.out, p), t.rx = NoPayload, t.err = "ok",
         s.authed => t.authed,
         t.authed \/ p \notin Successes, t.user = s.rx.u \/ t.user = s.user
  PROVE  Linked(c, t)
<1>1. NoPayload \notin Requests /\ s.rx # NoPayload
  BY Zenon, NoPayloadFacts DEF Requests, Message
<1>2. s.rx \in FromClient(c) /\ s.rx.u = c.user
  BY <1>1 DEF Linked, FromClient, Requests, IsRequest
<1>3. p \in Message
  BY Zenon DEF FromServer
<1>4. /\ None(s.out, Answers) /\ None(c.out, Requests)
      /\ c.rx \notin Answers /\ c.ev \notin CliResumable /\ c.extra = "None"
  BY Zenon DEF Linked, TokenInv
<1>5. All(t.out, FromServer(c)) /\ One(t.out, Answers)
  BY <1>3, <1>4, AppendFacts DEF Linked
<1>6. None(s.out, Successes) /\ p \notin Successes => None(t.out, Successes)
  BY <1>3, AppendFacts
<1>7. StartInv(c, t)
  BY Zenon, <1>2 DEF Linked, StartInv
<1>8. TokenInv(c, t)
  BY Zenon, <1>1, <1>4, <1>5 DEF Linked, TokenInv
<1>9. \/ t.authed
      \/ /\ c.conn = "PreAuth" /\ c.rx \notin Successes
         /\ None(t.out, Successes)
  BY <1>6 DEF Linked
<1> QED
  BY <1>5, <1>7, <1>8, <1>9 DEF Linked

\* A payload and its event end
LEMMA SrvResumedStep ==
  ASSUME NEW s, NEW h, NEW c, SrvOK(s), HistInv(h, s)
  PROVE  /\ SrvStep(s, Resumed(s), h, h, c) /\ Resumed(s).ev = "None"
         /\ Resumed(s).err = s.err /\ Resumed(s).extra = s.extra
<1> DEFINE t == Resumed(s)
<1>1. s \in Server
  BY DEF SrvOK
<1>2. /\ t \in Server /\ t.out = s.out /\ t.rx = NoPayload /\ t.ev = "None"
      /\ t.conn = s.conn /\ t.authed = s.authed /\ t.user = s.user
      /\ t.triedFirst = s.triedFirst /\ t.password = s.password
      /\ t.pubkey = s.pubkey /\ t.err = s.err /\ t.extra = s.extra
  BY ZenonT(60), <1>1 DEF Server, Resumed
<1> HIDE DEF t
<1>3. SrvOK(t) /\ HistInv(h, t)
  BY ZenonT(60), <1>2, ServResumableFacts DEF SrvOK, HistInv
<1>4. Linked(c, s) => Linked(c, t)
  BY <1>2, SrvSameLinked
<1> QED
  BY <1>2, <1>3, <1>4 DEF SrvStep, t

LEMMA SrvHandledStep ==
  ASSUME NEW s, NEW h, NEW c, SrvOK(s), HistInv(h, s), s.ev = "None"
  PROVE  SrvStep(s, Handled(s), h, h, c) /\ Handled(s).ev = "None"
<1> DEFINE t == [s EXCEPT !.rx = NoPayload]
<1>1. s \in Server
  BY DEF SrvOK
<1>2. /\ t \in Server /\ t.out = s.out /\ t.rx = NoPayload /\ t.ev = "None"
      /\ t.conn = s.conn /\ t.authed = s.authed /\ t.user = s.user
      /\ t.triedFirst = s.triedFirst /\ t.password = s.password
      /\ t.pubkey = s.pubkey /\ t.err = s.err
  BY ZenonT(60), <1>1 DEF Server
<1>3. Handled(s) = s \/ Handled(s) = t
  BY DEF Handled
<1> HIDE DEF t
<1>4. SrvOK(t) /\ HistInv(h, t)
  BY ZenonT(60), <1>2, ServResumableFacts DEF SrvOK, HistInv
<1>5. Linked(c, s) => Linked(c, t)
  BY <1>2, SrvSameLinked
<1> QED
  BY <1>2, <1>3, <1>4, <1>5 DEF SrvStep

\* An error, which another end of this library does not cause
LEMMA SrvFailStep ==
  ASSUME NEW s, NEW h, NEW c, SrvOK(s), HistInv(h, s), s.ev = "None",
         NEW e \in {"SSHProto", "SSHProtoUnsupported"}, ~Linked(c, s)
  PROVE  /\ SrvStep(s, Handled(Fail(s, e)), h, h, c)
         /\ Handled(Fail(s, e)).ev = "None"
<1> DEFINE t == Fail(s, e)
<1>1. s \in Server
  BY DEF SrvOK
<1>2. /\ t \in Server /\ t.out = s.out /\ t.rx = s.rx /\ t.ev = "None"
      /\ t.conn = s.conn /\ t.authed = s.authed /\ t.user = s.user
      /\ t.triedFirst = s.triedFirst /\ t.password = s.password
      /\ t.pubkey = s.pubkey /\ t.err = e
  BY ZenonT(60), <1>1 DEF Server, Fail
<1> HIDE DEF t
<1>3. SrvOK(t) /\ HistInv(h, t)
  BY ZenonT(60), <1>2, ServResumableFacts DEF SrvOK, HistInv
<1>4. Handled(t) = t
  BY <1>2 DEF Handled, Running
<1> QED
  BY <1>2, <1>3, <1>4 DEF SrvStep, t

LEMMA FromServerFacts ==
  ASSUME NEW c, NEW p \in Message
  PROVE  /\ p.t \in {"ServiceAccept", "ExtInfo"} =>
              p \in FromServer(c) /\ p \notin Answers /\ p \notin Successes
         /\ p.t \in {"UserauthFailure", "UserauthSuccess"} /\ c.user # NoUser
              => p \in FromServer(c)
         /\ p.t # "UserauthSuccess" => p \notin Successes
  BY DEF FromServer, Answers, Successes, IsAnswer

LEMMA ServiceRequestedStep ==
  ASSUME NEW s, NEW h, NEW c, SrvOK(s), HistInv(h, s), s.ev = "None",
         s.err = "ok", s.rx \in Message, s.rx.t = "ServiceRequest"
  PROVE  /\ SrvStep(s, Handled(ServiceRequested(s)), h, h, c)
         /\ Handled(ServiceRequested(s)).ev = "None"
<1>1. s \in Server /\ s.out \in Seq(Message)
  BY DEF SrvOK, Server
<1>2. CASE s.rx.m = "userauth" \/ (s.rx.m = "connection" /\ s.authed)
  <2> DEFINE p == Msg("ServiceAccept")
             o == Append(s.out, p)
             t == [s EXCEPT !.out = o]
             g == [t EXCEPT !.rx = NoPayload]
  <2>1. p \in Message /\ p.t = "ServiceAccept"
    BY MsgTyped
  <2>2. ServiceRequested(s) = t
    BY <1>2 DEF ServiceRequested, Send
  <2> HIDE DEF p
  <2>3. o \in Seq(Message)
    BY <1>1, <2>1
  <2>4. t \in Server /\ t.err = "ok" /\ t.ev = "None"
    BY ZenonT(60), <1>1, <2>3 DEF Server
  <2>5. /\ g \in Server /\ g.out = o /\ g.rx = NoPayload /\ g.ev = "None"
        /\ g.conn = s.conn /\ g.authed = s.authed /\ g.user = s.user
        /\ g.triedFirst = s.triedFirst /\ g.password = s.password
        /\ g.pubkey = s.pubkey /\ g.err = s.err
    BY ZenonT(60), <1>1, <2>3 DEF Server
  <2>6. Handled(t) = g
    BY <2>4 DEF Handled, Running
  <2> HIDE DEF t, g
  <2>7. SrvOK(g) /\ HistInv(h, g)
    BY ZenonT(60), <2>5, ServResumableFacts DEF SrvOK, HistInv
  <2>8. ASSUME Linked(c, s) PROVE Linked(c, g)
    <3>1. p \in FromServer(c) /\ p \notin Answers /\ p \notin Successes
      BY Zenon, <2>1, FromServerFacts
    <3>2. /\ All(g.out, FromServer(c)) /\ One(g.out, Answers)
          /\ None(s.out, Answers) => None(g.out, Answers)
          /\ None(s.out, Successes) => None(g.out, Successes)
      BY <1>1, <2>1, <2>5, <2>8, <3>1, AppendFacts DEF Linked, TokenInv
    <3>3. s.rx \notin Requests /\ NoPayload \notin Requests
      BY Zenon, NoPayloadFacts DEF Requests, IsRequest
    <3>4. StartInv(c, g)
      BY SMTT(30), <2>5, <2>8 DEF Linked, StartInv
    <3>5. TokenInv(c, g)
      BY ZenonT(60), <2>5, <2>8, <3>2, <3>3 DEF Linked, TokenInv
    <3> QED
      BY <2>5, <2>8, <3>2, <3>4, <3>5 DEF Linked
  <2> QED
    BY <2>2, <2>5, <2>6, <2>7, <2>8 DEF SrvStep
<1>3. CASE ~(s.rx.m = "userauth" \/ (s.rx.m = "connection" /\ s.authed))
  <2>1. ServiceRequested(s) = Fail(s, "SSHProto")
    BY Zenon, <1>3 DEF ServiceRequested
  <2>2. ~Linked(c, s)
    BY <1>3, MessageTypes DEF Linked, FromClient, IsRequest
  <2> QED
    BY <2>1, <2>2, SrvFailStep
<1> QED
  BY <1>2, <1>3

\* What a request asks of the application
LEMMA RequestEventFacts ==
  ASSUME NEW s, SrvOK(s), s.rx \in Requests \cap Proper, NEW n,
         n.rx = s.rx, n.password = s.password, n.pubkey = s.pubkey,
         n.triedFirst = s.triedFirst, NEW e, e = RequestEvent(n)
  PROVE  /\ e \in ServResumable \cup {"None"}
         /\ e = "PubkeyQuery" => s.rx.m = "publickey" /\ s.rx.s = "absent"
         /\ e # "None" => s.rx.s # "invalid"
         /\ e = "FirstAuth" => ~s.triedFirst
<1>1. s.rx.m # "publickey" => s.rx.s = "absent"
  BY DEF Proper
<1>2. CASE s.rx.m = "password" /\ s.password
  <2>1. e = "PasswordAuth"
    BY <1>2 DEF RequestEvent
  <2> QED
    BY <1>1, <1>2, <2>1, ServResumableFacts
<1>3. CASE s.rx.m = "publickey" /\ s.pubkey
  <2>1. e = RequestPubkey(n)
    BY <1>3 DEF RequestEvent
  <2> QED
    BY <1>3, <2>1, ServResumableFacts DEF RequestPubkey
<1>4. CASE /\ ~(s.rx.m = "password" /\ s.password)
           /\ ~(s.rx.m = "publickey" /\ s.pubkey)
  <2>1. e = IF s.triedFirst THEN "None" ELSE "FirstAuth"
    BY <1>4 DEF RequestEvent
  <2>2. ~s.triedFirst => s.rx.m # "publickey"
    BY <1>4 DEF SrvOK
  <2> QED
    BY <1>1, <2>1, <2>2, ServResumableFacts
<1> QED
  BY <1>2, <1>3, <1>4

\* The history once the application is shown the event of s
Shown(h, s) ==
  IF s.ev \in ServResumable
    THEN [h EXCEPT !.users = @ \cup {s.rx.u},
                   !.firsts = @ + (IF s.ev = "FirstAuth" THEN 1 ELSE 0)]
  ELSE h

LEMMA HistoryTypes ==
  ASSUME NEW h, NEW s, HistInv(h, s)
  PROVE  /\ h.users \in SUBSET Users /\ h.firsts \in 0..1
         /\ h.allowed \in SUBSET ServResumable /\ ~h.badSig
  BY ZenonT(60) DEF HistInv, Histories

LEMMA RequestStep ==
  ASSUME NEW s, NEW h, NEW c, SrvOK(s), HistInv(h, s), s.ev = "None",
         s.err = "ok", s.rx \in Message, s.rx.t = "UserauthRequest",
         NEW g, g = Handled(Request(s))
  PROVE  SrvStep(s, g, h, Shown(h, g), c)
<1> DEFINE Refused == \/ s.user # NoUser /\ s.user # s.rx.u
                      \/ s.user = NoUser /\ s.rx.u \in LongUsers
<1>1. /\ s \in Server /\ s.out \in Seq(Message)
      /\ s.rx \in Requests /\ s.rx \in Proper \cap Named
  BY MessageTypes DEF SrvOK, Server, Requests, IsRequest
<1>2. s.rx.u \in Users /\ s.rx.u # NoUser
  BY <1>1, AuthAssumption DEF Named, Requests
<1>3. CASE Refused
  <2>1. Request(s) = Fail(s, "SSHProtoUnsupported")
    BY Zenon, <1>3 DEF Request
  <2>2. ~Linked(c, s)
    <3>1. Linked(c, s) => s.rx \in FromClient(c)
      BY MessageTypes DEF Linked
    <3>2. Linked(c, s) => s.rx.u = c.user
      BY <3>1 DEF FromClient
    <3> QED
      BY Zenon, <1>3, <3>2 DEF Linked, StartInv
  <2>3. SrvStep(s, g, h, h, c) /\ g.ev = "None"
    BY <2>1, <2>2, SrvFailStep
  <2> QED
    BY <2>3, ServResumableFacts DEF Shown
<1>4. CASE ~Refused
  <2> DEFINE n == [s EXCEPT !.user = s.rx.u]
             e == RequestEvent(n)
             t == [n EXCEPT !.triedFirst = TRUE, !.ev = e]
  <2>1. \A u \in h.users : u = s.rx.u
    BY <1>2, <1>4, HistoryTypes, AuthAssumption DEF HistInv
  <2>2. /\ n \in Server /\ n.out = s.out /\ n.rx = s.rx /\ n.ev = "None"
        /\ n.conn = s.conn /\ n.authed = s.authed /\ n.user = s.rx.u
        /\ n.triedFirst = s.triedFirst /\ n.password = s.password
        /\ n.pubkey = s.pubkey /\ n.err = s.err
    BY ZenonT(60), <1>1, <1>2 DEF Server
  <2>3. Linked(c, s) => c.user # NoUser
    <3>1. Linked(c, s) => s.rx \in FromClient(c)
      BY MessageTypes DEF Linked
    <3> QED
      BY Zenon, <1>2, <3>1 DEF FromClient
  <2>4. CASE s.authed
    <3> DEFINE p == Msg("UserauthSuccess")
               o == Append(s.out, p)
               a == [n EXCEPT !.out = o]
               f == [a EXCEPT !.rx = NoPayload]
    <3>1. p \in Message /\ p.t = "UserauthSuccess"
      BY MsgTyped
    <3>2. Request(s) = a
      BY ZenonT(60), <1>4, <2>2, <2>4 DEF Request, Send
    <3> HIDE DEF p, n
    <3>3. o \in Seq(Message)
      BY <1>1, <3>1
    <3>4. a \in Server /\ a.err = "ok" /\ a.ev = "None"
      BY ZenonT(60), <2>2, <3>3 DEF Server
    <3>5. /\ f \in Server /\ f.out = o /\ f.rx = NoPayload /\ f.ev = "None"
          /\ f.conn = s.conn /\ f.authed = s.authed /\ f.user = s.rx.u
          /\ f.triedFirst = s.triedFirst /\ f.password = s.password
          /\ f.pubkey = s.pubkey /\ f.err = "ok"
      BY ZenonT(60), <2>2, <3>3 DEF Server
    <3>6. g = f
      BY <3>2, <3>4 DEF Handled, Running
    <3> HIDE DEF a, f
    <3>7. SrvOK(g) /\ HistInv(h, g)
      BY ZenonT(60), <2>1, <3>5, <3>6, ServResumableFacts DEF SrvOK, HistInv
    <3>8. ASSUME Linked(c, s) PROVE Linked(c, g)
      <4>1. p \in FromServer(c)
        BY <2>3, <3>1, <3>8, FromServerFacts
      <4> QED
        BY ZenonT(60), <1>1, <2>4, <3>5, <3>6, <3>8, <4>1, SrvAnswered
    <3>9. Shown(h, g) = h
      BY <3>5, <3>6, ServResumableFacts DEF Shown
    <3> QED
      BY <3>7, <3>8, <3>9 DEF SrvStep
  <2>5. CASE ~s.authed
    <3>1. /\ e \in ServResumable \cup {"None"}
          /\ e = "PubkeyQuery" => s.rx.m = "publickey" /\ s.rx.s = "absent"
          /\ e # "None" => s.rx.s # "invalid"
          /\ e = "FirstAuth" => ~s.triedFirst
      <4> HIDE DEF n
      <4> QED
        BY <1>1, <2>2, RequestEventFacts
    <3>2. Request(s) = IF t.ev = "None" THEN SendFailure(t) ELSE t
      BY <1>4, <2>2, <2>5 DEF Request
    <3> HIDE DEF n, e
    <3>3. /\ t \in Server /\ t.out = s.out /\ t.rx = s.rx /\ t.ev = e
          /\ t.conn = s.conn /\ t.authed = s.authed /\ t.user = s.rx.u
          /\ t.triedFirst = TRUE /\ t.password = s.password
          /\ t.pubkey = s.pubkey /\ t.err = s.err
      BY ZenonT(60), <2>2, <3>1 DEF Server
    <3> HIDE DEF t
    <3>4. CASE e = "None"
      <4> DEFINE p == UserauthFailure(AvailMethods(t))
                 o == Append(s.out, p)
                 a == [t EXCEPT !.out = o]
                 f == [a EXCEPT !.rx = NoPayload]
      <4>1. p \in Message /\ p.t = "UserauthFailure"
        BY UserauthFailureTyped DEF AvailMethods
      <4>2. Request(s) = a
        BY <3>2, <3>3, <3>4 DEF SendFailure, Send
      <4> HIDE DEF p
      <4>3. o \in Seq(Message)
        BY <1>1, <4>1
      <4>4. a \in Server /\ a.err = "ok" /\ a.ev = "None"
        BY ZenonT(60), <3>3, <3>4, <4>3 DEF Server
      <4>5. /\ f \in Server /\ f.out = o /\ f.rx = NoPayload
            /\ f.ev = "None" /\ f.conn = s.conn /\ f.authed = s.authed
            /\ f.user = s.rx.u /\ f.triedFirst = TRUE
            /\ f.password = s.password /\ f.pubkey = s.pubkey
            /\ f.err = "ok"
        BY ZenonT(60), <3>3, <3>4, <4>3 DEF Server
      <4>6. g = f
        BY <4>2, <4>4 DEF Handled, Running
      <4> HIDE DEF a, f
      <4>7. SrvOK(g) /\ HistInv(h, g)
        BY ZenonT(60), <2>1, <4>5, <4>6, ServResumableFacts DEF SrvOK, HistInv
      <4>8. ASSUME Linked(c, s) PROVE Linked(c, g)
        <5>1. p \in FromServer(c) /\ p \notin Successes
          BY <2>3, <4>1, <4>8, FromServerFacts
        <5> QED
          BY Zenon, <1>1, <4>5, <4>6, <4>8, <5>1, SrvAnswered
      <4>9. Shown(h, g) = h
        BY <4>5, <4>6, ServResumableFacts DEF Shown
      <4> QED
        BY <4>7, <4>8, <4>9 DEF SrvStep
    <3>5. CASE e # "None"
      <4> DEFINE m == h.firsts + (IF e = "FirstAuth" THEN 1 ELSE 0)
                 w == h.users \cup {s.rx.u}
                 k == [h EXCEPT !.users = w, !.firsts = m]
      <4>1. g = t /\ e \in ServResumable
        BY <3>1, <3>2, <3>3, <3>5 DEF Handled, Running
      <4>2. Shown(h, g) = k
        BY ZenonT(60), <3>3, <4>1 DEF Shown, HistInv, Histories
      <4>3. m \in 0..1
        BY <3>1, HistoryTypes DEF HistInv
      <4>4. w \in SUBSET Users /\ \A u \in w : u = s.rx.u
        BY <1>2, <2>1, HistoryTypes
      <4> HIDE DEF m, w
      <4>5. /\ k \in Histories
            /\ k.users = w /\ k.allowed = h.allowed
        BY ZenonT(60), <4>3, <4>4 DEF HistInv, Histories
      <4> HIDE DEF k
      <4>6. SrvOK(g)
        BY <1>1, <3>1, <3>3, <3>5, <4>1 DEF SrvOK
      <4>7. HistInv(k, g)
        BY ZenonT(60), <3>3, <4>1, <4>4, <4>5 DEF HistInv
      <4>8. ASSUME Linked(c, s) PROVE Linked(c, g)
        <5>1. s.rx \in FromClient(c) /\ s.rx.u = c.user
          BY Zenon, <1>1, <4>8, MessageTypes
          DEF Linked, FromClient, Requests, IsRequest
        <5>2. StartInv(c, g)
          BY Zenon, <3>3, <4>1, <4>8, <5>1 DEF Linked, StartInv
        <5>3. TokenInv(c, g)
          BY Zenon, <3>3, <4>1, <4>8 DEF Linked, TokenInv
        <5> QED
          BY Zenon, <3>3, <4>1, <4>8, <5>2, <5>3 DEF Linked
      <4> QED
        BY <4>2, <4>6, <4>7, <4>8 DEF SrvStep
    <3> QED
      BY Zenon, <3>4, <3>5
  <2> QED
    BY <2>4, <2>5
<1> QED
  BY <1>3, <1>4

LEMMA ServDispatchStep ==
  ASSUME NEW s, NEW h, NEW c, SrvOK(s), HistInv(h, s), s.ev = "None",
         s.err = "ok", s.rx \in Message, NEW g, g = Handled(ServDispatch(s))
  PROVE  SrvStep(s, g, h, Shown(h, g), c)
<1>1. s.rx.t \in {"ServiceRequest", "ServiceAccept", "UserauthRequest",
                  "UserauthFailure", "UserauthSuccess", "Userauth60",
                  "UserauthBanner", "ExtInfo"}
  BY MessageTypes
<1>2. ASSUME SrvStep(s, g, h, h, c), g.ev = "None"
      PROVE  SrvStep(s, g, h, Shown(h, g), c)
  BY <1>2, ServResumableFacts DEF Shown
<1>3. CASE s.rx.t \in {"ExtInfo", "ServiceAccept"}
  <2>1. g = Handled(s)
    BY Zenon, <1>3 DEF ServDispatch
  <2> QED
    BY <1>2, <2>1, SrvHandledStep
<1>4. CASE s.rx.t = "ServiceRequest"
  <2>1. g = Handled(ServiceRequested(s))
    BY Zenon, <1>4 DEF ServDispatch
  <2> QED
    BY <1>2, <1>4, <2>1, ServiceRequestedStep
<1>5. CASE s.rx.t = "UserauthRequest"
  <2>1. g = Handled(Request(s))
    BY <1>5 DEF ServDispatch
  <2> QED
    BY <1>5, <2>1, RequestStep
<1>6. CASE s.rx.t \in {"UserauthFailure", "UserauthSuccess", "Userauth60",
                       "UserauthBanner"}
  <2>1. g = Handled(Fail(s, "SSHProto"))
    BY Zenon, <1>6 DEF ServDispatch
  <2>2. ~Linked(c, s)
    BY <1>6, MessageTypes DEF Linked, FromClient, IsRequest
  <2> QED
    BY <1>2, <2>1, <2>2, SrvFailStep
<1> QED
  BY <1>1, <1>3, <1>4, <1>5, <1>6

\* Runner::progress() of the server
LEMMA ServRunnerProgressStep ==
  ASSUME NEW s, NEW h, NEW c, SrvOK(s), HistInv(h, s), s.err = "ok",
         s.ev \notin ServResumable, NEW g, g = ServRunnerProgress(s)
  PROVE  SrvStep(s, g, h, Shown(h, g), c)
<1>1. s \in Server
  BY DEF SrvOK
<1>2. CASE s.extra # "None"
  <2>1. s.extra = "Authenticated"
    BY <1>1, <1>2, ServerTypes
  <2>2. g = [s EXCEPT !.ev = "Authenticated", !.extra = "None"]
    BY <1>2, <2>1 DEF ServRunnerProgress
  <2>3. /\ g \in Server /\ g.out = s.out /\ g.rx = s.rx
        /\ g.ev = "Authenticated"
        /\ g.conn = s.conn /\ g.authed = s.authed /\ g.user = s.user
        /\ g.triedFirst = s.triedFirst /\ g.password = s.password
        /\ g.pubkey = s.pubkey /\ g.err = s.err
    BY ZenonT(60), <1>1, <2>2 DEF Server
  <2>4. SrvOK(g) /\ HistInv(h, g)
    BY ZenonT(60), <2>3, ServResumableFacts DEF SrvOK, HistInv
  <2>5. Linked(c, s) => Linked(c, g)
    BY <2>3, SrvSameLinked
  <2>6. Shown(h, g) = h
    BY <2>3, ServResumableFacts DEF Shown
  <2> QED
    BY <2>4, <2>5, <2>6 DEF SrvStep
<1>3. CASE s.extra = "None"
  <2> DEFINE t == Taken(s)
  <2>1. /\ SrvOK(t) /\ HistInv(h, t) /\ (Linked(c, s) => Linked(c, t))
        /\ t.ev = "None" /\ t.err = "ok"
    BY SrvResumedStep DEF Taken, SrvStep
  <2>2. g = IF t.rx = NoPayload THEN t ELSE Handled(ServDispatch(t))
    BY <1>3 DEF ServRunnerProgress
  <2> HIDE DEF t
  <2>3. CASE t.rx = NoPayload
    <3>1. g = t /\ Shown(h, g) = h
      BY <2>1, <2>2, <2>3, ServResumableFacts DEF Shown
    <3> QED
      BY <2>1, <3>1 DEF SrvStep
  <2>4. CASE t.rx # NoPayload
    <3>1. t.rx \in Message
      BY <2>1, <2>4, ServerTypes DEF SrvOK
    <3>2. SrvStep(t, g, h, Shown(h, g), c)
      BY <2>1, <2>2, <2>4, <3>1, ServDispatchStep
    <3> QED
      BY Zenon, <2>1, <3>2 DEF SrvStep
  <2> QED
    BY <2>3, <2>4
<1> QED
  BY <1>2, <1>3

-----------------------------------------------------------------------------
(* The server's actions.                                                   *)

LEMMA SrvStepInv ==
  ASSUME Inv, SrvStep(srv, srv', hist, hist', cli),
         UNCHANGED <<link, cli, sent>>
  PROVE  Inv'
  BY DEF Inv, SrvStep

LEMMA SrvProgressInv ==
  ASSUME Inv, SrvProgress
  PROVE  Inv'
<1>1. /\ SrvOK(srv) /\ HistInv(hist, srv) /\ srv.err = "ok"
      /\ srv.ev \notin ServResumable /\ srv' = ServRunnerProgress(srv)
  BY DEF Inv, SrvProgress, SrvHere
<1>2. SrvStep(srv, srv', hist, Shown(hist, srv'), cli)
  BY <1>1, ServRunnerProgressStep
<1>3. hist' = Shown(hist, srv') /\ UNCHANGED <<link, cli, sent>>
  BY DEF SrvProgress, Shown
<1> QED
  BY <1>2, <1>3, SrvStepInv

LEMMA SetAuthMethodsInv ==
  ASSUME Inv, SetAuthMethods
  PROVE  Inv'
<1> DEFINE s == srv
<1>1. /\ s \in Server /\ SrvOK(s) /\ HistInv(hist, s)
      /\ s.ev \in ServResumable
  BY DEF Inv, SrvOK, SetAuthMethods
<1>2. PICK pw \in BOOLEAN, pk \in BOOLEAN :
        srv' = [srv EXCEPT !.password = pw, !.pubkey = pk]
  BY ZenonT(60) DEF SetAuthMethods
<1> DEFINE t == [s EXCEPT !.password = pw, !.pubkey = pk]
<1>3. /\ t \in Server /\ t.out = s.out /\ t.rx = s.rx /\ t.ev = s.ev
      /\ t.conn = s.conn /\ t.authed = s.authed /\ t.user = s.user
      /\ t.triedFirst = s.triedFirst /\ t.err = s.err
  BY ZenonT(60), <1>1 DEF Server
<1> HIDE DEF t
<1>4. SrvOK(t) /\ HistInv(hist, t)
  BY ZenonT(60), <1>1, <1>3 DEF SrvOK, HistInv
<1>5. Linked(cli, s) => Linked(cli, t)
  BY <1>3, SrvSameLinked
<1>6. SrvStep(srv, t, hist, hist, cli)
  BY <1>4, <1>5 DEF SrvStep
<1>7. srv' = t /\ UNCHANGED <<link, cli, sent, hist>>
  BY <1>2 DEF t, SetAuthMethods
<1> QED
  BY <1>6, <1>7, SrvStepInv

\* A message is taken from the client's output
LEMMA SrvInputInv ==
  ASSUME Inv, SrvInput
  PROVE  Inv'
<1> DEFINE q == cli.out
           p == Head(q)
           r == Tail(q)
           d == [cli EXCEPT !.out = r]
           t == [srv EXCEPT !.rx = p]
<1>1. /\ cli \in Client /\ srv \in Server /\ q \in Seq(Message) /\ q # <<>>
      /\ srv.rx = NoPayload /\ srv.ev \notin ServResumable
      /\ link # "otherServer"
  BY DEF Inv, CliOK, SrvOK, Client, SrvInput, SrvHere
<1>2. p \in Message /\ r \in Seq(Message)
  BY <1>1
<1>3. cli' = d /\ srv' = t /\ UNCHANGED <<link, sent, hist>>
  BY Zenon DEF SrvInput
<1>4. /\ All(q, Proper) /\ All(q, Named)
      /\ p \in Proper \cap Named /\ All(r, Proper) /\ All(r, Named)
  BY <1>1, TailFacts DEF Inv, CliOK
<1> HIDE DEF p, r
<1>5. /\ d \in Client /\ d.rx = cli.rx /\ d.key = cli.key
      /\ d.state = cli.state /\ d.ev = cli.ev /\ d.out = r
      /\ d.user = cli.user /\ d.authType = cli.authType
      /\ d.conn = cli.conn /\ d.extra = cli.extra /\ d.err = cli.err
  BY ZenonT(60), <1>1, <1>2 DEF Client
<1>6. /\ t \in Server /\ t.out = srv.out /\ t.rx = p /\ t.ev = srv.ev
      /\ t.conn = srv.conn /\ t.authed = srv.authed /\ t.user = srv.user
      /\ t.triedFirst = srv.triedFirst /\ t.password = srv.password
      /\ t.pubkey = srv.pubkey /\ t.err = srv.err
  BY ZenonT(60), <1>1, <1>2 DEF Server
<1> HIDE DEF d, t
<1>7. CliOK(d) /\ SrvOK(t) /\ HistInv(hist, t)
  BY ZenonT(60), <1>1, <1>4, <1>5, <1>6, ServResumableFacts
  DEF Inv, CliOK, SrvOK, HistInv
<1>8. ASSUME Linked(cli, srv) PROVE Linked(d, t)
  <2>1. FromServer(d) = FromServer(cli) /\ FromClient(d) = FromClient(cli)
    BY Zenon, <1>5 DEF FromServer, FromClient, Asked
  <2>2. All(q, FromClient(d))
    BY <1>8, <2>1 DEF Linked
  <2>3. p \in FromClient(d) /\ All(r, FromClient(d))
    BY <1>1, <2>2, TailFacts DEF p, r
  <2>4. None(q, Requests) => p \notin Requests /\ None(r, Requests)
    BY Zenon, <1>1, TailFacts DEF p, r
  <2>5. One(r, Requests) /\ (p \in Requests => None(r, Requests))
    BY Zenon, <1>1, <1>8, TailFacts DEF Linked, TokenInv, p, r
  <2>6. TokenInv(d, t)
    BY Zenon, <1>1, <1>5, <1>6, <1>8, <2>4, <2>5 DEF Linked, TokenInv
  <2>7. StartInv(d, t)
    BY <1>5, <1>6, <1>8 DEF Linked, StartInv
  <2> QED
    BY <1>5, <1>6, <1>8, <2>1, <2>3, <2>6, <2>7 DEF Linked
<1> QED
  BY <1>3, <1>4, <1>5, <1>7, <1>8 DEF Inv

\* The history once the application allows the event of s
Allowed(h, s) == [h EXCEPT !.allowed = @ \cup {s.ev},
                           !.badSig = @ \/ s.rx.s = "invalid"]

LEMMA AllowedHistory ==
  ASSUME NEW s, NEW h, SrvOK(s), HistInv(h, s), s.ev \in ServResumable,
         NEW k, k = Allowed(h, s)
  PROVE  /\ k \in Histories
         /\ k.users = h.users /\ k.firsts = h.firsts
         /\ k.allowed = h.allowed \cup {s.ev}
<1> DEFINE a == h.allowed \cup {s.ev}
           b == h.badSig \/ s.rx.s = "invalid"
<1>1. h \in Histories
  BY DEF HistInv
<1>2. k = [h EXCEPT !.allowed = a, !.badSig = b]
  BY DEF Allowed
<1>3. a \in SUBSET ServResumable
  BY HistoryTypes
<1>4. b \in {FALSE}
  BY ZenonT(60), HistoryTypes DEF SrvOK
<1> HIDE DEF b
<1> QED
  BY ZenonT(60), <1>1, <1>2, <1>3, <1>4 DEF Histories

LEMMA PkOkStep ==
  ASSUME NEW s, NEW h, NEW k, NEW c, SrvOK(s), HistInv(h, s), s.err = "ok",
         s.ev = "PubkeyQuery",
         k = Allowed(h, s),
         NEW g, g = ResumePkOk(s)
  PROVE  SrvStep(s, g, h, k, c)
<1> DEFINE p == Userauth60(s.rx.k)
           o == Append(s.out, p)
           a == [s EXCEPT !.out = o]
<1>1. /\ s \in Server /\ s.out \in Seq(Message) /\ s.rx \in Requests
      /\ s.rx \in Message /\ s.ev \in ServResumable
      /\ s.rx.m = "publickey" /\ s.rx.s = "absent"
  BY Zenon, ServResumableFacts DEF SrvOK, Server, Requests
<1>2. s.rx.k \in Keys \cup {NoKey}
  BY <1>1, MessageTypes
<1>3. p \in Message /\ p.t = "Userauth60" /\ p.k = s.rx.k
  BY <1>2, Userauth60Typed
<1>4. g = Resumed(a)
  BY DEF ResumePkOk, Send
<1> HIDE DEF p
<1>5. o \in Seq(Message)
  BY <1>1, <1>3
<1>6. /\ g \in Server /\ g.out = o /\ g.rx = NoPayload /\ g.ev = "None"
      /\ g.conn = s.conn /\ g.authed = s.authed /\ g.user = s.user
      /\ g.triedFirst = s.triedFirst /\ g.password = s.password
      /\ g.pubkey = s.pubkey /\ g.err = "ok"
  BY ZenonT(60), <1>1, <1>4, <1>5 DEF Server, Resumed
<1>7. /\ k \in Histories
      /\ k.users = h.users /\ k.firsts = h.firsts
      /\ k.allowed = h.allowed \cup {s.ev}
  BY <1>1, AllowedHistory
<1>8. SrvOK(g) /\ HistInv(k, g)
  BY ZenonT(60), <1>6, <1>7, ServResumableFacts DEF SrvOK, HistInv
<1>9. ASSUME Linked(c, s) PROVE Linked(c, g)
  <2>1. s.rx \in FromClient(c)
    BY <1>1, <1>9, MessageTypes DEF Linked
  <2>2. c.user # NoUser /\ s.rx.k \in Keys /\ Asked(c, s.rx.k)
    BY Zenon, <1>1, <2>1 DEF FromClient, Requests, IsRequest
  <2>3. p \in FromServer(c) /\ p \notin Successes
    BY <1>3, <2>2 DEF FromServer, Successes
  <2> QED
    BY Zenon, <1>1, <1>6, <1>9, <2>3, SrvAnswered
<1> QED
  BY Zenon, <1>8, <1>9 DEF SrvStep

LEMMA AllowStep ==
  ASSUME NEW s, NEW h, NEW k, NEW c, SrvOK(s), HistInv(h, s), s.err = "ok",
         s.ev \in ServResumable \ {"PubkeyQuery"},
         k = Allowed(h, s),
         NEW g, g = ResumeServAuth(s, TRUE)
  PROVE  SrvStep(s, g, h, k, c)
<1> DEFINE p == Msg("UserauthSuccess")
           o == Append(s.out, p)
           a == [[s EXCEPT !.authed = TRUE] EXCEPT !.out = o]
<1>1. /\ s \in Server /\ s.out \in Seq(Message) /\ s.rx \in Requests
      /\ s.rx \in Message /\ s.triedFirst
  BY ServResumableFacts DEF SrvOK, Server, Requests
<1>2. p \in Message /\ p.t = "UserauthSuccess"
  BY MsgTyped
<1>3. s.conn \in {"PreAuth", "Authed"} /\ s.extra \in {"None", "Authenticated"}
  BY <1>1, ServerTypes
<1>4. [s EXCEPT !.authed = TRUE].out = s.out
  BY ZenonT(60), <1>1 DEF Server
<1>5. Send([s EXCEPT !.authed = TRUE], p) = a
  BY ZenonT(60), <1>4 DEF Send
<1> HIDE DEF p
<1>6. o \in Seq(Message)
  BY <1>1, <1>2
<1> HIDE DEF o
<1>7. /\ a \in Server /\ a.out = o /\ a.conn = s.conn /\ a.authed = TRUE
      /\ a.user = s.user /\ a.triedFirst = s.triedFirst
      /\ a.password = s.password /\ a.pubkey = s.pubkey /\ a.err = "ok"
  BY ZenonT(60), <1>1, <1>6 DEF Server
<1>8. g = Resumed(IF a.authed /\ a.conn = "PreAuth"
                    THEN [a EXCEPT !.conn = "Authed",
                                   !.extra = "Authenticated"]
                  ELSE a)
  BY ZenonT(60), <1>5 DEF ResumeServAuth, p
<1> HIDE DEF a
<1>9. /\ g \in Server /\ g.out = o /\ g.rx = NoPayload /\ g.ev = "None"
      /\ g.conn = "Authed" /\ g.authed = TRUE /\ g.user = s.user
      /\ g.triedFirst = s.triedFirst /\ g.password = s.password
      /\ g.pubkey = s.pubkey /\ g.err = "ok"
  <2> DEFINE b == [a EXCEPT !.conn = "Authed", !.extra = "Authenticated"]
  <2>1. CASE a.conn = "PreAuth"
    <3>1. g = Resumed(b)
      BY ZenonT(60), <1>7, <1>8, <2>1
    <3> QED
      BY ZenonT(60), <1>7, <3>1 DEF Server, Resumed
  <2>2. CASE a.conn = "Authed"
    <3>1. g = Resumed(a)
      BY ZenonT(60), <1>7, <1>8, <2>2
    <3> QED
      BY ZenonT(60), <1>7, <2>2, <3>1 DEF Server, Resumed
  <2> QED
    BY ZenonT(60), <1>3, <1>7, <2>1, <2>2
<1>10. /\ k \in Histories
       /\ k.users = h.users /\ k.firsts = h.firsts
       /\ k.allowed = h.allowed \cup {s.ev}
  BY AllowedHistory
<1>11. s.ev \in {"FirstAuth", "PasswordAuth", "PubkeySigned"}
  BY ServResumableFacts
<1>12. SrvOK(g)
  BY ZenonT(60), <1>1, <1>9, ServResumableFacts DEF SrvOK
<1>13. HistInv(k, g)
  BY ZenonT(60), <1>1, <1>9, <1>10, <1>11 DEF HistInv
<1>14. ASSUME Linked(c, s) PROVE Linked(c, g)
  <2>1. s.rx \in FromClient(c)
    BY <1>1, <1>14, MessageTypes DEF Linked
  <2>2. c.user # NoUser
    BY <1>1, <2>1 DEF FromClient, Requests, IsRequest
  <2>3. p \in FromServer(c)
    BY <1>2, <2>2, FromServerFacts
  <2> QED
    BY ZenonT(60), <1>1, <1>9, <1>14, <2>3, SrvAnswered DEF o
<1> QED
  BY ZenonT(60), <1>12, <1>13, <1>14 DEF SrvStep

LEMMA RejectStep ==
  ASSUME NEW s, NEW h, NEW c, SrvOK(s), HistInv(h, s), s.err = "ok",
         s.ev \in ServResumable, NEW g, g = ResumeServAuth(s, FALSE)
  PROVE  SrvStep(s, g, h, h, c)
<1> DEFINE p == UserauthFailure(AvailMethods(s))
           o == Append(s.out, p)
           a == [s EXCEPT !.out = o]
<1>1. /\ s \in Server /\ s.out \in Seq(Message) /\ s.rx \in Requests
      /\ s.rx \in Message
  BY DEF SrvOK, Server, Requests
<1>2. p \in Message /\ p.t = "UserauthFailure"
  BY UserauthFailureTyped DEF AvailMethods
<1>3. SendFailure(s) = a
  BY DEF SendFailure, Send
<1> HIDE DEF p
<1>4. o \in Seq(Message)
  BY <1>1, <1>2
<1> HIDE DEF o
<1>5. /\ a \in Server /\ a.out = o /\ a.conn = s.conn /\ a.authed = s.authed
      /\ a.user = s.user /\ a.triedFirst = s.triedFirst
      /\ a.password = s.password /\ a.pubkey = s.pubkey /\ a.err = "ok"
  BY ZenonT(60), <1>1, <1>4 DEF Server
<1> HIDE DEF a
<1>6. g = Resumed(a)
  BY <1>3, <1>5 DEF ResumeServAuth, SrvOK
<1>7. /\ g \in Server /\ g.out = o /\ g.rx = NoPayload /\ g.ev = "None"
      /\ g.conn = s.conn /\ g.authed = s.authed /\ g.user = s.user
      /\ g.triedFirst = s.triedFirst /\ g.password = s.password
      /\ g.pubkey = s.pubkey /\ g.err = "ok"
  BY ZenonT(60), <1>5, <1>6 DEF Server, Resumed
<1>8. SrvOK(g) /\ HistInv(h, g)
  BY ZenonT(60), <1>7, ServResumableFacts DEF SrvOK, HistInv
<1>9. ASSUME Linked(c, s) PROVE Linked(c, g)
  <2>1. s.rx \in FromClient(c)
    BY <1>1, <1>9, MessageTypes DEF Linked
  <2>2. c.user # NoUser
    BY <1>1, <2>1 DEF FromClient, Requests, IsRequest
  <2>3. p \in FromServer(c) /\ p \notin Successes
    BY <1>2, <2>2, FromServerFacts
  <2> QED
    BY ZenonT(60), <1>1, <1>7, <1>9, <2>3, SrvAnswered DEF o
<1> QED
  BY ZenonT(60), <1>8, <1>9 DEF SrvStep

LEMMA SrvAnswerInv ==
  ASSUME Inv, NEW allow \in BOOLEAN, AnswerServAuth(allow)
  PROVE  Inv'
<1>1. /\ SrvOK(srv) /\ HistInv(hist, srv) /\ srv.err = "ok"
      /\ srv.ev \in ServResumable /\ srv' = AnswerAuth(srv, allow)
      /\ UNCHANGED <<link, cli, sent>>
  BY DEF Inv, AnswerServAuth, SrvHere
<1>2. SrvStep(srv, srv', hist, hist', cli)
  <2>1. CASE allow /\ srv.ev = "PubkeyQuery"
    <3>1. srv' = ResumePkOk(srv) /\ hist' = Allowed(hist, srv)
      BY <1>1, <2>1 DEF AnswerAuth, AnswerServAuth, Allowed
    <3> QED
      BY ZenonT(60), <1>1, <2>1, <3>1, PkOkStep
  <2>2. CASE allow /\ srv.ev # "PubkeyQuery"
    <3>1. srv' = ResumeServAuth(srv, TRUE) /\ hist' = Allowed(hist, srv)
      BY <1>1, <2>2 DEF AnswerAuth, AnswerServAuth, Allowed
    <3> QED
      BY ZenonT(60), <1>1, <2>2, <3>1, AllowStep
  <2>3. CASE ~allow
    <3>1. srv' = ResumeServAuth(srv, FALSE) /\ hist' = hist
      BY ZenonT(60), <1>1, <2>3 DEF AnswerAuth, AnswerServAuth
    <3> QED
      BY ZenonT(60), <1>1, <3>1, RejectStep
  <2> QED
    BY <2>1, <2>2, <2>3
<1> QED
  BY <1>1, <1>2, SrvStepInv

-----------------------------------------------------------------------------
(* The other implementation.                                               *)

LEMMA OtherRequestsTyped ==
  ASSUME NEW p \in OtherRequests
  PROVE  p \in Message /\ p \in Proper /\ p \in Named
<1>1. ASSUME NEW m \in {"userauth", "connection", "other"},
             p = ServiceRequest(m)
      PROVE  p \in Message /\ p.t = "ServiceRequest" /\ p.s = "absent"
  BY <1>1, ServiceRequestTyped
<1>2. ASSUME NEW u \in Users, NEW m \in {"none", "password", "other"},
             p = UserauthRequest(u, m, NoKey, "absent")
      PROVE  p \in Message /\ p.u \in Users /\ p.s = "absent"
  BY ZenonT(60), <1>2 DEF UserauthRequest, Msg, Message, Names, Signatures
<1>3. ASSUME NEW u \in Users, NEW k \in Keys, NEW s \in Signatures,
             p = UserauthRequest(u, "publickey", k, s)
      PROVE  p \in Message /\ p.u \in Users /\ p.m = "publickey"
  BY ZenonT(60), <1>3 DEF UserauthRequest, Msg, Message, Names, Signatures
<1>4. \/ p \in Message /\ p.t = "ServiceRequest" /\ p.s = "absent"
      \/ p \in Message /\ p.u \in Users /\ p.s = "absent"
      \/ p \in Message /\ p.u \in Users /\ p.m = "publickey"
  BY <1>1, <1>2, <1>3 DEF OtherRequests
<1> QED
  BY <1>4 DEF Proper, Named, IsRequest

LEMMA OtherRepliesTyped ==
  ASSUME NEW p \in OtherReplies
  PROVE  p \in Message
<1>1. ASSUME NEW t \in {"ServiceAccept", "UserauthSuccess",
                        "UserauthBanner"}, p = Msg(t)
      PROVE  p \in Message
  BY <1>1, MsgTyped
<1>2. ASSUME NEW ms \in {{}, {"ed25519"}, {"rsa-sha2"}}, p = ExtInfo(ms)
      PROVE  p \in Message
  BY Zenon, <1>2, ExtInfoTyped DEF SigAlgs
<1>3. ASSUME NEW ms \in SUBSET Methods, p = UserauthFailure(ms)
      PROVE  p \in Message
  BY <1>3, UserauthFailureTyped
<1>4. ASSUME NEW k \in Keys \cup {NoKey}, p = Userauth60(k)
      PROVE  p \in Message
  BY <1>4, Userauth60Typed
<1> QED
  BY <1>1, <1>2, <1>3, <1>4 DEF OtherReplies

\* A change of the output alone
LEMMA CliOutput ==
  ASSUME NEW c, CliOK(c), NEW o \in Seq(Message), All(o, Proper),
         NEW d, d = [c EXCEPT !.out = o]
  PROVE  CliOK(d) /\ d.out = o
<1>1. c \in Client
  BY DEF CliOK
<1>2. /\ d \in Client /\ d.key = c.key /\ d.state = c.state /\ d.ev = c.ev
      /\ d.out = o
  BY ZenonT(60), <1>1 DEF Client
<1> QED
  BY <1>2 DEF CliOK

LEMMA SrvOutput ==
  ASSUME NEW s, NEW h, SrvOK(s), HistInv(h, s), NEW o \in Seq(Message),
         NEW t, t = [s EXCEPT !.out = o]
  PROVE  SrvOK(t) /\ HistInv(h, t)
<1>1. s \in Server
  BY DEF SrvOK
<1>2. /\ t \in Server /\ t.rx = s.rx /\ t.ev = s.ev
      /\ t.conn = s.conn /\ t.authed = s.authed /\ t.user = s.user
      /\ t.triedFirst = s.triedFirst /\ t.password = s.password
      /\ t.pubkey = s.pubkey
  BY ZenonT(60), <1>1 DEF Server
<1> QED
  BY ZenonT(60), <1>2 DEF SrvOK, HistInv

LEMMA OtherInv ==
  ASSUME Inv, OtherClientSends \/ OtherServerSends \/ OtherReads
  PROVE  Inv'
<1>1. /\ cli.out \in Seq(Message) /\ srv.out \in Seq(Message)
      /\ CliOK(cli) /\ SrvOK(srv) /\ HistInv(hist, srv)
      /\ All(cli.out, Proper)
      /\ link # "otherServer" => All(cli.out, Named)
      /\ sent \in 0..MaxOther
  BY ZenonT(60) DEF Inv, CliOK, SrvOK, Client, Server
<1>2. CASE OtherClientSends
  <2>1. PICK p \in OtherRequests : cli' = Send(cli, p)
    BY <1>2 DEF OtherClientSends
  <2> DEFINE o == Append(cli.out, p)
  <2>2. p \in Message /\ p \in Proper /\ p \in Named
    BY OtherRequestsTyped
  <2>3. o \in Seq(Message) /\ All(o, Proper)
    BY <1>1, <2>2, AppendFacts
  <2>4. link = "otherClient" /\ UNCHANGED <<link, srv, hist>>
    BY <1>2 DEF OtherClientSends
  <2>5. All(o, Named)
    BY <1>1, <2>2, <2>4, AppendFacts
  <2>6. cli' = [cli EXCEPT !.out = o]
    BY <2>1 DEF Send
  <2> HIDE DEF o
  <2>7. CliOK(cli') /\ cli'.out = o
    BY <1>1, <2>3, <2>6, CliOutput
  <2>8. sent' \in 0..MaxOther
    BY <1>1, <1>2, AuthAssumption DEF OtherClientSends
  <2> QED
    BY <2>4, <2>5, <2>7, <2>8 DEF Inv
<1>3. CASE OtherServerSends
  <2>1. PICK p \in OtherReplies : srv' = Send(srv, p)
    BY <1>3 DEF OtherServerSends
  <2> DEFINE o == Append(srv.out, p)
  <2>2. p \in Message
    BY OtherRepliesTyped
  <2>3. o \in Seq(Message)
    BY <1>1, <2>2
  <2>4. link = "otherServer" /\ UNCHANGED <<link, cli, hist>>
    BY <1>3 DEF OtherServerSends
  <2>5. srv' = [srv EXCEPT !.out = o]
    BY <2>1 DEF Send
  <2> HIDE DEF o
  <2>6. SrvOK(srv') /\ HistInv(hist, srv')
    BY <1>1, <2>3, <2>5, SrvOutput
  <2>7. sent' \in 0..MaxOther
    BY <1>1, <1>3, AuthAssumption DEF OtherServerSends
  <2> QED
    BY <2>4, <2>6, <2>7 DEF Inv
<1>4. CASE /\ link = "otherClient" /\ srv.out # <<>>
           /\ srv' = [srv EXCEPT !.out = Tail(@)]
           /\ UNCHANGED <<link, cli, sent, hist>>
  <2> DEFINE o == Tail(srv.out)
  <2>1. o \in Seq(Message) /\ srv' = [srv EXCEPT !.out = o]
    BY <1>1, <1>4
  <2> HIDE DEF o
  <2>2. SrvOK(srv') /\ HistInv(hist, srv')
    BY <1>1, <2>1, SrvOutput
  <2> QED
    BY <1>4, <2>2 DEF Inv
<1>5. CASE /\ link = "otherServer" /\ cli.out # <<>>
           /\ cli' = [cli EXCEPT !.out = Tail(@)]
           /\ UNCHANGED <<link, srv, sent, hist>>
  <2> DEFINE o == Tail(cli.out)
  <2>1. /\ o \in Seq(Message) /\ All(o, Proper)
        /\ cli' = [cli EXCEPT !.out = o]
    BY <1>1, <1>5, TailFacts
  <2> HIDE DEF o
  <2>2. CliOK(cli') /\ cli'.out = o
    BY <1>1, <2>1, CliOutput
  <2> QED
    BY <1>5, <2>2 DEF Inv
<1> QED
  BY SMTT(30), <1>2, <1>3, <1>4, <1>5 DEF OtherReads

-----------------------------------------------------------------------------
(* Invariance, and what follows.                                           *)

LEMMA InitInv ==
  ASSUME Init
  PROVE  Inv
<1> DEFINE p == ExtInfo({"rsa-sha2"})
           q == NewServer.out
           s == NewServer
<1>1. p \in Message /\ p.t = "ExtInfo"
  BY Zenon, ExtInfoTyped DEF SigAlgs
<1>2. /\ NewClient \in Client /\ NewClient.key = NoKey
      /\ NewClient.state = "Unstarted" /\ NewClient.ev = "None"
      /\ NewClient.out = <<>> /\ NewClient.err = "ok"
      /\ NewClient.rx = NoPayload /\ NewClient.conn = "PreAuth"
      /\ NewClient.user = NoUser /\ NewClient.extra = "None"
  <2>1. 0 \in 0..MaxAnswers
    BY AuthAssumption
  <2> QED
    BY <2>1 DEF NewClient, Client, CliErrors, CliResumable
<1>3. q = <<p>> \/ q = <<>>
  BY DEF NewServer
<1> HIDE DEF p
<1>4. q \in Seq(Message) /\ \A i \in 1..Len(q) : q[i] = p
  <2> HIDE DEF q
  <2>1. CASE q = <<p>>
    BY <1>1, <2>1
  <2>2. CASE q = <<>>
    BY <2>2
  <2> QED
    BY <1>3, <2>1, <2>2
<1>5. /\ s.conn = "PreAuth" /\ s.authed = FALSE /\ s.triedFirst = FALSE
      /\ s.user = NoUser /\ s.password = TRUE /\ s.pubkey = TRUE
      /\ s.rx = NoPayload /\ s.ev = "None" /\ s.err = "ok"
  BY DEF NewServer
<1>6. s \in Server
  <2> HIDE DEF q
  <2>1. s = [conn |-> "PreAuth", authed |-> FALSE, triedFirst |-> FALSE,
             user |-> NoUser, password |-> TRUE, pubkey |-> TRUE,
             rx |-> NoPayload, ev |-> "None", extra |-> "None", out |-> q,
             err |-> "ok"]
    BY DEF NewServer, q
  <2> QED
    BY ZenonT(60), <1>4, <2>1 DEF Server
<1>7. CliOK(cli) /\ All(cli.out, Named)
  BY <1>2, EmptyQueue DEF Init, CliOK
<1>8. ASSUME NEW t, t.conn = "PreAuth", t.authed = FALSE, t.triedFirst = FALSE,
             t.user = NoUser, t.password = TRUE, t.pubkey = TRUE,
             t.rx = NoPayload, t.ev = "None", t \in Server
      PROVE  SrvOK(t) /\ HistInv(hist, t)
  <2>1. hist \in Histories /\ hist.users = {} /\ hist.firsts = 0
    BY DEF Init, Histories
  <2> QED
    BY <1>8, <2>1, ServResumableFacts DEF SrvOK, HistInv
<1>9. CASE link = "otherServer"
  <2> DEFINE t == [s EXCEPT !.out = <<>>]
  <2>1. srv = t
    BY <1>9 DEF Init
  <2> HIDE DEF s
  <2>2. /\ t \in Server /\ t.conn = "PreAuth" /\ t.authed = FALSE
        /\ t.triedFirst = FALSE /\ t.user = NoUser /\ t.password = TRUE
        /\ t.pubkey = TRUE /\ t.rx = NoPayload /\ t.ev = "None"
    <3>1. <<>> \in Seq(Message)
      OBVIOUS
    <3> QED
      BY ZenonT(60), <1>5, <1>6, <3>1 DEF Server
  <2> HIDE DEF t
  <2>3. SrvOK(srv) /\ HistInv(hist, srv)
    BY ZenonT(60), <1>8, <2>1, <2>2
  <2>4. link \in Links /\ sent \in 0..MaxOther
    BY AuthAssumption DEF Init
  <2> QED
    BY <1>7, <1>9, <2>3, <2>4 DEF Inv
<1>10. CASE link # "otherServer"
  <2>1. srv = s /\ cli = NewClient
    BY <1>10 DEF Init
  <2> HIDE DEF s, q
  <2>2. SrvOK(srv) /\ HistInv(hist, srv)
    BY ZenonT(60), <1>5, <1>6, <1>8, <2>1
  <2>3. link \in Links /\ sent \in 0..MaxOther
    BY AuthAssumption DEF Init
  <2>4. Linked(cli, srv)
    <3>1. p \in FromServer(cli) /\ p \notin Answers /\ p \notin Successes
      BY <1>1, FromServerFacts
    <3>2. srv.out = q
      BY <2>1 DEF s, q
    <3>3. /\ All(srv.out, FromServer(cli)) /\ None(srv.out, Answers)
          /\ None(srv.out, Successes) /\ One(srv.out, Answers)
      BY Zenon, <1>4, <3>1, <3>2 DEF All, None, One
    <3>4. /\ All(cli.out, FromClient(cli)) /\ None(cli.out, Requests)
          /\ One(cli.out, Requests)
      BY <1>2, <2>1, EmptyQueue
    <3>5. NoPayload \notin Requests /\ NoPayload \notin Answers
          /\ NoPayload \notin Successes
      BY NoPayloadFacts DEF Requests, Answers, Successes
    <3>6. StartInv(cli, srv)
      BY Zenon, <1>2, <1>5, <2>1, AuthAssumption DEF StartInv
    <3>7. TokenInv(cli, srv)
      BY <1>2, <1>5, <2>1, <3>3, <3>4, <3>5 DEF TokenInv, CliResumable
    <3> QED
      BY <1>2, <1>5, <2>1, <3>3, <3>4, <3>5, <3>6, <3>7 DEF Linked
  <2> QED
    BY <1>7, <2>2, <2>3, <2>4 DEF Inv
<1> QED
  BY <1>9, <1>10

LEMMA StepInv ==
  ASSUME Inv, [Next]_vars
  PROVE  Inv'
<1>1. CASE CliProgress
  BY <1>1, CliProgressInv
<1>2. CASE CliInput
  BY <1>2, CliInputInv
<1>3. CASE CliAnswer
  BY <1>3, CliAnswerInv
<1>4. CASE SrvProgress
  BY <1>4, SrvProgressInv
<1>5. CASE SrvInput
  BY <1>5, SrvInputInv
<1>6. CASE SrvAnswer
  BY <1>6, SrvAnswerInv DEF SrvAnswer
<1>7. CASE SetAuthMethods
  BY <1>7, SetAuthMethodsInv
<1>8. CASE OtherClientSends \/ OtherServerSends \/ OtherReads
  BY <1>8, OtherInv
<1>9. CASE UNCHANGED vars
  BY <1>9 DEF vars, Inv
<1> QED
  BY <1>1, <1>2, <1>3, <1>4, <1>5, <1>6, <1>7, <1>8, <1>9 DEF Next

LEMMA Invariance == Spec => []Inv
<1>1. Init => Inv
  BY InitInv
<1>2. Inv /\ [Next]_vars => Inv'
  BY StepInv
<1> QED
  BY <1>1, <1>2, PTL DEF Spec

\* Only an attempt that the server's application allowed, and no bad
\* signature, authenticates a user (ServAuth); every event names the same
\* user, and the first is asked for once.  A client of this library is
\* authenticated only if its server says so (CliAuth::success()).
THEOREM OnlyAllowed == Spec => []AuthedByAllow
<1>1. Inv => AuthedByAllow
  <2> SUFFICES ASSUME Inv PROVE AuthedByAllow
    OBVIOUS
  <2>1. TypeOK
    BY DEF Inv, CliOK, SrvOK, TypeOK
  <2>2. HistInv(hist, srv)
    BY DEF Inv
  <2>3. \A u, v \in hist.users : u = v
    BY <2>2 DEF HistInv
  <2>4. hist.firsts <= 1 /\ ~hist.badSig
    BY <2>2, HistoryTypes
  <2>5. link = "sunset" /\ cli.conn = "Authed" => srv.authed
    BY Zenon DEF Inv, Linked
  <2> QED
    BY <2>1, <2>2, <2>3, <2>4, <2>5 DEF AuthedByAllow, HistInv
<1> QED
  BY <1>1, Invariance, PTL

\* Neither of two ends of this library takes the other's messages for an
\* error, whatever keys, agents and passwords were tried before: auth60()
\* decodes message 60 as the answer to the request it answers, and request()
\* finds the user it knows.
THEOREM NoMisunderstanding == Spec => []Understood
<1>1. Inv => Understood
  <2> SUFFICES ASSUME Inv, link = "sunset" PROVE Understood
    BY DEF Understood
  <2>1. Linked(cli, srv) /\ cli \in Client
    BY DEF Inv, CliOK
  <2>2. cli.err # "Bug"
    BY <2>1, ClientTypes DEF CliErrors
  <2> QED
    BY <2>1, <2>2 DEF Linked, Understood
<1> QED
  BY <1>1, Invariance, PTL

\* There is never more than one request of the client under way, which is why
\* CliAuth can keep the state of one (AuthState::Request).
THEOREM OneRequest == Spec => []OneAtATime
<1>1. Inv => OneAtATime
  <2> SUFFICES ASSUME Inv, link = "sunset" PROVE \A a, b \in UnderWay : a = b
    BY Zenon DEF OneAtATime
  <2>1. /\ TokenInv(cli, srv)
        /\ cli.out \in Seq(Message) /\ srv.out \in Seq(Message)
        /\ cli.rx \in Message \cup {NoPayload}
        /\ srv.rx \in Message \cup {NoPayload}
    BY SMTT(30) DEF Inv, Linked, CliOK, SrvOK, Client, Server
  <2>2. /\ \A i \in 1..Len(cli.out) :
             IsRequest(cli.out[i]) => cli.out[i] \in Requests
        /\ \A i \in 1..Len(srv.out) :
             IsAnswer(srv.out[i]) => srv.out[i] \in Answers
    BY <2>1 DEF Requests, Answers
  <2>3. /\ IsRequest(srv.rx) => srv.rx \in Requests
        /\ IsAnswer(cli.rx) => cli.rx \in Answers
    BY Zenon, <2>1, NoPayloadFacts
    DEF Requests, Answers, IsRequest, IsAnswer
  <2> DEFINE A == {j \in 1..Len(cli.out) : IsRequest(cli.out[j])}
             B == {j \in 1..Len(srv.out) : IsAnswer(srv.out[j])}
             C == {y \in {"srv.rx", "cli.rx", "cli.ev", "cli.extra"} :
                     Holds(y)}
  <2>4. \A i, j \in A : i = j
    BY Zenon, <2>1, <2>2 DEF TokenInv, One
  <2>5. \A i, j \in B : i = j
    BY SMTT(30), <2>1, <2>2 DEF TokenInv, One
  <2>6. \A x, y \in C : x = y
    BY Zenon, <2>1, <2>3 DEF TokenInv, Holds
  <2>7. A # {} => B = {} /\ C = {}
    <3>1. A # {} => ~None(cli.out, Requests)
      BY <2>2 DEF None
    <3>2. None(srv.out, Answers) => B = {}
      BY <2>2 DEF None
    <3>3. (/\ srv.rx \notin Requests /\ cli.rx \notin Answers
           /\ cli.ev \notin CliResumable /\ cli.extra = "None") => C = {}
      BY Zenon, <2>3 DEF Holds
    <3> QED
      BY <2>1, <3>1, <3>2, <3>3 DEF TokenInv
  <2>8. B # {} => C = {}
    <3>1. B # {} => ~None(srv.out, Answers)
      BY Zenon, <2>2 DEF None
    <3>2. (/\ srv.rx \notin Requests /\ cli.rx \notin Answers
           /\ cli.ev \notin CliResumable /\ cli.extra = "None") => C = {}
      BY <2>3 DEF Holds
    <3> QED
      BY <2>1, <3>1, <3>2 DEF TokenInv
  <2>9. UnderWay = {<<"cli.out", i>> : i \in A}
                     \cup {<<"srv.out", i>> : i \in B}
                     \cup {<<x, 0>> : x \in C}
    BY DEF UnderWay
  <2> HIDE DEF A, B, C
  <2> QED
    BY <2>4, <2>5, <2>6, <2>7, <2>8, <2>9
<1> QED
  BY <1>1, Invariance, PTL
=============================================================================
