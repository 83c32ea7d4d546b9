-------------------------------- MODULE Auth --------------------------------
(***************************************************************************)
(* User authentication: CliAuth (cliauth.rs) and ServAuth (servauth.rs)    *)
(* with the part of Conn and Runner that carries their packets and events, *)
(* from the end of the first key exchange on.  The application of either   *)
(* end answers the events of event.rs in any way it may.                   *)
(*                                                                         *)
(* An end is either this library or another implementation, which may send *)
(* any authentication message at any time.  A key, a signature and a user  *)
(* name are model values: which keys are held by an agent, are RSA keys or *)
(* are of a type the server was built without is given by constants.       *)
(***************************************************************************)
EXTENDS Naturals, Sequences

CONSTANTS
  Keys,         \* the keys the client's application may offer
  RsaKeys,      \* those that are RSA keys
  AgentKeys,    \* those that are held by an agent
  UnknownKeys,  \* those whose type the server does not know
  ServerRsa,    \* whether the server is built with the rsa feature
  Users,        \* user names
  LongUsers,    \* those longer than MAX_USERNAME
  Links,        \* who talks to whom
  MaxAnswers,   \* bound: keys and passwords the client's application gives
  MaxOther      \* bound: messages the other implementation sends

\* None, as a key and as a user name
NoKey == "nokey"
NoUser == "nouser"

ASSUME AuthAssumption ==
  /\ NoKey \notin Keys /\ NoUser \notin Users
  /\ RsaKeys \subseteq Keys /\ AgentKeys \subseteq Keys
  /\ UnknownKeys \subseteq Keys /\ LongUsers \subseteq Users
  /\ ServerRsa \in BOOLEAN
  /\ Links \subseteq {"sunset", "otherClient", "otherServer"}
  /\ MaxAnswers \in Nat /\ MaxOther \in Nat

VARIABLES
  link,   \* which ends are this library
  cli,    \* Runner<Client> with its CliAuth
  srv,    \* Runner<Server> with its ServAuth
  sent,   \* messages the other implementation has sent
  hist    \* what the applications saw and said, for the properties

vars == <<link, cli, srv, sent, hist>>

Methods == {"password", "publickey"}
Signatures == {"absent", "valid", "invalid"}

\* the algorithms of server-sig-algs, RSA with SHA-2 and all others
SigAlgs == {"rsa-sha2", "ed25519"}

\* "other" stands for every name this library does not know
Names == {"", "userauth", "connection", "none", "password", "publickey",
          "other"}

\* One shape for every message: m is a method or a service, k a key (of a
\* PkOk; NoKey for a password change request), ms a list of names
Message == [t: {"ServiceRequest", "ServiceAccept", "UserauthRequest",
                "UserauthFailure", "UserauthSuccess", "Userauth60",
                "UserauthBanner", "ExtInfo"},
            u: Users \cup {NoUser}, m: Names, k: Keys \cup {NoKey},
            s: Signatures, ms: SUBSET (Methods \cup SigAlgs)]

Msg(t) == [t |-> t, u |-> NoUser, m |-> "", k |-> NoKey, s |-> "absent",
           ms |-> {}]

ServiceRequest(m) == [Msg("ServiceRequest") EXCEPT !.m = m]
UserauthRequest(u, m, k, s) ==
  [Msg("UserauthRequest") EXCEPT !.u = u, !.m = m, !.k = k, !.s = s]
UserauthFailure(ms) == [Msg("UserauthFailure") EXCEPT !.ms = ms]
Userauth60(k) == [Msg("Userauth60") EXCEPT !.k = k]
ExtInfo(ms) == [Msg("ExtInfo") EXCEPT !.ms = ms]

\* needs_resume() of CliEventId and of ServEventId
CliResumable == {"Username", "Password", "Pubkey", "AgentSign"}
ServResumable == {"FirstAuth", "PasswordAuth", "PubkeyQuery", "PubkeySigned"}

\* The parts of Runner that both ends have: a payload, an event waiting for
\* the application, one more event of the same payload, output
NoPayload == Msg("none")

Send(s, p) == [s EXCEPT !.out = Append(@, p)]
Fail(s, e) == [s EXCEPT !.err = e]

\* Runner::resume(), resume_nocheck(): the event is answered and its payload
\* done with
Resumed(s) == [s EXCEPT !.ev = "None", !.rx = NoPayload]

-----------------------------------------------------------------------------
(* CliAuth.                                                                *)

CliErrors == {"ok", "TooLong", "PacketWrong", "PasswordExpired", "SSHProto",
              "NoAuthMethods", "BadUsage"}

Client ==
  [conn: {"PreAuth", "Authed"},
   state: {"Unstarted", "MethodQuery", "Request", "RequestKey", "Idle"},
   user: Users \cup {NoUser}, key: Keys \cup {NoKey},
   tryPassword: BOOLEAN, tryPubkey: BOOLEAN, allowRsa: BOOLEAN,
   authType: {"None", "Password", "PubKey"}, rx: Message \cup {NoPayload},
   ev: CliResumable \cup {"None", "Authenticated", "Banner"},
   extra: {"None", "Pubkey", "Password"}, out: Seq(Message),
   err: CliErrors,
   answers: 0..MaxAnswers]

NewClient ==
  [conn |-> "PreAuth", state |-> "Unstarted", user |-> NoUser, key |-> NoKey,
   tryPassword |-> TRUE, tryPubkey |-> TRUE, allowRsa |-> FALSE,
   authType |-> "None", rx |-> NoPayload, ev |-> "None", extra |-> "None",
   out |-> <<>>, err |-> "ok", answers |-> 0]

ResumeUsername(c, u) ==
  LET r == Resumed(c)
  IN  IF u \in LongUsers THEN Fail(r, "TooLong")
      ELSE Send(Send([r EXCEPT !.user = u], ServiceRequest("userauth")),
                UserauthRequest(u, "none", NoKey, "absent"))

Signed(c, sig) == UserauthRequest(c.user, "publickey", c.key, sig)

\* auth60() and auth_pkok(): message 60 is decoded by what was asked last
Auth60(c) ==
  CASE c.authType = "None" -> Fail(c, "PacketWrong")
    [] c.authType = "Password" -> Fail(c, "PasswordExpired")
    [] c.authType = "PubKey" /\ c.rx.k = NoKey -> Fail(c, "PacketWrong")
    [] c.authType = "PubKey" /\ c.rx.k # NoKey ->
         IF c.state # "RequestKey" \/ c.key # c.rx.k THEN Fail(c, "SSHProto")
         ELSE IF c.key \in AgentKeys THEN [c EXCEPT !.ev = "AgentSign"]
         ELSE Send([c EXCEPT !.authType = "None"], Signed(c, "valid"))

\* resume_agentsign(): the agent's signature, or none
ResumeAgentSignAndNext(c, sig) ==
  LET r == Resumed([c EXCEPT !.authType = "None", !.extra = "Pubkey"])
  IN  IF c.state # "RequestKey" THEN Fail(c, "Bug")
      ELSE IF sig = "absent" THEN r ELSE Send(r, Signed(c, sig))

ResumeAgentSign(c, sig) ==
  LET r == Resumed([c EXCEPT !.authType = "None"])
  IN  IF c.state # "RequestKey" THEN Fail(c, "Bug")
      ELSE IF sig = "absent" THEN [r EXCEPT !.extra = "Pubkey"]
      ELSE Send(r, Signed(c, sig))

Failure(c) ==
  LET i == [c EXCEPT !.authType = "None", !.state = "Idle", !.key = NoKey]
  IN  IF c.tryPubkey /\ "publickey" \in c.rx.ms
        THEN [i EXCEPT !.ev = "Pubkey"]
      ELSE IF c.tryPassword /\ "password" \in c.rx.ms
        THEN [i EXCEPT !.ev = "Password"]
      ELSE Fail(i, "NoAuthMethods")

ResumePassword(c, given) ==
  IF ~given THEN Fail([c EXCEPT !.tryPassword = FALSE], "NoAuthMethods")
  ELSE Send([Resumed(c) EXCEPT !.authType = "Password", !.state = "Request",
                               !.key = NoKey],
            UserauthRequest(c.user, "password", NoKey, "absent"))

SendPubkeyUntyped(c, k) ==
  Send([Resumed(c) EXCEPT !.state = "RequestKey", !.key = k],
       UserauthRequest(c.user, "publickey", k, "absent"))

\* The query of a key, without a signature
SendPubkey(c, k) ==
  Send([Resumed(c) EXCEPT !.authType = "PubKey", !.state = "RequestKey",
                          !.key = k],
       UserauthRequest(c.user, "publickey", k, "absent"))

\* Without a key the password is asked for next, whatever the server offered
ResumePubkey(c, k) ==
  IF k = NoKey
    THEN LET n == [c EXCEPT !.tryPubkey = FALSE]
         IN  IF c.tryPassword THEN Resumed([n EXCEPT !.extra = "Password"])
             ELSE Fail(n, "NoAuthMethods")
  ELSE IF k \in RsaKeys /\ ~c.allowRsa
    THEN Resumed([c EXCEPT !.extra = "Pubkey"])
  ELSE SendPubkey(c, k)

Success(c) ==
  IF c.conn # "PreAuth" THEN c
  ELSE [c EXCEPT !.conn = "Authed", !.authType = "None", !.state = "Idle",
                 !.key = NoKey, !.ev = "Authenticated"]

\* ms is empty when the message does not have server-sig-algs
HandleExtInfo(c) ==
  [c EXCEPT !.allowRsa = IF c.rx.ms = {} THEN @ ELSE "rsa-sha2" \in c.rx.ms]

\* CliAuth::progress(), called by Conn::progress() before authentication
CliAuthProgress(c) ==
  IF c.conn = "PreAuth" /\ c.state = "Unstarted"
    THEN [c EXCEPT !.state = "MethodQuery", !.ev = "Username"]
  ELSE c

-----------------------------------------------------------------------------
(* ServAuth and Server.                                                    *)

Server ==
  [conn: {"PreAuth", "Authed"}, authed: BOOLEAN, triedFirst: BOOLEAN,
   user: Users \cup {NoUser}, password: BOOLEAN, pubkey: BOOLEAN,
   rx: Message \cup {NoPayload},
   ev: ServResumable \cup {"None", "Authenticated"},
   extra: {"None", "Authenticated"}, out: Seq(Message),
   err: {"ok", "SSHProto", "SSHProtoUnsupported"}]

NewServer ==
  [conn |-> "PreAuth", authed |-> FALSE, triedFirst |-> FALSE,
   user |-> NoUser, password |-> TRUE, pubkey |-> TRUE,
   rx |-> NoPayload, ev |-> "None", extra |-> "None",
   out |-> IF ServerRsa THEN <<ExtInfo({"rsa-sha2"})>> ELSE <<>>,
   err |-> "ok"]

ServiceRequested(s) ==
  IF s.rx.m = "userauth" \/ (s.rx.m = "connection" /\ s.authed)
    THEN Send(s, Msg("ServiceAccept"))
  ELSE Fail(s, "SSHProto")

AvailMethods(s) ==
  {m \in Methods : IF m = "password" THEN s.password ELSE s.pubkey}

SendFailure(s) == Send(s, UserauthFailure(AvailMethods(s)))

\* request_pubkey(): a key of unknown type and a wrong signature are refused
\* without asking the application
RequestPubkey(s) ==
  IF s.rx.k \in UnknownKeys \/ s.rx.s = "invalid" THEN "None"
  ELSE IF s.rx.s = "absent" THEN "PubkeyQuery" ELSE "PubkeySigned"

RequestEvent(s) ==
  CASE s.rx.m = "password" /\ s.password -> "PasswordAuth"
    [] s.rx.m = "publickey" /\ s.pubkey -> RequestPubkey(s)
    [] OTHER -> IF s.triedFirst THEN "None" ELSE "FirstAuth"

RequestSilent(s) ==
  LET n == [s EXCEPT !.user = s.rx.u]
  IN  IF \/ s.user # NoUser /\ s.user # s.rx.u
         \/ s.user = NoUser /\ s.rx.u \in LongUsers
        THEN Fail(s, "SSHProtoUnsupported")
      ELSE IF s.authed THEN Send(n, Msg("UserauthSuccess"))
      ELSE [n EXCEPT !.triedFirst = TRUE, !.ev = RequestEvent(n)]

Request(s) ==
  LET n == [s EXCEPT !.user = s.rx.u]
  IN  IF \/ s.user # NoUser /\ s.user # s.rx.u
         \/ s.user = NoUser /\ s.rx.u \in LongUsers
        THEN Fail(s, "SSHProtoUnsupported")
      ELSE IF s.authed THEN Send(n, Msg("UserauthSuccess"))
      ELSE LET t == [n EXCEPT !.triedFirst = TRUE, !.ev = RequestEvent(n)]
           IN  IF t.ev = "None" THEN SendFailure(t) ELSE t

\* resume_servauth(): the application allows or rejects the attempt, and the
\* connection is authenticated with the first attempt allowed
ResumeServAuth(s, allow) ==
  LET a == IF allow
             THEN Send([s EXCEPT !.authed = TRUE], Msg("UserauthSuccess"))
           ELSE SendFailure(s)
  IN  Resumed(IF a.authed /\ a.conn = "PreAuth"
                THEN [a EXCEPT !.conn = "Authed", !.extra = "Authenticated"]
              ELSE a)

ResumePkOk(s) == Resumed(Send(s, Userauth60(s.rx.k)))

\* ServFirstAuth, ServPasswordAuth, ServPubkeyAuth: allow(), and reject(),
\* which dropping the event also calls
AnswerAuthAlwaysFinal(s, allow) == ResumeServAuth(s, allow)

AnswerAuth(s, allow) ==
  IF allow /\ s.ev = "PubkeyQuery" THEN ResumePkOk(s)
  ELSE ResumeServAuth(s, allow)

-----------------------------------------------------------------------------
(* Conn::dispatch_packet() and Runner::progress().                         *)

CliDispatch(c) ==
  CASE c.rx.t = "ExtInfo"         -> HandleExtInfo(c)
    [] c.rx.t = "ServiceAccept"   -> c
    [] c.rx.t = "UserauthFailure" -> Failure(c)
    [] c.rx.t = "UserauthSuccess" -> Success(c)
    [] c.rx.t = "UserauthBanner"  -> [c EXCEPT !.ev = "Banner"]
    [] c.rx.t = "Userauth60"      -> Auth60(c)
    [] OTHER                      -> Fail(c, "SSHProto")

ServDispatch(s) ==
  CASE s.rx.t = "ExtInfo"         -> s
    [] s.rx.t = "ServiceAccept"   -> s
    [] s.rx.t = "ServiceRequest"  -> ServiceRequested(s)
    [] s.rx.t = "UserauthRequest" -> Request(s)
    [] OTHER                      -> Fail(s, "SSHProto")

\* Neither an error nor an event has ended this call of progress()
Running(s) == s.err = "ok" /\ s.ev = "None"

\* The payload is done with when it gave rise to no event
Handled(s) == IF Running(s) THEN [s EXCEPT !.rx = NoPayload] ELSE s

\* An event that needs no answer ends with the next call, and its payload
Taken(s) == IF s.ev = "None" THEN s ELSE Resumed(s)

CliRunnerProgress(c) ==
  IF c.extra # "None" THEN [c EXCEPT !.ev = c.extra, !.extra = "None"]
  ELSE LET t == Taken(c)
           h == IF t.rx = NoPayload THEN t ELSE Handled(CliDispatch(t))
       IN  IF Running(h) THEN CliAuthProgress(h) ELSE h

ServRunnerProgress(s) ==
  IF s.extra # "None" THEN [s EXCEPT !.ev = s.extra, !.extra = "None"]
  ELSE LET t == Taken(s)
       IN  IF t.rx = NoPayload THEN t ELSE Handled(ServDispatch(t))

-----------------------------------------------------------------------------
(* Steps.                                                                  *)

CliHere == link # "otherClient" /\ cli.err = "ok"
SrvHere == link # "otherServer" /\ srv.err = "ok"

CliProgress ==
  /\ CliHere /\ cli.ev \notin CliResumable
  /\ cli' = CliRunnerProgress(cli) /\ cli' # cli
  /\ UNCHANGED <<link, srv, sent, hist>>

\* What the application is shown is recorded
SrvProgress ==
  /\ SrvHere /\ srv.ev \notin ServResumable
  /\ srv' = ServRunnerProgress(srv) /\ srv' # srv
  /\ hist' = IF srv'.ev \in ServResumable
               THEN [hist EXCEPT !.users = @ \cup {srv'.rx.u},
                                 !.firsts = @ + (IF srv'.ev = "FirstAuth"
                                                   THEN 1 ELSE 0)]
             ELSE hist
  /\ UNCHANGED <<link, cli, sent>>

\* Runner::input(): an event that needs an answer holds the runner, or its
\* lock, until it is answered
CliInput ==
  /\ CliHere /\ cli.ev \notin CliResumable /\ cli.rx = NoPayload
  /\ srv.out # <<>>
  /\ cli' = [cli EXCEPT !.rx = Head(srv.out)]
  /\ srv' = [srv EXCEPT !.out = Tail(@)]
  /\ UNCHANGED <<link, sent, hist>>

SrvInput ==
  /\ SrvHere /\ srv.ev \notin ServResumable /\ srv.rx = NoPayload
  /\ cli.out # <<>>
  /\ srv' = [srv EXCEPT !.rx = Head(cli.out)]
  /\ cli' = [cli EXCEPT !.out = Tail(@)]
  /\ UNCHANGED <<link, sent, hist>>

\* RequestUsername::username()
AnswerUsername ==
  /\ CliHere /\ cli.ev = "Username"
  /\ \E u \in Users : cli' = ResumeUsername(cli, u)
  /\ UNCHANGED <<link, srv, sent, hist>>

\* RequestPassword::password() and skip()
AnswerPassword ==
  /\ CliHere /\ cli.ev = "Password"
  /\ \/ /\ cli.answers < MaxAnswers
        /\ cli' = [ResumePassword(cli, TRUE) EXCEPT !.answers = @ + 1]
     \/ cli' = ResumePassword(cli, FALSE)
  /\ UNCHANGED <<link, srv, sent, hist>>

\* RequestPubkey::pubkey() and skip()
AnswerPubkey ==
  /\ CliHere /\ cli.ev = "Pubkey"
  /\ \/ /\ cli.answers < MaxAnswers
        /\ \E k \in Keys :
             cli' = [ResumePubkey(cli, k) EXCEPT !.answers = @ + 1]
     \/ cli' = ResumePubkey(cli, NoKey)
  /\ UNCHANGED <<link, srv, sent, hist>>

\* RequestSign::signed() and skip(); the agent may sign wrongly
AnswerAgentSign ==
  /\ CliHere /\ cli.ev = "AgentSign"
  /\ \E sig \in Signatures : cli' = ResumeAgentSign(cli, sig)
  /\ UNCHANGED <<link, srv, sent, hist>>

\* A request of the client that is dropped unanswered fails the next
\* progress()
DropEvent ==
  /\ CliHere /\ cli.ev \in CliResumable
  /\ cli' = Fail(cli, "BadUsage")
  /\ UNCHANGED <<link, srv, sent, hist>>

\* The server's application decides
AnswerServAuth(allow) ==
  /\ SrvHere /\ srv.ev \in ServResumable
  /\ srv' = AnswerAuth(srv, allow)
  /\ hist' = IF allow THEN [hist EXCEPT !.allowed = @ \cup {srv.ev},
                                        !.badSig = @ \/ srv.rx.s = "invalid"]
             ELSE hist
  /\ UNCHANGED <<link, cli, sent>>

\* set_auth_methods(), enable_password_auth(), enable_pubkey_auth() of the
\* three events
SetAuthMethods ==
  /\ SrvHere /\ srv.ev \in ServResumable
  /\ \E pw, pk \in BOOLEAN :
       srv' = [srv EXCEPT !.password = pw, !.pubkey = pk]
  /\ UNCHANGED <<link, cli, sent, hist>>

\* The other implementation, in either role
OtherRequests ==
  {ServiceRequest(m) : m \in {"userauth", "connection", "other"}}
    \cup {UserauthRequest(u, m, NoKey, "absent") :
            u \in Users, m \in {"none", "password", "other"}}
    \cup {UserauthRequest(u, "publickey", k, s) :
            u \in Users, k \in Keys, s \in Signatures}

OtherReplies ==
  {Msg(t) : t \in {"ServiceAccept", "UserauthSuccess", "UserauthBanner"}}
    \cup {ExtInfo(ms) : ms \in {{}, {"ed25519"}, {"rsa-sha2"}}}
    \cup {UserauthFailure(ms) : ms \in SUBSET Methods}
    \cup {Userauth60(k) : k \in Keys \cup {NoKey}}

OtherClientSends ==
  /\ link = "otherClient" /\ sent < MaxOther
  /\ \E p \in OtherRequests : cli' = Send(cli, p)
  /\ sent' = sent + 1
  /\ UNCHANGED <<link, srv, hist>>

OtherServerSends ==
  /\ link = "otherServer" /\ sent < MaxOther
  /\ \E p \in OtherReplies : srv' = Send(srv, p)
  /\ sent' = sent + 1
  /\ UNCHANGED <<link, cli, hist>>

\* It reads what this library sends
OtherReads ==
  \/ /\ link = "otherClient" /\ srv.out # <<>>
     /\ srv' = [srv EXCEPT !.out = Tail(@)]
     /\ UNCHANGED <<link, cli, sent, hist>>
  \/ /\ link = "otherServer" /\ cli.out # <<>>
     /\ cli' = [cli EXCEPT !.out = Tail(@)]
     /\ UNCHANGED <<link, srv, sent, hist>>

-----------------------------------------------------------------------------
Init ==
  /\ link \in Links
  /\ cli = NewClient
  /\ srv = IF link = "otherServer" THEN [NewServer EXCEPT !.out = <<>>]
           ELSE NewServer
  /\ sent = 0
  /\ hist = [users |-> {}, firsts |-> 0, allowed |-> {}, badSig |-> FALSE]

CliAnswer ==
  \/ AnswerUsername \/ AnswerPassword \/ AnswerPubkey \/ AnswerAgentSign
  \/ DropEvent

SrvAnswer == \E allow \in BOOLEAN : AnswerServAuth(allow)

Next ==
  \/ CliProgress \/ CliInput \/ CliAnswer
  \/ SrvProgress \/ SrvInput \/ SrvAnswer \/ SetAuthMethods
  \/ OtherClientSends \/ OtherServerSends \/ OtherReads

\* Both ends are driven and both applications answer; nobody has to change
\* the methods, and another implementation has to do nothing
Fairness ==
  /\ WF_vars(CliProgress) /\ WF_vars(CliInput) /\ WF_vars(CliAnswer)
  /\ WF_vars(SrvProgress) /\ WF_vars(SrvInput) /\ WF_vars(SrvAnswer)

Spec == Init /\ [][Next]_vars

FairSpec == Spec /\ Fairness

-----------------------------------------------------------------------------
(* Properties.                                                             *)

\* The state of both ends has the types of the code, and a key is kept
\* exactly in the state RequestKey, whose field it is.
TypeOK ==
  /\ link \in Links /\ sent \in 0..MaxOther
  /\ cli \in Client /\ (cli.key # NoKey <=> cli.state = "RequestKey")
  /\ srv \in Server /\ (srv.authed <=> srv.conn = "Authed")

\* A user is authenticated only by an attempt the server's application
\* allowed (ServFirstAuth, ServPasswordAuth and ServPubkeyAuth::allow()): a
\* key that was only asked about does not log in, whatever was allowed
\* before, nor does a signature that does not verify.  The user is the one of
\* every attempt before: all events show the application the same name, as
\* ServFirstAuth::username() promises, and FirstAuth comes at most once, as
\* ServAuth::tried_first is for.  A client of this library takes itself to be
\* authenticated only when the server does.
AuthedByAllow ==
  /\ TypeOK
  /\ srv.authed =>
       \E e \in {"FirstAuth", "PasswordAuth", "PubkeySigned"} :
         e \in hist.allowed
  /\ ~hist.badSig
  /\ (\A u, v \in hist.users : u = v) /\ hist.firsts <= 1
  /\ link = "sunset" /\ cli.conn = "Authed" => srv.authed

\* Two ends of this library never take each other's authentication messages
\* for a protocol error: message 60 is decoded with the type of the request
\* it answers (ParseContext::cli_auth_type) and finds the key it names in
\* RequestKey, through every order of keys, agent signatures and passwords.
Understood ==
  link = "sunset" =>
    /\ cli.err \notin {"SSHProto", "PacketWrong", "PasswordExpired", "Bug"}
    /\ srv.err = "ok"

\* At most one request is under way: unanswered at the server, its answer on
\* the way, or an event or extra event at the client for what to try next.
\* Then every answer is an answer to the request whose state CliAuth keeps.
IsRequest(p) == p.t = "UserauthRequest"
IsAnswer(p) == p.t \in {"UserauthFailure", "UserauthSuccess", "Userauth60"}
Holds(x) ==
  \/ x = "srv.rx" /\ IsRequest(srv.rx)
  \/ x = "cli.rx" /\ IsAnswer(cli.rx) /\ cli.ev \notin CliResumable
  \/ x = "cli.ev" /\ cli.ev \in CliResumable
  \/ x = "cli.extra" /\ cli.extra # "None"
UnderWay ==
  {<<"cli.out", i>> : i \in {j \in 1..Len(cli.out) : IsRequest(cli.out[j])}}
    \cup {<<"srv.out", i>> :
            i \in {j \in 1..Len(srv.out) : IsAnswer(srv.out[j])}}
    \cup {<<x, 0>> :
            x \in {y \in {"srv.rx", "cli.rx", "cli.ev", "cli.extra"} :
                     Holds(y)}}
OneAtATime == link = "sunset" => \A a, b \in UnderWay : a = b

\* Authentication comes to an end: the client is logged in, or it ends with
\* an error and the server has not logged it in.
Settles ==
  link = "sunset" => []<>(\/ cli.conn = "Authed"
                          \/ cli.err # "ok" /\ ~srv.authed)

=============================================================================
