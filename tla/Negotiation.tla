----------------------------- MODULE Negotiation -----------------------------
(***************************************************************************)
(* Algorithm negotiation and the exchange that follows it: AlgoConfig,     *)
(* algo_negotiation() and the KexDH handlers of kex.rs, and the name lists *)
(* of namelist.rs.  One end is this library, as client or as server and    *)
(* built with or without its optional algorithms.  The other is a peer     *)
(* that follows RFC 4253: it may prefer other algorithms, may have none in *)
(* common, and may guess, that is send its first kex packet together with  *)
(* its KexInit (first_follows) before it knows what is negotiated.         *)
(*                                                                         *)
(* A name list is a sequence of names.  An exchange value (q_c, q_s) is    *)
(* the scheme it was made for and a number that tells two values of one    *)
(* end apart.  Which packets an end sends while it exchanges keys, and     *)
(* when, is modelled in Transport.                                         *)
(***************************************************************************)
EXTENDS Naturals, Sequences, SequencesExt

CONSTANTS
  Builds,       \* sets of optional features this end may be built with
  HostKeySets,  \* sets of host keys a server's application may hold
  ClientOffers, \* KexInits a peer that is a client may send
  ServerOffers  \* KexInits a peer that is a server may send

Marker_only_kexs ==
  {"ext-info-c", "ext-info-s", "kexguess2", "kex-strict-c", "kex-strict-s"}

KexMethods == {"mlkem768", "curve25519", "curve25519@libssh"}
SigTypes == {"ed25519", "rsa512", "rsa256"}
NoName == ""

KexInit == [kex: Seq(STRING), hostsig: Seq(STRING),
            cipher_c2s: Seq(STRING), cipher_s2c: Seq(STRING),
            mac_c2s: Seq(STRING), mac_s2c: Seq(STRING),
            comp_c2s: Seq(STRING), comp_s2c: Seq(STRING),
            first_follows: BOOLEAN]

ASSUME NegotiationAssumption ==
  /\ Builds \subseteq SUBSET {"mlkem", "rsa"}
  /\ {} \in HostKeySets /\ HostKeySets \subseteq SUBSET {"ed25519", "rsa"}
  /\ ClientOffers \subseteq KexInit
  /\ ServerOffers \subseteq KexInit

VARIABLES
  us,       \* this end: its role, its build and its host keys
  remote,   \* the KexInit of the peer
  kex,      \* state of this end's Kex, or the error it stopped with
  algos,    \* Algos, once negotiated
  hash,     \* what was hashed for H
  signed,   \* type of the signature in the KexDHReply a server has sent
  wire,     \* packets from the peer
  heard     \* whether the peer has handled our part

vars == <<us, remote, kex, algos, hash, signed, wire, heard>>

-----------------------------------------------------------------------------
(* namelist.rs *)

\* Of the names of one list that are in the other, the first
FirstOf(list, other) ==
  LET at == SelectInSeq(list, LAMBDA n : Contains(other, n))
  IN  IF at = 0 THEN NoName ELSE list[at]

\* Mutant: priority by our own list
StringMatchByOptions(self, options) == FirstOf(options, self)

\* self is the remote list
First_string_match(self, options) == FirstOf(self, options)

First_options_match(self, options) == FirstOf(options, self)

First_match(self, is_client, our_options) ==
  IF is_client THEN First_options_match(self, our_options)
               ELSE First_string_match(self, our_options)

Has_algo(self, algo) == Contains(self, algo)

First(self) == IF self = <<>> THEN NoName ELSE self[1]

-----------------------------------------------------------------------------
(* What this end offers *)

Fixed_options_kex(features) ==
  (IF "mlkem" \in features THEN <<"mlkem768">> ELSE <<>>)
    \o <<"curve25519", "curve25519@libssh">>

Fixed_options_hostsig(features) ==
  <<"ed25519">>
    \o (IF "rsa" \in features THEN <<"rsa512", "rsa256">> ELSE <<>>)

\* AlgoConfig::new() of a role and a build
AlgoConfig(end) ==
  [kexs    |-> Fixed_options_kex(end.features)
                 \o (IF end.client THEN <<"ext-info-c", "kex-strict-c">>
                                   ELSE <<"kex-strict-s">>)
                 \o <<"kexguess2">>,
   hostsig |-> Fixed_options_hostsig(end.features),
   ciphers |-> <<"chapoly", "aes256ctr">>,
   macs    |-> <<"hmac256">>,
   comps   |-> <<"none">>]

Make_kexinit(conf) ==
  [kex |-> conf.kexs, hostsig |-> conf.hostsig,
   cipher_c2s |-> conf.ciphers, cipher_s2c |-> conf.ciphers,
   mac_c2s |-> conf.macs, mac_s2c |-> conf.macs,
   comp_c2s |-> conf.comps, comp_s2c |-> conf.comps,
   first_follows |-> FALSE]

-----------------------------------------------------------------------------
(* algo_negotiation() *)

\* SharedSecret::from_name(): both names of curve25519 are one scheme
Scheme(name) == IF name = "curve25519@libssh" THEN "curve25519" ELSE name

\* Cipher::integ(): the integrity an AEAD cipher brings, else the one of the
\* negotiated MAC
Integ(cipher, mac) == IF cipher = "chapoly" THEN "chapoly" ELSE mac

\* Mutants: one rule for all peers
GoodguessNegotiated(kexguess2, list, method, options) == First(list) = method

GoodguessPreferred(kexguess2, list, method, options) ==
  First(list) = First(options)

\* A guess is good, for peers that know kexguess2, when it is what was
\* negotiated, and for others when both ends prefer the same
Goodguess(kexguess2, list, method, options) ==
  First(list) = (IF kexguess2 THEN method ELSE First(options))

Other_strict(is_client) == IF is_client THEN "kex-strict-s" ELSE "kex-strict-c"

NoAlgos == [kex |-> NoName]

Algo_negotiation(is_client, p, conf) ==
  LET Match(list, options) == First_match(list, is_client, options)
      kexguess2 == Has_algo(p.kex, "kexguess2")
      kex_method == Match(p.kex, conf.kexs)
      hostsig_method == Match(p.hostsig, conf.hostsig)
      cipher_tx == IF is_client THEN p.cipher_c2s ELSE p.cipher_s2c
      cipher_rx == IF is_client THEN p.cipher_s2c ELSE p.cipher_c2s
      mac_tx == IF is_client THEN p.mac_c2s ELSE p.mac_s2c
      mac_rx == IF is_client THEN p.mac_s2c ELSE p.mac_c2s
      cipher_enc == Match(cipher_tx, conf.ciphers)
      cipher_dec == Match(cipher_rx, conf.ciphers)
      integ_enc == Integ(cipher_enc, Match(mac_tx, conf.macs))
      integ_dec == Integ(cipher_dec, Match(mac_rx, conf.macs))
      goodguess == /\ Goodguess(kexguess2, p.kex, kex_method, conf.kexs)
                   /\ Goodguess(kexguess2, p.hostsig, hostsig_method,
                                conf.hostsig)
  IN  IF \/ kex_method \in {NoName} \cup Marker_only_kexs
         \/ NoName \in {hostsig_method, cipher_enc, cipher_dec, integ_enc,
                        integ_dec, Match(p.comp_c2s, conf.comps),
                        Match(p.comp_s2c, conf.comps)}
      THEN NoAlgos
      ELSE [kex |-> Scheme(kex_method), hostsig |-> hostsig_method,
            cipher_enc |-> cipher_enc, cipher_dec |-> cipher_dec,
            integ_enc |-> integ_enc, integ_dec |-> integ_dec,
            discard_next |-> p.first_follows /\ ~goodguess,
            send_ext_info |-> ~is_client /\ Has_algo(p.kex, "ext-info-c"),
            strict_kex |-> Has_algo(p.kex, Other_strict(is_client))]

-----------------------------------------------------------------------------
(* What the peer computes, by RFC 4253 sections 7.1 and 8 *)

Ours == Make_kexinit(AlgoConfig(us))
ClientInit == IF us.client THEN Ours ELSE remote
ServerInit == IF us.client THEN remote ELSE Ours

\* The algorithm both ends have that comes before the others they share in
\* the list of the client
Preferred(client, server) ==
  LET common == (Range(client) \cap Range(server)) \ Marker_only_kexs
      Place(n) == CHOOSE i \in DOMAIN client : client[i] = n
  IN  IF common = {} THEN NoName
      ELSE CHOOSE n \in common : \A m \in common : Place(n) <= Place(m)

\* What is agreed on for one field of the KexInits
Agreed(field) == Preferred(ClientInit[field], ServerInit[field])

Integrity(cipher, mac) == IF cipher = "chapoly" THEN cipher ELSE mac

AgreedInteg(cipher, mac) == Integrity(Agreed(cipher), Agreed(mac))

CanAgree ==
  NoName \notin {Agreed("kex"), Agreed("hostsig"), Agreed("cipher_c2s"),
                 Agreed("cipher_s2c"), Agreed("comp_c2s"), Agreed("comp_s2c"),
                 AgreedInteg("cipher_c2s", "mac_c2s"),
                 AgreedInteg("cipher_s2c", "mac_s2c")}

BothStrict == /\ Contains(ClientInit.kex, "kex-strict-c")
              /\ Contains(ServerInit.kex, "kex-strict-s")

\* Whether the peer's first kex packet stands
GuessStands ==
  \A field \in {"kex", "hostsig"} :
    IF Contains(remote.kex, "kexguess2")
    THEN First(remote[field]) = Agreed(field)
    ELSE First(remote[field]) = First(Ours[field])

\* Exchange values: of this end, guessed by the peer, and made by it for the
\* agreed method
OurValue == [by |-> "us", kex |-> algos.kex]
GuessValue == [by |-> "guess", kex |-> Scheme(First(remote.kex))]
PeerValue == [by |-> "peer", kex |-> Scheme(Agreed("kex"))]

\* The value of the peer that counts
Meant == IF remote.first_follows /\ GuessStands THEN GuessValue ELSE PeerValue

\* can_sign(): the key that makes a signature of a type
HostKeyOf(sig) == IF sig = "ed25519" THEN "ed25519" ELSE "rsa"

\* SignKey::sign(): the type of signature a key makes
Sign(key) == IF key = "ed25519" THEN "ed25519" ELSE "rsa256"

\* The shared secret, and how its scheme encodes it
Secret(q, r) ==
  [enc |-> IF q.kex = "mlkem768" THEN "String" ELSE "Mpint", of |-> {q, r}]

\* V_C, V_S, I_C, I_S, K_S, q_c, q_s, K
PeerHash ==
  IF us.client
  THEN <<"us", "peer", ClientInit, ServerInit, HostKeyOf(Agreed("hostsig")),
         OurValue, Meant, Secret(OurValue, Meant)>>
  ELSE <<"peer", "us", ClientInit, ServerInit, HostKeyOf(Agreed("hostsig")),
         Meant, OurValue, Secret(Meant, OurValue)>>

-----------------------------------------------------------------------------
(* The exchange *)

Packet(t, q, k_s, sig) == [t |-> t, q |-> q, k_s |-> k_s, sig |-> sig]
Signature(type, h) == [type |-> type, h |-> h]
NoSignature == Signature(NoName, <<>>)
KexInitPacket == Packet("KexInit", NoAlgos, NoName, NoSignature)
KexDHInit(q) == Packet("KexDHInit", q, NoName, NoSignature)
KexDHReply(q, k_s, sig) == Packet("KexDHReply", q, k_s, sig)

\* A server cannot sign a reply before it has our value, so a guess of a
\* server that stands is no exchange at all (Algos::discard_next)
Init ==
  /\ us \in [client: BOOLEAN, features: Builds, keys: HostKeySets]
  /\ us.client => us.keys = {}
  /\ "rsa" \in us.keys => "rsa" \in us.features
  /\ remote \in IF us.client THEN ServerOffers ELSE ClientOffers
  /\ us.client /\ remote.first_follows => ~GuessStands
  /\ kex = "KexInit"
  /\ algos = NoAlgos
  /\ hash = <<>>
  /\ signed = NoName
  /\ wire = <<KexInitPacket>>
              \o (IF ~remote.first_follows THEN <<>>
                  ELSE IF us.client
                       THEN <<KexDHReply(GuessValue, "ed25519", NoSignature)>>
                       ELSE <<KexDHInit(GuessValue)>>)
  /\ heard = FALSE

\* KexHash::new()
KexHashNew ==
  IF us.client THEN <<"us", "peer", Ours, remote>>
               ELSE <<"peer", "us", remote, Ours>>

\* hash_hostkey(), hash_pubkeys() and finish(), on what is hashed already
KexOutput(k_s, theirs) ==
  hash \o (IF us.client THEN <<k_s, OurValue, theirs>>
                        ELSE <<k_s, theirs, OurValue>>)
       \o <<Secret(OurValue, theirs)>>

Receive(t) == wire # <<>> /\ Head(wire).t = t /\ wire' = Tail(wire)

\* handle_kexinit(); a client's KexDHInit leaves with it
HandleKexInit ==
  /\ kex = "KexInit"
  /\ Receive("KexInit")
  /\ algos' = Algo_negotiation(us.client, remote, AlgoConfig(us))
  /\ IF algos' = NoAlgos
     THEN kex' = "AlgoNoMatch" /\ hash' = hash
     ELSE kex' = "KexDH" /\ hash' = KexHashNew
  /\ UNCHANGED <<us, remote, signed, heard>>

Discard ==
  /\ algos' = [algos EXCEPT !.discard_next = FALSE]
  /\ UNCHANGED <<kex, hash, signed>>

Stop(error) == kex' = error /\ UNCHANGED <<algos, hash, signed>>

\* SharedSecret::handle_kexdhinit(), which a value of another scheme's length
\* fails, with send_kexdhreply(), then send_newkeys()
AnswerKexDHInit(p) ==
  LET k_s == HostKeyOf(algos.hostsig)
  IN  IF k_s \notin us.keys THEN Stop("BadUsage")
      ELSE IF p.q.kex # algos.kex THEN Stop("BadKex")
      ELSE /\ kex' = "NewKeys"
           /\ hash' = KexOutput(k_s, p.q)
           /\ signed' = Sign(k_s)
           /\ UNCHANGED algos

\* handle_kexdhinit(), and resume_kexdhinit() when the application has given
\* its host keys
HandleKexDHInit ==
  /\ kex = "KexDH"
  /\ ~us.client
  /\ Receive("KexDHInit")
  /\ IF algos.discard_next THEN Discard ELSE AnswerKexDHInit(Head(wire))
  /\ UNCHANGED <<us, remote, heard>>

\* SharedSecret::handle_kexdhreply() and send_newkeys()
CheckKexDHReply(p) ==
  IF p.q.kex # algos.kex THEN Stop("BadKex")
  ELSE IF \/ p.k_s # HostKeyOf(algos.hostsig)
          \/ p.sig # Signature(algos.hostsig, KexOutput(p.k_s, p.q))
  THEN Stop("BadSig")
  ELSE /\ kex' = "NewKeys"
       /\ hash' = KexOutput(p.k_s, p.q)
       /\ UNCHANGED <<algos, signed>>

\* handle_kexdhreply(), and resume_kexdhreply() when the application has
\* accepted the host key
HandleKexDHReply ==
  /\ kex = "KexDH"
  /\ us.client
  /\ Receive("KexDHReply")
  /\ IF algos.discard_next THEN Discard ELSE CheckKexDHReply(Head(wire))
  /\ UNCHANGED <<us, remote, heard>>

\* A peer that is a client has our KexInit, and sends its KexDHInit unless
\* the one it guessed stands
PeerInit ==
  /\ ~us.client /\ ~heard
  /\ heard' = TRUE
  /\ wire' = IF CanAgree /\ Meant = PeerValue
             THEN Append(wire, KexDHInit(PeerValue)) ELSE wire
  /\ UNCHANGED <<us, remote, kex, algos, hash, signed>>

\* A peer that is a server has our KexInit and our KexDHInit
PeerReply ==
  /\ us.client /\ ~heard /\ kex = "KexDH"
  /\ heard' = TRUE
  /\ wire' = Append(wire,
       KexDHReply(PeerValue, HostKeyOf(Agreed("hostsig")),
                  Signature(Agreed("hostsig"), PeerHash)))
  /\ UNCHANGED <<us, remote, kex, algos, hash, signed>>

Next ==
  \/ HandleKexInit
  \/ HandleKexDHInit
  \/ HandleKexDHReply
  \/ PeerInit
  \/ PeerReply

Spec == Init /\ [][Next]_vars

FairSpec == Spec /\ WF_vars(Next)

-----------------------------------------------------------------------------
Errors == {"AlgoNoMatch", "BadUsage", "BadKex", "BadSig"}
Ended == kex \in Errors \cup {"NewKeys"}

Algos == [kex: {Scheme(m) : m \in KexMethods}, hostsig: SigTypes,
          cipher_enc: {"chapoly", "aes256ctr"},
          cipher_dec: {"chapoly", "aes256ctr"},
          integ_enc: {"chapoly", "hmac256"}, integ_dec: {"chapoly", "hmac256"},
          discard_next: BOOLEAN, send_ext_info: BOOLEAN, strict_kex: BOOLEAN]

\* Every method that algo_negotiation() returns is one that from_name() of
\* its kind can make
TypeOK ==
  /\ us \in [client: BOOLEAN, features: Builds, keys: HostKeySets]
  /\ remote \in KexInit
  /\ kex \in {"KexInit", "KexDH", "NewKeys"} \cup Errors
  /\ algos \in Algos \cup {NoAlgos}
  /\ kex \in {"KexDH", "NewKeys"} => algos \in Algos
  /\ signed \in SigTypes \cup {NoName}
  /\ Len(wire) <= 3
  /\ heard \in BOOLEAN

\* What algo_negotiation() selects from the peer's KexInit and this end's
\* configuration is what the peer selects from the two KexInits: the same
\* methods, for each direction the same cipher and MAC, strict kex on both
\* ends or on neither; and it fails exactly when nothing can be agreed on
SidesAgree ==
  /\ TypeOK
  /\ kex = "AlgoNoMatch" => ~CanAgree
  /\ algos # NoAlgos =>
       LET tx == IF us.client THEN "c2s" ELSE "s2c"
           Enc(d) == IF d = tx THEN <<algos.cipher_enc, algos.integ_enc>>
                               ELSE <<algos.cipher_dec, algos.integ_dec>>
       IN  /\ CanAgree
           /\ algos.kex = Scheme(Agreed("kex"))
           /\ algos.hostsig = Agreed("hostsig")
           /\ Enc("c2s") = <<Agreed("cipher_c2s"),
                             AgreedInteg("cipher_c2s", "mac_c2s")>>
           /\ Enc("s2c") = <<Agreed("cipher_s2c"),
                             AgreedInteg("cipher_s2c", "mac_s2c")>>
           /\ algos.strict_kex = BothStrict

\* Both ends hash the same for H, from the packet the peer means and not from
\* its guess, whichever end is the client (KexHash).  Once a method is agreed
\* on the exchange does not break down: a guess that does not stand is never
\* taken for the peer's value (discard_next), and the host's signature is over
\* what this end has hashed.
SameHash ==
  /\ kex = "NewKeys" => hash = PeerHash
  /\ kex \notin {"BadKex", "BadSig"}

\* The host key that can_sign() finds makes a signature of the agreed type
SignedAsAgreed == signed # NoName => signed = Agreed("hostsig")

\* The exchange ends: this end discards no packet that the peer does not send
\* again (discard_next is set only for a wrong guess, and once)
Completes == <>Ended
=============================================================================
