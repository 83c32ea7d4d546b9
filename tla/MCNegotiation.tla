---------------------------- MODULE MCNegotiation ----------------------------
(***************************************************************************)
(* Peers that offer up to two kex methods in any order, known to this end  *)
(* or not, with and without each marker, and every first choice of a host  *)
(* key signature; and peers whose two directions differ in cipher, MAC or  *)
(* compression.                                                            *)
(***************************************************************************)
EXTENDS Negotiation

AllBuilds == SUBSET {"mlkem", "rsa"}
SomeKeys == {{}, {"ed25519"}, {"ed25519", "rsa"}}

Lists(names) ==
  {<<>>} \cup {<<n>> : n \in names}
         \cup {<<p[1], p[2]>> : p \in {q \in names \X names : q[1] # q[2]}}

MethodLists == Lists({"mlkem768", "curve25519", "curve25519@libssh", "dh14"})
SigLists == Lists({"ed25519", "rsa512"}) \cup {<<"rsa256">>}

Offer(k, h, cc, cs, mc, ms, zip, ff) ==
  [kex |-> k, hostsig |-> h, cipher_c2s |-> cc, cipher_s2c |-> cs,
   mac_c2s |-> mc, mac_s2c |-> ms, comp_c2s |-> <<"none">>,
   comp_s2c |-> zip, first_follows |-> ff]

Usual(k, h, ff) ==
  Offer(k, h, <<"chapoly">>, <<"chapoly">>, <<>>, <<>>, <<"none">>, ff)

CipherLists ==
  {<<"chapoly", "aes256ctr">>, <<"aes256ctr", "chapoly">>, <<"aes256ctr">>,
   <<"aes128ctr">>}
MacLists == {<<"hmac512", "hmac256">>, <<"hmac512">>}

Offers(markers) ==
  {Usual(k \o m, h, ff) :
     k \in MethodLists, m \in markers, h \in SigLists, ff \in BOOLEAN}
  \cup
  {Offer(<<"curve25519">>, <<"ed25519">>, cc, cs, mc, ms, zip, FALSE) :
     cc \in CipherLists, cs \in CipherLists, mc \in MacLists,
     ms \in MacLists, zip \in {<<"none">>, <<"zlib">>}}

FromClients ==
  Offers({<<>>, <<"kexguess2">>, <<"ext-info-c", "kex-strict-c">>,
          <<"kex-strict-c", "kexguess2">>})
FromServers ==
  Offers({<<>>, <<"kexguess2">>, <<"kex-strict-s", "kexguess2">>})
=============================================================================
