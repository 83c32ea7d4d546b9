------------------------------ MODULE MCClient ------------------------------
(***************************************************************************)
(* Routes of one and two hops: a sound one with input and output on both   *)
(* streams, re-keying, the four host key policies over two connections,    *)
(* identity files with an agent, and the faults of servers and network.    *)
(***************************************************************************)
EXTENDS Client

NoAgent == [use |-> FALSE, up |-> FALSE, keys |-> <<>>, supported |-> {},
            signs |-> FALSE]
AnAgent == [use |-> TRUE, up |-> TRUE, keys |-> <<"sk", "f2", "a1">>,
            supported |-> {"f2", "a1"}, signs |-> TRUE]

File(k, kind) == [k |-> k, kind |-> kind]

Hop(name, checking) ==
  [name |-> name, checking |-> checking, files |-> <<File("f1", "plain")>>,
   agent |-> NoAgent, idsOnly |-> FALSE, valid |-> TRUE, badFile |-> FALSE,
   writable |-> TRUE]

\* An agent beside a file that can sign, one that cannot and one not there
AgentHop(only) ==
  [Hop("jump", "yes") EXCEPT
     !.files = <<File("f3", "missing"), File("f2", "handle"),
                 File("f1", "plain")>>,
     !.agent = AnAgent, !.idsOnly = only]

Known == {<<"jump", "k1">>, <<"dest", "k2">>}

One ==
  [opts |-> <<Hop("jump", "yes")>>, known |-> Known,
   keys |-> <<<< <<"k1">>, <<"k2">> >>, << <<"k1">>, <<"k2">> >>>>,
   authorized |-> <<{"f1"}, {"f1"}>>, opens |-> <<TRUE, TRUE>>,
   items |-> <<"data">>, stdin |-> FALSE, tries |-> 1, hangup |-> FALSE,
   drop |-> FALSE, silence |-> FALSE]

Two == [One EXCEPT !.opts = <<Hop("jump", "ask"), Hop("dest", "yes")>>]

Streams == [One EXCEPT !.items = <<"data", "data", "stderr", "data">>,
                       !.stdin = TRUE]

TwoInput == [Two EXCEPT !.stdin = TRUE]

TwoStreams == [Two EXCEPT !.items = <<"data", "stderr">>]

Rekeys(k) == [One EXCEPT !.items = <<"data", "data">>,
                         !.keys[1][1] = <<"k1", k>>]

InnerRekeys == [Two EXCEPT !.keys[1] = << <<"k1">>, <<"k2", "k2">> >>]

\* No entry to begin with; another key at the re-key, or the next time
Policy(checking, k, l) ==
  [One EXCEPT !.opts = <<Hop("new", checking)>>, !.tries = 2,
              !.keys = <<<< <<"k1", k>>, <<"k2">> >>, << <<l>>, <<"k2">> >>>>]

WithAgent(only, ks, signs) ==
  [One EXCEPT !.opts = <<[AgentHop(only) EXCEPT !.agent.signs = signs]>>,
              !.authorized = <<ks, {}>>]

Down == [WithAgent(FALSE, {"f1"}, TRUE) EXCEPT !.opts[1].agent.up = FALSE]

SomeScenarios ==
  {Streams, TwoInput, TwoStreams, Rekeys("k1"), Rekeys("k2"), InnerRekeys, Down}
    \cup {Policy("accept-new", "k1", "k1"), Policy("accept-new", "k2", "k1"),
          Policy("accept-new", "k1", "k2"), Policy("no", "k2", "k3"),
          Policy("yes", "k1", "k1"), Policy("ask", "k1", "k1"),
          [Policy("accept-new", "k1", "k1") EXCEPT !.opts[1].writable = FALSE]}
    \cup {WithAgent(only, {k}, TRUE) : only \in BOOLEAN, k \in {"f2", "a1", "f1"}}
    \cup {WithAgent(FALSE, {"a1"}, FALSE)}
    \cup {[Two EXCEPT !.opens = <<FALSE, TRUE>>],
          [Two EXCEPT !.opts[2].badFile = TRUE],
          [Two EXCEPT !.opts[2].valid = FALSE],
          [One EXCEPT !.opens = <<FALSE, TRUE>>],
          [One EXCEPT !.hangup = TRUE, !.items = <<"data", "data">>],
          [Two EXCEPT !.hangup = TRUE],
          [One EXCEPT !.drop = TRUE], [Two EXCEPT !.drop = TRUE],
          [One EXCEPT !.silence = TRUE], [Two EXCEPT !.silence = TRUE]}
=============================================================================
