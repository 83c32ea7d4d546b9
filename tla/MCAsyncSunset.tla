--------------------------- MODULE MCAsyncSunset ---------------------------
(* Small applications of AsyncSunset.                                      *)
EXTENDS AsyncSunset

Case(client, chans, roles, does, writes, data, req) ==
  [client |-> client, chans |-> chans, roles |-> roles, does |-> does,
   writes |-> writes, data |-> data, req |-> req]

\* Sessions with a writer, with stderr, with until_closed(), with one reader
\* and different accidents, and two sessions at once
Sessions ==
  {Case(TRUE, {0}, {"in", "out"}, {"close"}, 2, 0, 0),
   Case(FALSE, {0}, {"in", "out"}, {}, 1, 1, 0),
   Case(TRUE, {0}, {"in", "ext"}, {"close"}, 0, 1, 0),
   Case(FALSE, {0}, {"in", "ext"}, {"close"}, 1, 0, 0),
   Case(TRUE, {0}, {"in", "shut"}, {"close", "winch"}, 0, 0, 0),
   Case(FALSE, {0}, {"in", "shut"}, {"close", "hangup"}, 0, 1, 0),
   Case(FALSE, {0}, {"in"}, {"hangup"}, 0, 1, 1),
   Case(TRUE, {0}, {"in"}, {"drop", "broken"}, 0, 1, 0),
   Case(TRUE, {0}, {"in", "ext"}, {"drop", "refuse"}, 0, 0, 0),
   Case(TRUE, {0}, {"in"}, {"hasty", "refuse"}, 0, 0, 0),
   Case(TRUE, {0}, {"in"}, {}, 0, 0, 1),
   Case(TRUE, {0, 1}, {"in"}, {}, 0, 0, 0),
   Case(FALSE, {0, 1}, {"in"}, {}, 0, 0, 0)}

\* A server whose client goes away
Hangup == {Case(FALSE, {0}, {"in"}, {"hangup"}, 0, 1, 0)}
=============================================================================
