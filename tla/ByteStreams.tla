---------------------------- MODULE ByteStreams ----------------------------
(***************************************************************************)
(* What channels promise: streams of bytes, each with one writer and one   *)
(* reader.  Bytes are counted, and more than one stream may take a step at *)
(* the same time.                                                          *)
(***************************************************************************)
EXTENDS Naturals

CONSTANT Streams

VARIABLE stream

\* wrote, got: bytes written and read.  ended: the writer has said that it
\* writes no more.  told: the reader was told so.  left: the reader has given
\* up.
NewStream == [wrote |-> 0, got |-> 0, ended |-> FALSE, told |-> FALSE,
              left |-> FALSE]

Init == stream = [s \in Streams |-> NewStream]

\* The steps of a stream from a to b
Write(a, b) == /\ ~ a.ended /\ b.wrote > a.wrote
               /\ b = [a EXCEPT !.wrote = b.wrote]

End(a, b) == ~ a.ended /\ b = [a EXCEPT !.ended = TRUE]

Read(a, b) == /\ ~ a.told /\ ~ a.left /\ b.got \in a.got + 1 .. a.wrote
              /\ b = [a EXCEPT !.got = b.got]

Tell(a, b) == /\ a.ended /\ a.got = a.wrote /\ ~ a.left
              /\ b = [a EXCEPT !.told = TRUE]

Leave(a, b) == b = [a EXCEPT !.left = TRUE]

Step(a, b) ==
  b = a \/ Write(a, b) \/ End(a, b) \/ Read(a, b) \/ Tell(a, b) \/ Leave(a, b)

Next == /\ DOMAIN stream' = Streams
        /\ \A s \in Streams : Step(stream[s], stream'[s])

Spec == Init /\ [][Next]_stream
=============================================================================
