----------------------------- MODULE MCChannels -----------------------------
(***************************************************************************)
(* A small instance of Channels for TLC.                                   *)
(***************************************************************************)
EXTENDS Channels

ForeignServer == {"server"}

\* bounds of the two ends
ClientOne == [client |-> 1, server |-> 0]
ServerThree == [client |-> 0, server |-> 3]
=============================================================================
