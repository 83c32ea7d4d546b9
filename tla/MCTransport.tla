---------------------------- MODULE MCTransport ----------------------------
(***************************************************************************)
(* Transport on small instances.                                           *)
(***************************************************************************)
EXTENDS Transport

\* bounds of the two ends
None      == [client |-> 0, server |-> 0]
One       == [client |-> 1, server |-> 1]
Two       == [client |-> 2, server |-> 2]
ClientTwo == [client |-> 2, server |-> 1]
=============================================================================
