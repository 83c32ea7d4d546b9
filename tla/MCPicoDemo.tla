----------------------------- MODULE MCPicoDemo -----------------------------
(***************************************************************************)
(* PicoDemo with two listeners and the local menu.                         *)
(***************************************************************************)
EXTENDS PicoDemo

CONSTANTS c1, c2

TwoConns == {c1, c2}

\* one that always changes the configuration, one that may, one that makes
\* everything new
SomeCommands == {"admin_pw", "noauth_no", "erase_config"}

\* the configuration: three sessions, two changes, one fault
Saving  == [conns |-> 3, changes |-> 2, faults |-> 1, takes |-> 0,
            ins |-> 0, outs |-> 0]
\* starting: flash errors and losses of power, one after the other
Starting == [conns |-> 1, changes |-> 1, faults |-> 3, takes |-> 0,
             ins |-> 0, outs |-> 0]
\* the pipe: three sessions take it in turn or at once
Sharing == [conns |-> 3, changes |-> 0, faults |-> 0, takes |-> 3,
            ins |-> 1, outs |-> 2]
\* a little of everything
Both    == [conns |-> 2, changes |-> 1, faults |-> 1, takes |-> 1,
            ins |-> 1, outs |-> 0]

AllBudgets == {Saving, Starting, Sharing, Both}
=============================================================================
