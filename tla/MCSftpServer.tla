---------------------------- MODULE MCSftpServer ----------------------------
(***************************************************************************)
(* Small instances of SftpServer for TLC.                                  *)
(***************************************************************************)
EXTENDS SftpServer

Make(op, body, data, handle) ==
  [op |-> op, body |-> body, data |-> data, handle |-> handle, utf8 |-> TRUE]

ReadReq == Make("Read", 1, 0, "file")
WriteReq == Make("Write", 1, 2, "file")

\* one request for each way through the handler: a wrong handle, a name too
\* long for REQ_BUF, a name that is not text, an unknown packet, a bad one and
\* a bad Write, and a Write to a directory
Mixed == {ReadReq, WriteReq, Make("ReadDir", 1, 0, "file"),
          Make("PathInfo", 1, 0, "none"), Make("ReadDir", 1, 0, "dir"),
          Make("Stat", 2, 0, "none"), Make("Other", 1, 0, "none"),
          Make("Bad", 0, 0, "none"), Make("Write", 1, 0, "file"),
          Make("Write", 1, 1, "dir"), Make("Bad", 1, 1, "none"),
          [Make("Open", 1, 0, "none") EXCEPT !.utf8 = FALSE]}

ReadsOnly == {ReadReq}
=============================================================================
