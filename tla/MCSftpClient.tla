---------------------------- MODULE MCSftpClient ----------------------------
(* SftpClient for TLC. *)
EXTENDS SftpClient
=============================================================================
