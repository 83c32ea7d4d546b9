------------------------------- MODULE MCAuth -------------------------------
(* Authentication with an agent's key, an RSA key, a key of a type the      *)
(* server does not know, and a user name that is too long.                  *)
EXTENDS Auth
=============================================================================
