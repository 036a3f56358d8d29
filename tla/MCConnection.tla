---------------------------- MODULE MCConnection ----------------------------
(* Connection for TLC: one address, whose attempts and datagrams interfere.  *)
EXTENDS Connection
=============================================================================
