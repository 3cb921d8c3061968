----------------------------- MODULE MCNetServe -----------------------------
(* A server of one listener and one connection, whose on_error may raise.  *)
EXTENDS NetServe
=============================================================================
