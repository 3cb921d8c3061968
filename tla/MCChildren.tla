----------------------------- MODULE MCChildren -----------------------------
(* Two children of an adopting process, one of their handles dropped.       *)
EXTENDS Children
=============================================================================
