----------------------------- MODULE MCStartup -----------------------------
(* Starts of one binary over its cached entry.                             *)
EXTENDS Startup

StampSpec == StartupInit /\ [][StampNext]_startupVars
=============================================================================
