--------------------------- MODULE MCSignalGuard ----------------------------
(* SignalGuard on a few guards and tasks.                                  *)
EXTENDS SignalGuard
=============================================================================
