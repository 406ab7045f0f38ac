----------------------------- MODULE MCShutdown -----------------------------
(* Shutdown on small instances.                                              *)
EXTENDS Shutdown
=============================================================================
