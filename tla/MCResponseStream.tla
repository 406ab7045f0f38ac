-------------------------- MODULE MCResponseStream --------------------------
(* ResponseStream on small instances.                                        *)
EXTENDS ResponseStream
=============================================================================
