--------------------------- MODULE MCHttpFraming ---------------------------
(* HttpFraming on small instances.                                          *)
EXTENDS HttpFraming
============================================================================
