--------------------------- MODULE MCThreadControl ---------------------------
(* Instances of ThreadControl for TLC: three threads, so that a start can    *)
(* race the end of the thread before it and be followed by another.          *)
EXTENDS ThreadControl
=============================================================================
