--------------------------- MODULE MCCaptureControl ---------------------------
(* An instance of CaptureControl for TLC: the configurations give the bounds. *)
EXTENDS CaptureControl
=============================================================================
