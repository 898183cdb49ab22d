----------------------------- MODULE MCDrawDevice -----------------------------
(* An instance of DrawDevice for TLC: the configurations give the bounds.    *)
EXTENDS DrawDevice
=============================================================================
