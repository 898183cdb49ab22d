--------------------------- MODULE MCFrameAssembly ---------------------------
(* The instance of FrameAssembly for TLC. Frames are of three datagrams, so  *)
(* that a first, an inner and a last one exist; there are enough frames for  *)
(* three disturbances to spoil three each and one more to come out whole.    *)
EXTENDS FrameAssembly
=============================================================================
