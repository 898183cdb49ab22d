------------------------------ MODULE MCFaceCrop ------------------------------
(* An instance of FaceCrop for TLC: a picture of nine columns and seven lines *)
(* in which squares of four, five and eight pixels lie inside, over each     *)
(* border and over two at once.                                              *)
EXTENDS FaceCrop

SmallSquares == {4, 5, 8}
=============================================================================
