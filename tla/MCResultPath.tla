----------------------------- MODULE MCResultPath -----------------------------
(* Instances of ResultPath for TLC.                                          *)
EXTENDS ResultPath

Says(kind, gender, age) == [kind |-> kind, gender |-> gender, age |-> age]

\* Nobody, an unknown face, a man, a woman, and one whose gender is not told.
MCAnswers == {Says("none", -1, -1), Says("unknown", 0, 0), Says("person", 1, 30),
              Says("person", 2, 30), Says("person", 0, 30)}

\* A documented value and a negative one.
MCFlags == {-1, 1}
=============================================================================
