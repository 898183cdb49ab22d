------------------------------ MODULE OneWorker ------------------------------
(***************************************************************************)
(* What a Thread object promises its client, without handles, polls and     *)
(* events: there is work or there is none; it starts only where there is    *)
(* none; a request to end it stands until it has ended; and once a Stop that *)
(* waited has said that it is over, it stays over until the next call.       *)
(***************************************************************************)

CONSTANT EndsByItself \* may the work end although nobody asked?

VARIABLES
    working,   \* is there work?
    requested, \* has somebody asked for its end?
    over       \* has the last call, a Stop, said that there is none?

vars == <<working, requested, over>>

Init ==
    /\ working = FALSE
    /\ requested = FALSE
    /\ over = FALSE

\* The client calls again, and nothing is known.
Call ==
    /\ over' = FALSE
    /\ UNCHANGED <<working, requested>>

\* A Start forgets the requests of the past: what they were for has ended.
Withdraw ==
    /\ ~working /\ ~over
    /\ requested' = FALSE
    /\ UNCHANGED <<working, over>>

Begin ==
    /\ ~working /\ ~requested /\ ~over
    /\ working' = TRUE
    /\ UNCHANGED <<requested, over>>

Request ==
    /\ ~over
    /\ requested' = TRUE
    /\ UNCHANGED <<working, over>>

End ==
    /\ working
    /\ requested \/ EndsByItself
    /\ working' = FALSE
    /\ UNCHANGED <<requested, over>>

SayOver ==
    /\ ~working
    /\ over' = TRUE
    /\ UNCHANGED <<working, requested>>

Next == Call \/ Withdraw \/ Begin \/ Request \/ End \/ SayOver

Spec == Init /\ [][Next]_vars
=============================================================================
