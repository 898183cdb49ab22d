---------------------------- MODULE LatestPicture ----------------------------
(***************************************************************************)
(* What the frame pipeline promises its analysis, without threads, flags    *)
(* or buffers: the camera makes pictures, the analysis takes one at a time, *)
(* skips what it has no time for, never takes one twice or goes back, and   *)
(* sends only the picture it has taken, at most once.                       *)
(***************************************************************************)
EXTENDS Naturals

VARIABLES
    made,  \* pictures the camera has completed
    taken, \* the number of the picture taken last
    busy,  \* is it still being analysed?
    sent   \* the number of the picture sent last

vars == <<made, taken, busy, sent>>

Init ==
    /\ made = 0
    /\ taken = 0
    /\ busy = FALSE
    /\ sent = 0

Make ==
    /\ made' = made + 1
    /\ UNCHANGED <<taken, busy, sent>>

Take ==
    /\ ~busy
    /\ taken' \in taken + 1 .. made
    /\ busy' = TRUE
    /\ UNCHANGED <<made, sent>>

Send ==
    /\ busy
    /\ sent < taken
    /\ sent' = taken
    /\ UNCHANGED <<made, taken, busy>>

Finish ==
    /\ busy
    /\ busy' = FALSE
    /\ UNCHANGED <<made, taken, sent>>

Next == Make \/ Take \/ Send \/ Finish

Spec == Init /\ [][Next]_vars
=============================================================================
