---------------------------- MODULE PictureStream ----------------------------
(***************************************************************************)
(* What CloudClient promises the server of the pictures it sends, without   *)
(* threads, sockets or TLS sessions: connection follows connection, each    *)
(* picture is tried once, header and body in turn and only on the newest     *)
(* connection, and whatever does not get through is never sent again.        *)
(***************************************************************************)
EXTENDS Integers, Sequences

CONSTANT Conn \* the numbers of connections

VARIABLES
    stream,  \* what the server got on each connection
    newest,  \* the number of the newest connection
    picture, \* the number of the newest picture
    next     \* what of it is still to be sent: "header", then "body"; "none"

vars == <<stream, newest, picture, next>>

Init ==
    /\ stream = [c \in Conn |-> <<>>]
    /\ newest = 0
    /\ picture = 0
    /\ next = "none"

Connect ==
    /\ newest' = newest + 1
    /\ UNCHANGED <<stream, picture, next>>

Begin ==
    /\ next = "none" /\ next' = "header"
    /\ picture' = picture + 1
    /\ UNCHANGED <<stream, newest>>

LastOf(c) == stream[c][Len(stream[c])]

\* The connection is new, or the message goes with the last one on it.
Fits(message) ==
    stream[newest] # <<>> =>
        IF message[1] = "header" THEN LastOf(newest)[1] = "body"
                                 ELSE LastOf(newest) = <<"header", message[2]>>

\* A message gets through whole or is lost.
Write(message) ==
    \/ UNCHANGED stream
    \/ /\ newest \in Conn
       /\ Fits(message)
       /\ stream' = [stream EXCEPT ![newest] = Append(@, message)]

WriteHeader ==
    /\ next = "header" /\ next' = "body"
    /\ Write(<<"header", picture>>)
    /\ UNCHANGED <<newest, picture>>

WriteBody ==
    /\ next = "body" /\ next' = "none"
    /\ Write(<<"body", picture>>)
    /\ UNCHANGED <<newest, picture>>

GiveUp ==
    /\ next # "none" /\ next' = "none"
    /\ UNCHANGED <<stream, newest, picture>>

Next == Connect \/ Begin \/ WriteHeader \/ WriteBody \/ GiveUp

Spec == Init /\ [][Next]_vars

-----------------------------------------------------------------------------
Before(m, n) == m[2] < n[2] \/ (m[2] = n[2] /\ m[1] = "header" /\ n[1] = "body")

\* Over all connections together the server gets each message once at most, and
\* in the order in which they were sent: a reconnect repeats nothing.
OnceInOrder ==
    \A c, d \in Conn : \A i \in DOMAIN stream[c], j \in DOMAIN stream[d] :
        c < d \/ (c = d /\ i < j) => Before(stream[c][i], stream[d][j])
=============================================================================
