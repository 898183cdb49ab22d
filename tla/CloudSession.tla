----------------------------- MODULE CloudSession -----------------------------
(***************************************************************************)
(* CloudClient and the CTCPSSLClient and CTCPClient under it: two threads  *)
(* that share one connection without a lock.                               *)
(*   receiver  cmd_process: Receive, and reconnect when it returns 0; the  *)
(*             constructor runs the first reconnect,                       *)
(*   sender    send_pic, on the processing thread.                         *)
(* Sockets are numbered as they are made and no handle value is reused.    *)
(* SSL_new makes one TLS session per connected socket, so a connection and *)
(* its session share the socket's number.                                  *)
(***************************************************************************)
EXTENDS Integers, FiniteSets, Sequences

CONSTANTS
    MaxConns,     \* bound: sockets made
    MaxPictures,  \* bound: calls of send_pic
    ShutdownFails \* may shutdown() fail on a connection the peer has reset?

ASSUME BoundsAssumption == MaxConns \in Nat /\ MaxPictures \in Nat
ASSUME ShutdownFailsAssumption == ShutdownFails \in BOOLEAN

Conn == 1 .. MaxConns

\* What the server sees of picture p: Pic_RGB_Header alone, then the header
\* and the pixels.
Header(p) == <<"header", p>>
Body(p)   == <<"body", p>>
Message   == {"header", "body"} \X (1 .. MaxPictures)

VARIABLES
    rpc,          \* where the receiver is
    status,       \* m_eStatus
    connectSocket,\* m_ConnectSocket, 0 for INVALID_SOCKET
    pSSL,         \* m_pSSL, 0 for nullptr
    opened,       \* sockets made so far
    open,         \* sockets the client has not closed
    shaken,       \* sessions whose handshake is complete
    freed,        \* sessions given to SSL_free
    alive,        \* connections the server has not closed or reset
    stream,       \* what the server got on each connection
    answered,     \* how many pictures of it the server has answered
    received,     \* what the last Receive returned: "data", "closed", "failed"
    spc,          \* where the sender is
    picture,      \* the picture it sends
    written       \* the m_pSSL it has passed to SSL_write

tcp     == <<status, connectSocket, opened, open>>
tls     == <<pSSL, shaken, freed>>
server  == <<alive, stream, answered>>
sending == <<spc, picture, written>>
vars == <<rpc, tcp, tls, server, received, sending>>

Init ==
    /\ rpc = "connect"
    /\ status = "DISCONNECTED"
    /\ connectSocket = 0
    /\ pSSL = 0
    /\ opened = 0
    /\ open = {}
    /\ shaken = {}
    /\ freed = {}
    /\ alive = {}
    /\ stream = [c \in Conn |-> <<>>]
    /\ answered = [c \in Conn |-> 0]
    /\ received = "none"
    /\ spc = "constructing"
    /\ picture = 0
    /\ written = 0

RGoes(from, to) == rpc = from /\ rpc' = to
SGoes(from, to) == spc = from /\ spc' = to

-----------------------------------------------------------------------------
(* The receiver. CTCPSSLClient::Connect is CTCPClient::Connect, SSL_new and *)
(* SSL_connect; reconnect repeats it until it returns true.                 *)

\* The peer's reset is what makes shutdown fail.
ShutdownMayFail == ShutdownFails /\ connectSocket \notin alive

\* Mutant: frees the TLS session of the connection it closes.
CloseLast_FreesSession ==
    /\ status = "CONNECTED"
    /\ status' = "DISCONNECTED"
    /\ open' = open \ {connectSocket}
    /\ connectSocket' = 0
    /\ freed' = freed \cup {pSSL}
    /\ UNCHANGED <<opened, pSSL, shaken>>

\* Mutant: forgets closesocket.
CloseLast_KeepsSocket ==
    /\ status = "CONNECTED"
    /\ status' = "DISCONNECTED"
    /\ connectSocket' = 0
    /\ UNCHANGED <<opened, open, tls>>

\* CTCPClient::Disconnect, called by Connect while m_eStatus is CONNECTED. The
\* TLS session stays: nothing calls ShutdownSSL. A failing shutdown returns
\* before closesocket.
CloseLast ==
    /\ status = "CONNECTED"
    /\ status' = "DISCONNECTED"
    /\ \/ /\ open' = open \ {connectSocket}
          /\ connectSocket' = 0
       \/ /\ ShutdownMayFail
          /\ UNCHANGED <<open, connectSocket>>
    /\ UNCHANGED <<opened, tls>>

\* Mutant: refuses to connect while connected.
Connect_Refuses ==
    /\ RGoes("connect", "tcp")
    /\ status = "DISCONNECTED"
    /\ UNCHANGED <<tcp, tls, server, received, sending>>

Connect ==
    /\ RGoes("connect", "tcp")
    /\ \/ CloseLast
       \/ status = "DISCONNECTED" /\ UNCHANGED <<tcp, tls>>
    /\ UNCHANGED <<server, received, sending>>

\* connect() succeeds. m_eStatus says CONNECTED from here on, before there is
\* a session.
TcpConnects ==
    /\ RGoes("tcp", "session")
    /\ opened < MaxConns
    /\ opened' = opened + 1
    /\ status' = "CONNECTED"
    /\ connectSocket' = opened'
    /\ open' = open \cup {opened'}
    /\ alive' = alive \cup {opened'}
    /\ UNCHANGED <<tls, stream, answered, received, sending>>

\* connect() fails: the new socket is not closed, and forgotten by the next
\* attempt. If setsockopt fails it is closed, and m_ConnectSocket names it still.
TcpRefused ==
    /\ RGoes("tcp", "connect")
    /\ opened < MaxConns
    /\ opened' = opened + 1
    /\ connectSocket' = opened'
    /\ open' \in {open, open \cup {opened'}}
    /\ UNCHANGED <<status, tls, server, received, sending>>

\* Mutant: reconnect does not look at what Connect returned.
TcpFails_Ignored ==
    /\ RGoes("tcp", "receive")
    /\ spc' = IF spc = "constructing" THEN "idle" ELSE spc
    /\ UNCHANGED <<tcp, tls, server, received, picture, written>>

\* getaddrinfo fails, or socket, which leaves INVALID_SOCKET: reconnect tries
\* again.
TcpFails ==
    /\ RGoes("tcp", "connect")
    /\ connectSocket' \in {connectSocket, 0}
    /\ UNCHANGED <<status, opened, open, tls, server, received, sending>>

\* SetUpCtxClient and SSL_new: m_pSSL is overwritten, whoever uses it.
NewSession ==
    /\ RGoes("session", "handshake")
    /\ pSSL' = connectSocket
    /\ UNCHANGED <<tcp, shaken, freed, server, received, sending>>

\* SSL_CTX_new or a certificate file fails: m_pSSL is still the old session.
SessionFails ==
    /\ RGoes("session", "connect")
    /\ UNCHANGED <<tcp, tls, server, received, sending>>

HandshakeSucceeds ==
    /\ RGoes("handshake", "receive")
    /\ pSSL \in alive
    /\ shaken' = shaken \cup {pSSL}
    /\ spc' = IF spc = "constructing" THEN "idle" ELSE spc
    /\ UNCHANGED <<tcp, pSSL, freed, server, received, picture, written>>

\* SSL_connect returns an error, at once or after the connection has died. The
\* client sets no timeout: a server that never answers keeps it waiting.
HandshakeFails ==
    /\ RGoes("handshake", "connect")
    /\ UNCHANGED <<tcp, tls, server, received, sending>>

Bodies(c) == Cardinality({i \in DOMAIN stream[c] : stream[c][i][1] = "body"})

\* What Receive returns: -1 where it is not connected, the length of an answer
\* of the server, or 0 where SSL_read fails.
Received == IF status # "CONNECTED" THEN "failed"
            ELSE IF pSSL \in alive THEN "data" ELSE "closed"

\* Receive, which waits until there is an answer, and cmd_process: only 0 is
\* false and makes it reconnect; after a -1 it would dispatch what the buffer
\* holds from the message before.
Receive ==
    /\ rpc = "receive"
    /\ Received = "data" => answered[pSSL] < Bodies(pSSL)
    /\ received' = Received
    /\ rpc' = IF Received = "closed" THEN "connect" ELSE "dispatch"
    /\ answered' = IF Received = "data"
                      THEN [answered EXCEPT ![pSSL] = @ + 1]
                      ELSE answered
    /\ UNCHANGED <<tcp, tls, alive, stream, sending>>

\* The callback, ContentRendering::ReceiveRst.
Dispatch ==
    /\ RGoes("dispatch", "receive")
    /\ UNCHANGED <<tcp, tls, server, received, sending>>

Receiver ==
    \/ Connect \/ TcpConnects \/ TcpRefused \/ TcpFails \/ NewSession \/ SessionFails
    \/ HandshakeSucceeds \/ HandshakeFails
    \/ Receive \/ Dispatch

-----------------------------------------------------------------------------
(* The sender: send_pic calls Send for the header and again for header and *)
(* pixels. Send looks at m_eStatus, then hands m_pSSL to SSL_write.        *)

\* Mutant: the pictures are not told apart.
StartPicture_KeepsNumber ==
    /\ SGoes("idle", "test header")
    /\ picture < MaxPictures
    /\ UNCHANGED <<rpc, tcp, tls, server, received, picture, written>>

StartPicture ==
    /\ SGoes("idle", "test header")
    /\ picture < MaxPictures
    /\ picture' = picture + 1
    /\ UNCHANGED <<rpc, tcp, tls, server, received, written>>

TestStatus(from, to) ==
    /\ SGoes(from, IF status = "CONNECTED" THEN to ELSE "idle")
    /\ UNCHANGED <<rpc, tcp, tls, server, received, picture, written>>

PassSession(from, to) ==
    /\ SGoes(from, to)
    /\ written' = pSSL
    /\ UNCHANGED <<rpc, tcp, tls, server, received, picture>>

\* SSL_write on a session that is set up and whose socket is open, one step (a
\* call on a session is taken to be atomic). What is written after the peer's
\* reset is lost, though SSL_write may succeed.
Write(message, from, to) ==
    /\ SGoes(from, to)
    /\ written \in shaken \cap open
    /\ stream' = IF written \in alive
                    THEN [stream EXCEPT ![written] = Append(@, message)]
                    ELSE stream
    /\ UNCHANGED <<rpc, tcp, tls, alive, answered, received, picture, written>>

\* Mutant: gives up on a live connection (a send timeout).
WriteFails_TimesOut(from) ==
    /\ SGoes(from, "idle")
    /\ UNCHANGED <<rpc, tcp, tls, server, received, picture, written>>

\* send_pic returns 0; its caller does not look.
WriteFails(from) ==
    /\ SGoes(from, "idle")
    /\ written \notin shaken \cap open \cap alive
    /\ UNCHANGED <<rpc, tcp, tls, server, received, picture, written>>

Sender ==
    \/ StartPicture
    \/ TestStatus("test header", "pass header")
    \/ PassSession("pass header", "write header")
    \/ Write(Header(picture), "write header", "test body")
    \/ WriteFails("write header")
    \/ TestStatus("test body", "pass body")
    \/ PassSession("pass body", "write body")
    \/ Write(Body(picture), "write body", "idle")
    \/ WriteFails("write body")

\* The server or the network ends a connection.
ConnectionDies ==
    /\ \E c \in alive : alive' = alive \ {c}
    /\ UNCHANGED <<rpc, tcp, tls, stream, answered, received, sending>>

-----------------------------------------------------------------------------
Next == Receiver \/ Sender \/ ConnectionDies

\* The receiver runs, and the network lets connections through again and again.
\* SSL_connect comes to an end only where the connection it waits on has died, and
\* nothing is said of the sender, whose SSL_write may wait for the server too.
Fairness ==
    /\ WF_vars(rpc # "handshake" /\ Receiver)
    /\ WF_vars(pSSL \notin alive /\ HandshakeFails)
    /\ SF_vars(TcpConnects)

Spec     == Init /\ [][Next]_vars
FairSpec == Spec /\ Fairness

-----------------------------------------------------------------------------
TypeOK ==
    /\ rpc \in {"connect", "tcp", "session", "handshake", "receive", "dispatch"}
    /\ status \in {"CONNECTED", "DISCONNECTED"}
    /\ connectSocket \in 0 .. MaxConns
    /\ pSSL \in 0 .. MaxConns
    /\ opened \in 0 .. MaxConns
    /\ open \subseteq Conn
    /\ shaken \subseteq Conn
    /\ freed \subseteq 0 .. MaxConns
    /\ alive \subseteq Conn
    /\ stream \in [Conn -> Seq(Message)]
    /\ answered \in [Conn -> Nat]
    /\ received \in {"none", "data", "closed", "failed"}
    /\ spc \in {"constructing", "idle", "test header", "pass header",
                "write header", "test body", "pass body", "write body"}
    /\ picture \in 0 .. MaxPictures
    /\ written \in 0 .. MaxConns

\* cmd_process compares an int with false, so Receive's -1 would make it
\* dispatch the previous message again; it never gets a -1, because it calls
\* Receive only after a Connect that returned true (CloudClient.cpp:48).
NeverStale == rpc = "dispatch" => received = "data"

\* SSL_write is never given a null or a freed session, although the receiver
\* replaces m_pSSL under the sender's feet: a session, once made, is never
\* freed while the client lives (TCPSSLClient.cpp:103, 167).
SessionUsable ==
    spc \in {"write header", "write body"} => written # 0 /\ written \notin freed

\* The receiver reads only from a session that has been set up on the socket
\* the client now holds.
ReadsOwnSession ==
    rpc \in {"receive", "dispatch"} => pSSL \in shaken /\ pSSL = connectSocket

\* On each connection the server gets header and body of a picture in turn.
\* Only the first message may be a body without its header: the one whose
\* header went to the connection before, when the receiver reconnects between
\* the two Sends (CloudClient.cpp:104, 111).
FramedAfterFirst ==
    \A c \in Conn :
        \A i \in 1 .. Len(stream[c]) - 1 :
            LET p == stream[c][i]  q == stream[c][i + 1]
            IN  \/ p[1] = "header" /\ q = Body(p[2])
                \/ p[1] = "body" /\ q[1] = "header" /\ q[2] > p[2]

\* However the receiver replaces the connection under the sender, the server gets
\* what PictureStream says: each message once at most and on the newest
\* connection, a body right after its header or first of all (CloudClient.cpp:48,
\* 104, 111).
Pictures == INSTANCE PictureStream WITH
                newest <- opened,
                next   <- CASE spc \in {"constructing", "idle"} -> "none"
                            [] spc \in {"test header", "pass header", "write header"}
                                   -> "header"
                            [] spc \in {"test body", "pass body", "write body"} -> "body"

StreamsPictures == Pictures!Spec

\* No picture is sent twice or after a newer one, over all connections together.
SentOnce == Pictures!OnceInOrder

\* The client never holds two connections that both still work: Connect ends
\* the last one even where its TLS handshake had failed (TCPClient.cpp:70).
OneLiveConnection == Cardinality(open \cap alive) <= 1

\* The server has accepted the connection and neither answers the handshake nor
\* ends it (TCPSSLClient.cpp:107).
Unanswered == rpc = "handshake" /\ pSSL \in alive

\* A client that loses its connection goes on opening sockets until it is back
\* in Receive, however the attempts before failed and whatever they left behind;
\* only a server that leaves a handshake unanswered for ever keeps it from that.
Reconnects ==
    \/ rpc = "connect" ~> rpc = "receive" \/ opened = MaxConns
    \/ <>[]Unanswered
=============================================================================
