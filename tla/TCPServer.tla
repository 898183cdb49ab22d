------------------------------ MODULE TCPServer ------------------------------
(***************************************************************************)
(* CTCPServer and CTCPSSLServer (the WINDOWS build): one server object whose *)
(* user calls Listen, Receive, Send, the timeouts and Disconnect on one     *)
(* client socket, again and again, and a peer that sends bytes 1, 2, 3 ...  *)
(* and closes or resets the connection. The Receive and Send loops of       *)
(* CTCPClient are the same text. Sockets are numbered as they are made and  *)
(* no handle is reused; a session and its context bear the socket's number. *)
(***************************************************************************)
EXTENDS Integers

CONSTANTS
    MaxSockets, \* bound: sockets made
    MaxBytes,   \* bound: bytes the peer sends
    Size,       \* uSize of Receive and of Send
    MaxTries    \* how often recv is tried again (1000 in the code)

ASSUME SizeAssumption   == Size \in Nat \ {0}
ASSUME BoundsAssumption == MaxSockets \in Nat /\ MaxBytes \in Nat /\ MaxTries \in Nat

Socket == 1 .. MaxSockets

VARIABLES
    tls,           \* is it a CTCPSSLServer?
    addrInfo,      \* is there an address in m_pResultAddrInfo?
    listenSocket,  \* m_ListenSocket, 0 for INVALID_SOCKET
    listening,     \* listening sockets that are open
    client,        \* the user's ClientSocket or m_SockFd
    open,          \* accepted sockets that are open
    made,          \* sockets made so far
    pSSL, pCTXSSL, \* m_pSSL and m_pCTXSSL of the user's SSLSocket
    frees,         \* how often each session and context was freed
    lingers,       \* has a failed shutdown kept a socket open?
    pc,            \* where the call is
    usable,        \* has Listen given the user a client to use?
    returned,      \* the last call and what it returned
    rcvTimeout,    \* may recv time out?
    peer,          \* "none", "up", "closed" or "reset"
    sent, taken,   \* bytes the peer has sent, and recv has taken
    pData,         \* the user's buffer
    total, tries, bReadFully, \* of the Receive or Send
    failed         \* recv's errors in this Receive

sockets == <<addrInfo, listenSocket, listening, client, open, made, lingers>>
session == <<pSSL, pCTXSSL, frees>>
data    == <<sent, taken, pData>>
loop    == <<total, tries, bReadFully, failed>>
conn    == <<usable, rcvTimeout, peer>>
vars    == <<tls, sockets, session, pc, returned, conn, data, loop>>

Freed == {"ssl", "ctx"} \X Socket

\* The constructor has resolved the address; where it cannot, it throws.
Init ==
    /\ tls \in BOOLEAN
    /\ addrInfo = TRUE /\ listenSocket = 0 /\ listening = {}
    /\ client = 0 /\ open = {} /\ made = 0
    /\ pSSL = 0 /\ pCTXSSL = 0 /\ frees = [f \in Freed |-> 0]
    /\ lingers = FALSE
    /\ pc = "idle" /\ usable = FALSE /\ returned = <<"none", 0>>
    /\ rcvTimeout = FALSE /\ peer = "none"
    /\ sent = 0 /\ taken = 0 /\ pData = [i \in 1 .. Size |-> 0]
    /\ total = 0 /\ tries = 0 /\ bReadFully = FALSE /\ failed = {}

Goes(from, to) == pc = from /\ pc' = to
Return(call, value) == pc' = "idle" /\ returned' = <<call, value>>

-----------------------------------------------------------------------------
(* Listen.                                                                  *)

Listen ==
    /\ Goes("idle", IF listenSocket = 0 THEN "make" ELSE "listen")
    /\ ~usable
    /\ client' = 0
    /\ UNCHANGED <<tls, addrInfo, listenSocket, listening, open, made, lingers,
                   session, returned, conn, data, loop>>

\* Mutant: a failed bind forgets closesocket.
MakeListener_KeepsSocket ==
    /\ pc = "make" /\ addrInfo /\ made < MaxSockets
    /\ addrInfo' = FALSE
    /\ made' = made + 1
    /\ listening' = listening \cup {made'}
    /\ \/ listenSocket' = made' /\ pc' = "listen" /\ UNCHANGED returned
       \/ listenSocket' = 0 /\ Return("Listen", 0)
    /\ UNCHANGED <<tls, client, open, lingers, session, conn, data, loop>>

\* socket, setsockopt and bind. However they end, the address is freed.
MakeListener ==
    /\ pc = "make" /\ addrInfo /\ made < MaxSockets
    /\ addrInfo' = FALSE
    /\ \/ /\ made' = made + 1 /\ listenSocket' = made'
          /\ listening' = listening \cup {made'}
          /\ pc' = "listen"
          /\ UNCHANGED returned
       \/ Return("Listen", 0) /\ UNCHANGED <<made, listenSocket, listening>>
    /\ UNCHANGED <<tls, client, open, lingers, session, conn, data, loop>>

\* The address of an earlier attempt has been freed: a null pointer is read.
NoAddress ==
    /\ Goes("make", "crashed")
    /\ ~addrInfo
    /\ UNCHANGED <<tls, sockets, session, returned, conn, data, loop>>

ListenFails ==
    /\ pc = "listen"
    /\ listenSocket' = 0 /\ listening' = listening \ {listenSocket}
    /\ Return("Listen", 0)
    /\ UNCHANGED <<tls, addrInfo, client, open, made, lingers, session, conn, data, loop>>

\* The wait for a client runs out or fails, or accept does.
NoClient ==
    /\ pc = "listen"
    /\ Return("Listen", 0)
    /\ UNCHANGED <<tls, sockets, session, conn, data, loop>>

Accept ==
    /\ pc = "listen" /\ made < MaxSockets
    /\ made' = made + 1
    /\ client' = made' /\ open' = open \cup {made'}
    /\ peer' = "up" /\ sent' = 0 /\ taken' = 0 /\ rcvTimeout' = FALSE
    /\ IF tls THEN pc' = "context" /\ UNCHANGED <<usable, returned>>
              ELSE Return("Listen", 1) /\ usable' = TRUE
    /\ UNCHANGED <<tls, addrInfo, listenSocket, listening, lingers, session, pData, loop>>

\* SetUpCtxServer and the certificate files. Where they fail, the accepted
\* socket is left open.
Context ==
    /\ pc = "context"
    /\ \/ pCTXSSL' = client /\ pc' = "session" /\ UNCHANGED returned
       \/ pCTXSSL' \in {0, client} /\ Return("Listen", 0)
    /\ UNCHANGED <<tls, sockets, pSSL, frees, conn, data, loop>>

\* Mutant: m_pSSL keeps its value.
ShutdownSSL_Keeps(ssl) ==
    /\ frees' = IF ssl = 0 THEN frees
                ELSE [frees EXCEPT ![<<"ssl", ssl>>] = @ + 1, ![<<"ctx", pCTXSSL>>] = @ + 1]
    /\ pSSL' = ssl
    /\ UNCHANGED pCTXSSL

ShutdownSSL(ssl) ==
    /\ frees' = IF ssl = 0 THEN frees
                ELSE [frees EXCEPT ![<<"ssl", ssl>>] = @ + 1, ![<<"ctx", pCTXSSL>>] = @ + 1]
    /\ pSSL' = 0
    /\ UNCHANGED pCTXSSL

\* SSL_new and SSL_accept.
Handshake ==
    /\ pc = "session"
    /\ \/ /\ peer = "up" /\ pSSL' = client
          /\ Return("Listen", 1) /\ usable' = TRUE
          /\ UNCHANGED <<pCTXSSL, frees>>
       \/ ShutdownSSL(client) /\ Return("Listen", 0) /\ UNCHANGED usable
    /\ UNCHANGED <<tls, sockets, rcvTimeout, peer, data, loop>>

-----------------------------------------------------------------------------
(* Disconnect, the timeouts and the destructor.                             *)

\* CTCPServer::Disconnect. shutdown fails on a handle that is not open, and may
\* on one the peer has reset; then closesocket is not called.
Close(call, closed) ==
    \/ /\ client \in open /\ open' = open \ {client}
       /\ Return(call, closed)
       /\ UNCHANGED lingers
    \/ /\ client \notin open \/ peer = "reset"
       /\ lingers' = (lingers \/ client \in open)
       /\ Return(call, 0)
       /\ UNCHANGED open

Disconnect ==
    /\ pc = "idle"
    /\ Close("Disconnect", 1)
    /\ usable' = FALSE
    /\ IF tls THEN ShutdownSSL(pSSL) ELSE UNCHANGED session
    /\ UNCHANGED <<tls, addrInfo, listenSocket, listening, client, made, rcvTimeout,
                   peer, data, loop>>

\* SetRcvTimeout, and SetSndTimeout(msec), which calls it: setsockopt takes the
\* whole seconds of the timeval for milliseconds, so less than one second is no
\* timeout. Where setsockopt fails, the socket is closed. The timeout that
\* SetSndTimeout(timeval) sets only makes Send fail, as it may anyway.
SetRcvTimeout ==
    /\ pc = "idle" /\ usable
    /\ \/ /\ rcvTimeout' \in BOOLEAN /\ Return("SetRcvTimeout", 1)
          /\ UNCHANGED <<open, lingers, usable>>
       \/ Close("SetRcvTimeout", 0) /\ usable' = FALSE /\ UNCHANGED rcvTimeout
    /\ UNCHANGED <<tls, addrInfo, listenSocket, listening, client, made, session, peer,
                   data, loop>>

Destroy ==
    /\ Goes("idle", "destroyed")
    /\ listening' = listening \ {listenSocket}
    /\ UNCHANGED <<tls, addrInfo, listenSocket, client, open, made, lingers, session,
                   returned, conn, data, loop>>

-----------------------------------------------------------------------------
(* Receive.                                                                 *)

StartReceive ==
    /\ Goes("idle", "recv") /\ usable
    /\ total' = 0 /\ tries' = 0 /\ failed' = {}
    /\ bReadFully' \in BOOLEAN
    /\ UNCHANGED <<tls, sockets, session, returned, conn, data>>

\* Mutant: the comparison is signed.
More_Signed(n) == n < Size

\* total < uSize compares an int with a size_t: -1 is a large number.
More(n) == 0 <= n /\ n < Size

\* The end of the loop's body, with n for total.
Loop(n) ==
    /\ total' = n
    /\ IF bReadFully /\ More(n) THEN UNCHANGED <<pc, returned>> ELSE Return("Receive", n)

\* recv gives some of the bytes that have come, as many as there is room for.
RecvBytes ==
    /\ pc = "recv" /\ peer # "reset"
    /\ \E k \in 1 .. Size - total :
          /\ taken + k <= sent
          /\ taken' = taken + k
          /\ pData' = [i \in 1 .. Size |-> IF i \in total + 1 .. total + k
                                              THEN taken + i - total ELSE pData[i]]
          /\ Loop(total + k)
    /\ UNCHANGED <<tls, sockets, session, conn, sent, tries, bReadFully, failed>>

\* recv returns 0.
PeerShutDown ==
    /\ pc = "recv" /\ peer = "closed" /\ taken = sent
    /\ Return("Receive", total)
    /\ UNCHANGED <<tls, sockets, session, conn, data, loop>>

Failure == CASE peer = "reset" -> {"reset"}
             [] peer = "up" /\ taken = sent /\ rcvTimeout -> {"timeout"}
             [] OTHER -> {}

\* Mutant: an error ends the loop as the end of the connection does.
RecvFails_Breaks ==
    /\ pc = "recv" /\ Failure # {}
    /\ failed' = failed \cup Failure
    /\ Return("Receive", total)
    /\ UNCHANGED <<tls, sockets, session, conn, data, total, tries, bReadFully>>

\* recv returns -1, which is added to total as if it were a length. SSL_read's
\* errors end the loop.
RecvFails ==
    /\ pc = "recv" /\ Failure # {}
    /\ failed' = failed \cup Failure
    /\ IF tls THEN Return("Receive", total) /\ UNCHANGED total
              ELSE Loop(total - 1)
    /\ UNCHANGED <<tls, sockets, session, conn, data, tries, bReadFully>>

\* Mutant: tries as long as it fails.
NoBuffers_Forever ==
    /\ pc = "recv" /\ ~tls /\ peer = "up"
    /\ tries' = tries + 1 /\ Loop(total)
    /\ UNCHANGED <<tls, sockets, session, conn, data, bReadFully, failed>>

\* WSAENOBUFS: continue goes to the loop's condition, and the last try ends it.
NoBuffers ==
    /\ pc = "recv" /\ ~tls /\ peer = "up"
    /\ \/ tries < MaxTries /\ tries' = tries + 1 /\ Loop(total)
       \/ tries = MaxTries /\ Return("Receive", total) /\ UNCHANGED <<total, tries>>
    /\ UNCHANGED <<tls, sockets, session, conn, data, bReadFully, failed>>

-----------------------------------------------------------------------------
(* Send, and the peer.                                                      *)

StartSend ==
    /\ Goes("idle", "send") /\ usable
    /\ total' = 0
    /\ UNCHANGED <<tls, sockets, session, returned, conn, data, tries, bReadFully, failed>>

SendSome ==
    /\ pc = "send" /\ peer # "reset"
    /\ total' \in total + 1 .. Size
    /\ IF total' < Size THEN UNCHANGED <<pc, returned>> ELSE Return("Send", 1)
    /\ UNCHANGED <<tls, sockets, session, conn, data, tries, bReadFully, failed>>

SendFails ==
    /\ pc = "send"
    /\ Return("Send", 0)
    /\ UNCHANGED <<tls, sockets, session, conn, data, loop>>

PeerSends ==
    /\ peer = "up" /\ sent < MaxBytes /\ sent' = sent + 1
    /\ UNCHANGED <<tls, sockets, session, pc, returned, conn, taken, pData, loop>>

PeerEnds ==
    /\ peer = "up" /\ peer' \in {"closed", "reset"}
    /\ UNCHANGED <<tls, sockets, session, pc, returned, usable, rcvTimeout, data, loop>>

-----------------------------------------------------------------------------
User == \/ Listen \/ MakeListener \/ NoAddress \/ ListenFails \/ NoClient \/ Accept
        \/ Context \/ Handshake \/ Disconnect \/ SetRcvTimeout \/ Destroy
        \/ StartReceive \/ RecvBytes \/ PeerShutDown \/ RecvFails \/ NoBuffers
        \/ StartSend \/ SendSome \/ SendFails

Next == User \/ PeerSends \/ PeerEnds

Spec == Init /\ [][Next]_vars

-----------------------------------------------------------------------------
TypeOK ==
    /\ tls \in BOOLEAN /\ addrInfo \in BOOLEAN /\ lingers \in BOOLEAN
    /\ listenSocket \in 0 .. MaxSockets /\ client \in 0 .. MaxSockets
    /\ made \in 0 .. MaxSockets
    /\ listening \subseteq Socket /\ open \subseteq Socket
    /\ pSSL \in 0 .. MaxSockets /\ pCTXSSL \in 0 .. MaxSockets
    /\ frees \in [Freed -> Nat]
    /\ pc \in {"idle", "make", "listen", "context", "session", "recv", "send",
               "crashed", "destroyed"}
    /\ usable \in BOOLEAN /\ rcvTimeout \in BOOLEAN /\ bReadFully \in BOOLEAN
    /\ returned \in {"none", "Listen", "Disconnect", "SetRcvTimeout", "Receive", "Send"}
                       \X (-1 .. Size)
    /\ peer \in {"none", "up", "closed", "reset"}
    /\ sent \in 0 .. MaxBytes /\ taken \in 0 .. MaxBytes
    /\ pData \in [1 .. Size -> 0 .. MaxBytes]
    /\ total \in -1 .. Size /\ tries \in 0 .. MaxTries
    /\ failed \subseteq {"reset", "timeout"}

\* Over any sequence of failing and succeeding calls the server knows every
\* listening socket it has open, and CTCPServer's user every accepted one, but
\* for one that shutdown has failed on (TCPServer.cpp:142-163, 232, 426-434).
NothingLost ==
    /\ listening \subseteq {listenSocket}
    /\ tls \/ lingers \/ open \subseteq {client}

\* A user who calls Listen and Disconnect on one SSLSocket frees no session and
\* no context twice, although m_pCTXSSL keeps its value when it is freed, and
\* while the user has a client its session is the one on its socket
\* (SecureSocket.cpp:150-157, TCPSSLServer.cpp:104, 123, 235).
SessionsFreedOnce ==
    /\ \A f \in Freed : frees[f] <= 1
    /\ tls /\ usable => pSSL = client /\ frees[<<"ssl", pSSL>>] = 0

\* recv is always given room inside the user's buffer, although errors count
\* total down below zero and int and size_t are compared
\* (TCPServer.cpp:358, 383-385).
WithinBuffer == pc = "recv" => total \in 0 .. Size - 1

Received(n) == pc = "idle" /\ returned = <<"Receive", n>>

\* What Receive says it received is the last n bytes recv took, in order.
InOrder(n) == \A i \in 1 .. n : pData[i] = taken - n + i

\* As long as recv does not time out, Receive returns bytes in order, and -1
\* and no bytes when the peer has reset the connection, however many it had
\* read before (TCPServer.cpp:341-343, 383).
ReceiveTells ==
    \A n \in -1 .. Size :
        Received(n) => /\ tls \/ "timeout" \notin failed => InOrder(n)
                       /\ ~tls /\ "reset" \in failed => n = -1

\* TCPServer.cpp:341: "ret > 0   : bytes received".
BytesReceived == \A n \in 1 .. Size : Received(n) => InOrder(n)
=============================================================================
