--------------------------- MODULE TCPServerProofs ---------------------------
(***************************************************************************)
(* Proofs about TCPServer, with and without TLS, for every number of       *)
(* sockets and bytes, every size of the user's buffer and every number of  *)
(* tries.                                                                   *)
(***************************************************************************)
EXTENDS TCPServer, TLAPS

-----------------------------------------------------------------------------
(* Types.                                                                   *)

Calls == {"none", "Listen", "Disconnect", "SetRcvTimeout", "Receive", "Send"}
Places == {"idle", "make", "listen", "context", "session", "recv", "send",
           "crashed", "destroyed"}

\* A return is to the user, with the call and a value in range.
LEMMA ReturnType ==
    ASSUME NEW call \in Calls, NEW value \in -1 .. Size, Return(call, value)
    PROVE  pc' \in Places /\ returned' \in Calls \X (-1 .. Size)
BY DEF Return, Places

\* The values that are no lengths.
LEMMA Flags == 0 \in -1 .. Size /\ 1 \in -1 .. Size
BY SizeAssumption

\* A new socket has a number.
LEMMA NewSocket ==
    ASSUME made \in 0 .. MaxSockets, made < MaxSockets, made' = made + 1
    PROVE  made' \in Socket /\ made' \in 0 .. MaxSockets
BY BoundsAssumption DEF Socket

\* The pieces of TypeOK that change together.
SocketsType ==
    /\ addrInfo \in BOOLEAN /\ lingers \in BOOLEAN
    /\ listenSocket \in 0 .. MaxSockets /\ client \in 0 .. MaxSockets
    /\ made \in 0 .. MaxSockets
    /\ listening \subseteq Socket /\ open \subseteq Socket
SessionType ==
    /\ pSSL \in 0 .. MaxSockets /\ pCTXSSL \in 0 .. MaxSockets
    /\ frees \in [Freed -> Nat]
CallType ==
    /\ tls \in BOOLEAN
    /\ pc \in Places
    /\ returned \in Calls \X (-1 .. Size)
ConnType ==
    /\ usable \in BOOLEAN /\ rcvTimeout \in BOOLEAN
    /\ peer \in {"none", "up", "closed", "reset"}
DataType ==
    /\ sent \in 0 .. MaxBytes /\ taken \in 0 .. MaxBytes
    /\ pData \in [1 .. Size -> 0 .. MaxBytes]
LoopType ==
    /\ bReadFully \in BOOLEAN
    /\ total \in -1 .. Size /\ tries \in 0 .. MaxTries
    /\ failed \subseteq {"reset", "timeout"}

\* TypeOK is the conjunction of its parts.
LEMMA TypeParts ==
    TypeOK <=> SocketsType /\ SessionType /\ CallType /\ ConnType /\ DataType /\ LoopType
BY Zenon DEF TypeOK, SocketsType, SessionType, CallType, ConnType, DataType, LoopType,
       Calls, Places

\* The initial state has its types.
LEMMA TypeInit == Init => TypeOK
<1> SUFFICES ASSUME Init PROVE TypeOK
  OBVIOUS
<1>1. /\ 0 \in 0 .. MaxSockets /\ 0 \in 0 .. MaxBytes /\ 0 \in 0 .. MaxTries
      /\ 0 \in -1 .. Size
  BY BoundsAssumption, SizeAssumption
<1>2. SocketsType /\ CallType /\ ConnType /\ LoopType
  BY <1>1 DEF Init, SocketsType, CallType, ConnType, LoopType, Calls, Places
<1>3. SessionType
  BY <1>1 DEF Init, SessionType
<1>4. DataType
  BY <1>1 DEF Init, DataType
<1> QED BY <1>2, <1>3, <1>4, TypeParts

\* Counting up one entry of a function.
LEMMA CountUp ==
    ASSUME NEW S, NEW f \in [S -> Nat], NEW x
    PROVE  /\ [f EXCEPT ![x] = @ + 1] \in [S -> Nat]
           /\ \A y \in S : [f EXCEPT ![x] = @ + 1][y] = f[y] + (IF y = x THEN 1 ELSE 0)
<1>1. \A y \in S : f[y] \in Nat
  OBVIOUS
<1>2. CASE x \in S
  <2>1. f[x] + 1 \in Nat
    BY <1>1, <1>2
  <2> QED BY <1>1, <1>2, <2>1
<1>3. CASE x \notin S
  <2> DEFINE g == [f EXCEPT ![x] = @ + 1]
  <2>1. g = f
    BY <1>3
  <2> HIDE DEF g
  <2>2. /\ g \in [S -> Nat]
        /\ \A y \in S : g[y] = f[y] + (IF y = x THEN 1 ELSE 0)
    BY <1>1, <1>3, <2>1
  <2> QED BY <2>2 DEF g
<1> QED BY <1>2, <1>3

\* Sessions and contexts are told apart, and by their sockets.
LEMMA FreedKeys ==
    /\ \A s \in Socket : <<"ssl", s>> \in Freed /\ <<"ctx", s>> \in Freed
    /\ \A s, t : <<"ssl", s>> # <<"ctx", t>> /\ <<"ctx", s>> # <<"ssl", t>>
    /\ \A s, t : <<"ssl", s>> = <<"ssl", t>> <=> s = t
    /\ \A s, t : <<"ctx", s>> = <<"ctx", t>> <=> s = t
BY DEF Freed

\* What ShutdownSSL frees: the session it is given and the present context.
LEMMA Shutdown ==
    ASSUME frees \in [Freed -> Nat], NEW ssl, ssl # 0, ShutdownSSL(ssl)
    PROVE  /\ frees' \in [Freed -> Nat] /\ pSSL' = 0 /\ pCTXSSL' = pCTXSSL
           /\ \A s \in Socket :
                 /\ frees'[<<"ssl", s>>] =
                        frees[<<"ssl", s>>] + (IF s = ssl THEN 1 ELSE 0)
                 /\ frees'[<<"ctx", s>>] =
                        frees[<<"ctx", s>>] + (IF s = pCTXSSL THEN 1 ELSE 0)
<1> DEFINE g == [frees EXCEPT ![<<"ssl", ssl>>] = @ + 1]
           h == [g EXCEPT ![<<"ctx", pCTXSSL>>] = @ + 1]
<1>1. frees' = h /\ pSSL' = 0 /\ pCTXSSL' = pCTXSSL
  BY DEF ShutdownSSL
<1>2. /\ g \in [Freed -> Nat]
      /\ \A y \in Freed : g[y] = frees[y] + (IF y = <<"ssl", ssl>> THEN 1 ELSE 0)
  BY CountUp
<1>3. /\ h \in [Freed -> Nat]
      /\ \A y \in Freed : h[y] = g[y] + (IF y = <<"ctx", pCTXSSL>> THEN 1 ELSE 0)
  <2> HIDE DEF g
  <2> QED BY <1>2, CountUp
<1>4. ASSUME NEW s \in Socket
      PROVE  /\ h[<<"ssl", s>>] = frees[<<"ssl", s>>] + (IF s = ssl THEN 1 ELSE 0)
             /\ h[<<"ctx", s>>] = frees[<<"ctx", s>>] + (IF s = pCTXSSL THEN 1 ELSE 0)
  <2> DEFINE a == <<"ssl", s>>
             b == <<"ctx", s>>
  <2>1. a \in Freed /\ b \in Freed
    BY FreedKeys
  <2>2. /\ a # <<"ctx", pCTXSSL>> /\ (a = <<"ssl", ssl>> <=> s = ssl)
        /\ b # <<"ssl", ssl>> /\ (b = <<"ctx", pCTXSSL>> <=> s = pCTXSSL)
    BY FreedKeys
  <2> HIDE DEF a, b, g, h
  <2>3. g[a] \in Nat /\ frees[a] \in Nat /\ g[b] \in Nat /\ frees[b] \in Nat
    BY <1>2, <2>1
  <2>4. h[a] = frees[a] + (IF s = ssl THEN 1 ELSE 0)
    BY <1>2, <1>3, <2>1, <2>2, <2>3
  <2>5. h[b] = frees[b] + (IF s = pCTXSSL THEN 1 ELSE 0)
    BY <1>2, <1>3, <2>1, <2>2, <2>3
  <2> QED BY <2>4, <2>5 DEF a, b
<1> HIDE DEF h, g
<1> QED BY <1>1, <1>3, <1>4, Zenon

\* One step of the server, its user or the peer, for each part of TypeOK.
LEMMA SocketsStep == TypeOK /\ [Next]_vars => SocketsType'
<1> SUFFICES ASSUME TypeOK, [Next]_vars PROVE SocketsType'
  OBVIOUS
<1>0. SocketsType /\ 0 \in 0 .. MaxSockets
  BY TypeParts, BoundsAssumption
<1>1. CASE UNCHANGED sockets
  BY <1>0, <1>1 DEF sockets, SocketsType
<1>2. CASE Listen
  BY <1>0, <1>2 DEF Listen, conn, SocketsType
<1>3. CASE MakeListener
  <2>1. addrInfo' = FALSE /\ UNCHANGED <<client, open, lingers>>
    BY <1>3 DEF MakeListener
  <2>2. CASE made' = made + 1 /\ listenSocket' = made' /\ listening' = listening \cup {made'}
    <3>1. made' \in Socket /\ made' \in 0 .. MaxSockets
      BY <1>0, <1>3, <2>2, NewSocket DEF MakeListener, SocketsType
    <3> QED BY <1>0, <2>1, <2>2, <3>1 DEF SocketsType
  <2>3. CASE UNCHANGED <<made, listenSocket, listening>>
    BY <1>0, <2>1, <2>3 DEF SocketsType
  <2> QED BY <1>3, <2>2, <2>3 DEF MakeListener
<1>4. CASE ListenFails
  BY <1>0, <1>4 DEF ListenFails, conn, SocketsType
<1>5. CASE Accept
  <2>1. /\ made' \in Socket /\ made' \in 0 .. MaxSockets
        /\ client' = made' /\ open' = open \cup {made'}
        /\ UNCHANGED <<addrInfo, listenSocket, listening, lingers>>
    BY <1>0, <1>5, NewSocket DEF Accept, SocketsType
  <2> QED BY <1>0, <2>1 DEF SocketsType
<1>6. ASSUME NEW call, NEW closed, Close(call, closed),
             UNCHANGED <<addrInfo, listenSocket, listening, client, made>>
      PROVE  SocketsType'
  BY <1>0, <1>6 DEF Close, SocketsType
<1>7. CASE Disconnect
  BY <1>6, <1>7 DEF Disconnect
<1>8. CASE SetRcvTimeout
  BY <1>0, <1>6, <1>8 DEF SetRcvTimeout, SocketsType
<1>9. CASE Destroy
  BY <1>0, <1>9 DEF Destroy, conn, SocketsType
<1>10. NoAddress \/ NoClient \/ Context \/ Handshake \/ StartReceive \/ RecvBytes
           \/ PeerShutDown \/ RecvFails \/ NoBuffers \/ StartSend \/ SendSome
           \/ SendFails \/ PeerSends \/ PeerEnds \/ UNCHANGED vars
           => UNCHANGED sockets
  BY DEF NoAddress, NoClient, Context, Handshake, StartReceive, RecvBytes,
         PeerShutDown, RecvFails, NoBuffers, StartSend, SendSome, SendFails,
         PeerSends, PeerEnds, vars
<1> QED BY <1>1, <1>2, <1>3, <1>4, <1>5, <1>7, <1>8, <1>9, <1>10 DEF Next, User

\* A session and a context are 0 or the number of a socket.
LEMMA SessionStep == TypeOK /\ [Next]_vars => SessionType'
<1> SUFFICES ASSUME TypeOK, [Next]_vars PROVE SessionType'
  OBVIOUS
<1>0. SessionType /\ 0 \in 0 .. MaxSockets /\ client \in 0 .. MaxSockets
  BY TypeParts, BoundsAssumption DEF SocketsType
<1>1. CASE UNCHANGED session
  BY <1>0, <1>1 DEF session, SessionType
<1>2. CASE Context
  BY <1>0, <1>2 DEF Context, SessionType
<1>3. ASSUME NEW ssl, ShutdownSSL(ssl) PROVE SessionType'
  <2>1. CASE ssl = 0
    BY <1>0, <1>3, <2>1 DEF ShutdownSSL, SessionType
  <2>2. CASE ssl # 0
    BY <1>0, <1>3, <2>2, Shutdown DEF SessionType
  <2> QED BY <2>1, <2>2
<1>4. CASE Handshake
  <2>1. CASE pSSL' = client /\ UNCHANGED <<pCTXSSL, frees>>
    BY <1>0, <2>1 DEF SessionType
  <2> QED BY <1>3, <1>4, <2>1 DEF Handshake
<1>5. CASE Disconnect
  BY <1>1, <1>3, <1>5 DEF Disconnect
<1>6. Listen \/ MakeListener \/ NoAddress \/ ListenFails \/ NoClient \/ Accept
          \/ SetRcvTimeout \/ Destroy \/ StartReceive \/ RecvBytes \/ PeerShutDown
          \/ RecvFails \/ NoBuffers \/ StartSend \/ SendSome \/ SendFails \/ PeerSends
          \/ PeerEnds \/ UNCHANGED vars
          => UNCHANGED session
  BY DEF Listen, MakeListener, NoAddress, ListenFails, NoClient, Accept,
         SetRcvTimeout, Destroy, StartReceive, RecvBytes, PeerShutDown, RecvFails,
         NoBuffers, StartSend, SendSome, SendFails, PeerSends, PeerEnds, vars
<1> QED BY <1>1, <1>2, <1>4, <1>5, <1>6 DEF Next, User

\* A step leads to a place of the call, and a return gives a value in range.
LEMMA CallStep == TypeOK /\ WithinBuffer /\ [Next]_vars => CallType'
<1> SUFFICES ASSUME TypeOK, WithinBuffer, [Next]_vars PROVE CallType'
  OBVIOUS
<1>0. CallType /\ total \in -1 .. Size
  BY TypeParts DEF LoopType
<1>1. tls' = tls
  BY DEF Next, User, Listen, MakeListener, NoAddress, ListenFails, NoClient, Accept,
         Context, Handshake, Disconnect, SetRcvTimeout, Destroy, StartReceive,
         RecvBytes, PeerShutDown, RecvFails, NoBuffers, StartSend, SendSome,
         SendFails, PeerSends, PeerEnds, vars
<1>2. ASSUME NEW to \in Places, pc' = to, UNCHANGED returned PROVE CallType'
  BY <1>0, <1>1, <1>2 DEF CallType
<1>3. ASSUME NEW call \in Calls, NEW value \in -1 .. Size, Return(call, value)
      PROVE  CallType'
  BY <1>0, <1>1, <1>3, ReturnType DEF CallType
<1>4. ASSUME UNCHANGED <<pc, returned>> PROVE CallType'
  BY <1>0, <1>1, <1>4 DEF CallType
<1>5. ASSUME NEW call \in Calls, NEW closed \in -1 .. Size, Close(call, closed)
      PROVE  CallType'
  BY <1>3, <1>5, Flags DEF Close
<1>6. ASSUME NEW n \in -1 .. Size, Loop(n) PROVE CallType'
  <2>1. "Receive" \in Calls
    BY DEF Calls
  <2> QED BY <1>3, <1>4, <1>6, <2>1 DEF Loop
<1>7. /\ {"Listen", "Disconnect", "SetRcvTimeout", "Receive", "Send"} \subseteq Calls
      /\ {"make", "listen", "context", "session", "recv", "send", "crashed", "destroyed"}
             \subseteq Places
  BY DEF Calls, Places
<1>8. CASE Listen \/ MakeListener \/ NoAddress \/ ListenFails \/ NoClient \/ Accept
  <2>1. \/ \E to \in Places : pc' = to /\ UNCHANGED returned
        \/ Return("Listen", 0) \/ Return("Listen", 1)
    BY <1>7, <1>8 DEF Listen, MakeListener, NoAddress, ListenFails, NoClient, Accept, Goes
  <2> QED BY <1>2, <1>3, <1>7, <2>1, Flags
<1>9. CASE Context \/ Handshake
  <2>1. \/ \E to \in Places : pc' = to /\ UNCHANGED returned
        \/ Return("Listen", 0) \/ Return("Listen", 1)
    BY <1>7, <1>9 DEF Context, Handshake, Goes
  <2> QED BY <1>2, <1>3, <1>7, <2>1, Flags
<1>10. CASE Disconnect \/ SetRcvTimeout
  BY <1>3, <1>5, <1>7, <1>10, Flags DEF Disconnect, SetRcvTimeout
<1>11. CASE Destroy \/ StartReceive \/ StartSend
  BY <1>2, <1>7, <1>11 DEF Destroy, StartReceive, StartSend, Goes
<1>12. CASE RecvBytes
  <2>1. PICK k \in 1 .. Size - total : Loop(total + k)
    BY <1>12 DEF RecvBytes
  <2>2. total + k \in -1 .. Size
    BY <1>0, SizeAssumption
  <2> QED BY <1>6, <2>1, <2>2
<1>13. CASE PeerShutDown
  BY <1>0, <1>3, <1>7, <1>13 DEF PeerShutDown
<1>14. CASE NoBuffers
  BY <1>0, <1>3, <1>6, <1>7, <1>14 DEF NoBuffers
<1>15. CASE RecvFails
  <2>1. CASE tls
    BY <1>0, <1>3, <1>7, <1>15, <2>1 DEF RecvFails
  <2>2. CASE ~tls
    <3>1. total \in 0 .. Size - 1
      BY <1>15 DEF RecvFails, WithinBuffer
    <3>2. total - 1 \in -1 .. Size
      BY <3>1, SizeAssumption
    <3> QED BY <1>6, <1>15, <2>2, <3>2 DEF RecvFails
  <2> QED BY <2>1, <2>2
<1>16. CASE SendSome \/ SendFails
  BY <1>3, <1>4, <1>7, <1>16, Flags DEF SendSome, SendFails
<1>17. CASE PeerSends \/ PeerEnds \/ UNCHANGED vars
  BY <1>4, <1>17 DEF PeerSends, PeerEnds, vars
<1> QED BY <1>8, <1>9, <1>10, <1>11, <1>12, <1>13, <1>14, <1>15, <1>16, <1>17
        DEF Next, User

\* The connection's flags keep their types.
LEMMA ConnStep == TypeOK /\ [Next]_vars => ConnType'
<1> SUFFICES ASSUME TypeOK, [Next]_vars PROVE ConnType'
  OBVIOUS
<1>0. ConnType
  BY TypeParts
<1>1. CASE UNCHANGED conn
  BY <1>0, <1>1 DEF conn, ConnType
<1>2. CASE Accept
  BY <1>0, <1>2 DEF Accept, ConnType
<1>3. CASE Handshake
  BY <1>0, <1>3 DEF Handshake, ConnType
<1>4. CASE Disconnect
  BY <1>0, <1>4 DEF Disconnect, ConnType
<1>5. CASE SetRcvTimeout
  BY <1>0, <1>5 DEF SetRcvTimeout, ConnType
<1>6. CASE PeerEnds
  BY <1>0, <1>6 DEF PeerEnds, ConnType
<1>7. Listen \/ MakeListener \/ NoAddress \/ ListenFails \/ NoClient \/ Context
          \/ Destroy \/ StartReceive \/ RecvBytes \/ PeerShutDown \/ RecvFails
          \/ NoBuffers \/ StartSend \/ SendSome \/ SendFails \/ PeerSends
          \/ UNCHANGED vars
          => UNCHANGED conn
  BY DEF Listen, MakeListener, NoAddress, ListenFails, NoClient, Context, Destroy,
         StartReceive, RecvBytes, PeerShutDown, RecvFails, NoBuffers, StartSend,
         SendSome, SendFails, PeerSends, vars
<1> QED BY <1>1, <1>2, <1>3, <1>4, <1>5, <1>6, <1>7 DEF Next, User

\* A byte recv takes is one the peer has sent.
LEMMA TakenByte ==
    ASSUME NEW t \in 0 .. MaxBytes, NEW n \in -1 .. Size, NEW k \in 1 .. Size - n,
           t + k \in 0 .. MaxBytes, NEW i \in n + 1 .. n + k
    PROVE  t + i - n \in 0 .. MaxBytes
BY SizeAssumption, BoundsAssumption

\* recv takes no more than was sent and writes inside the buffer.
LEMMA DataStep == TypeOK /\ [Next]_vars => DataType'
<1> SUFFICES ASSUME TypeOK, [Next]_vars PROVE DataType'
  OBVIOUS
<1>0. DataType /\ total \in -1 .. Size /\ 0 \in 0 .. MaxBytes
  BY TypeParts, BoundsAssumption DEF LoopType
<1>1. CASE UNCHANGED data
  BY <1>0, <1>1 DEF data, DataType
<1>2. CASE Accept
  BY <1>0, <1>2 DEF Accept, DataType
<1>3. CASE PeerSends
  <2>1. sent' \in 0 .. MaxBytes
    BY <1>0, <1>3, BoundsAssumption DEF PeerSends, DataType
  <2> QED BY <1>0, <1>3, <2>1 DEF PeerSends, DataType
<1>4. CASE RecvBytes
  <2>1. PICK k \in 1 .. Size - total :
           /\ taken + k <= sent
           /\ taken' = taken + k
           /\ pData' = [i \in 1 .. Size |-> IF i \in total + 1 .. total + k
                                               THEN taken + i - total ELSE pData[i]]
    BY <1>4 DEF RecvBytes
  <2>2. sent' = sent
    BY <1>4 DEF RecvBytes
  <2>3. taken' \in 0 .. MaxBytes
    BY <1>0, <2>1, BoundsAssumption, SizeAssumption DEF DataType
  <2>4. ASSUME NEW i \in 1 .. Size
        PROVE  (IF i \in total + 1 .. total + k THEN taken + i - total ELSE pData[i])
                   \in 0 .. MaxBytes
    <3>1. CASE i \in total + 1 .. total + k
      BY <1>0, <2>1, <2>3, <3>1, TakenByte DEF DataType
    <3>2. CASE i \notin total + 1 .. total + k
      BY <1>0, <3>2 DEF DataType
    <3> QED BY <3>1, <3>2
  <2>5. pData' \in [1 .. Size -> 0 .. MaxBytes]
    BY <2>1, <2>4
  <2> QED BY <1>0, <2>2, <2>3, <2>5 DEF DataType
<1>5. Listen \/ MakeListener \/ NoAddress \/ ListenFails \/ NoClient \/ Context
          \/ Handshake \/ Disconnect \/ SetRcvTimeout \/ Destroy \/ StartReceive
          \/ PeerShutDown \/ RecvFails \/ NoBuffers \/ StartSend \/ SendSome
          \/ SendFails \/ PeerEnds \/ UNCHANGED vars
          => UNCHANGED data
  BY DEF Listen, MakeListener, NoAddress, ListenFails, NoClient, Context, Handshake,
         Disconnect, SetRcvTimeout, Destroy, StartReceive, PeerShutDown, RecvFails,
         NoBuffers, StartSend, SendSome, SendFails, PeerEnds, vars
<1> QED BY <1>1, <1>2, <1>3, <1>4, <1>5 DEF Next, User

\* An error takes one off a total that is no less than 0.
LEMMA LoopStep == TypeOK /\ WithinBuffer /\ [Next]_vars => LoopType'
<1> SUFFICES ASSUME TypeOK, WithinBuffer, [Next]_vars PROVE LoopType'
  OBVIOUS
<1>0. LoopType /\ 0 \in -1 .. Size /\ 0 \in 0 .. MaxTries
  BY TypeParts, Flags, BoundsAssumption
<1>1. CASE UNCHANGED loop
  BY <1>0, <1>1 DEF loop, LoopType
<1>2. CASE StartReceive
  BY <1>0, <1>2 DEF StartReceive, LoopType
<1>3. CASE StartSend
  BY <1>0, <1>3 DEF StartSend, LoopType
<1>4. CASE RecvBytes
  <2>1. PICK k \in 1 .. Size - total : total' = total + k
    BY <1>4 DEF RecvBytes, Loop
  <2>2. total' \in -1 .. Size
    BY <1>0, <2>1, SizeAssumption DEF LoopType
  <2> QED BY <1>0, <1>4, <2>2 DEF RecvBytes, LoopType
<1>5. CASE RecvFails
  <2>1. total' \in {total, total - 1} /\ total \in 0 .. Size - 1
    BY <1>5 DEF RecvFails, Loop, WithinBuffer
  <2>2. total' \in -1 .. Size
    BY <2>1, SizeAssumption
  <2>3. failed' \subseteq {"reset", "timeout"}
    BY <1>0, <1>5 DEF RecvFails, Failure, LoopType
  <2> QED BY <1>0, <1>5, <2>2, <2>3 DEF RecvFails, LoopType
<1>6. CASE NoBuffers
  <2>1. total' = total /\ tries' \in 0 .. MaxTries /\ UNCHANGED <<bReadFully, failed>>
    BY <1>0, <1>6, BoundsAssumption DEF NoBuffers, Loop, LoopType
  <2> QED BY <1>0, <2>1 DEF LoopType
<1>7. CASE SendSome
  <2>1. total' \in -1 .. Size
    BY <1>0, <1>7, SizeAssumption DEF SendSome, LoopType
  <2> QED BY <1>0, <1>7, <2>1 DEF SendSome, LoopType
<1>8. Listen \/ MakeListener \/ NoAddress \/ ListenFails \/ NoClient \/ Accept
          \/ Context \/ Handshake \/ Disconnect \/ SetRcvTimeout \/ Destroy
          \/ PeerShutDown \/ SendFails \/ PeerSends \/ PeerEnds \/ UNCHANGED vars
          => UNCHANGED loop
  BY DEF Listen, MakeListener, NoAddress, ListenFails, NoClient, Accept, Context,
         Handshake, Disconnect, SetRcvTimeout, Destroy, PeerShutDown, SendFails,
         PeerSends, PeerEnds, vars
<1> QED BY <1>1, <1>2, <1>3, <1>4, <1>5, <1>6, <1>7, <1>8 DEF Next, User

\* The loops of Receive only go round while there is room.
LEMMA RoomStep == TypeOK /\ WithinBuffer /\ [Next]_vars => WithinBuffer'
<1> SUFFICES ASSUME TypeOK, WithinBuffer, [Next]_vars, pc' = "recv"
             PROVE  total' \in 0 .. Size - 1
  BY DEF WithinBuffer
<1>0. total \in -1 .. Size /\ LoopType'
  BY TypeParts, LoopStep DEF LoopType
<1>1. CASE StartReceive
  BY <1>1, SizeAssumption DEF StartReceive
<1>2. ASSUME NEW n \in Int, Loop(n) PROVE total' \in 0 .. Size - 1
  BY <1>2, SizeAssumption DEF Loop, More, Return
<1>3. CASE RecvBytes
  BY <1>0, <1>2, <1>3, SizeAssumption DEF RecvBytes
<1>4. CASE RecvFails
  BY <1>0, <1>2, <1>4 DEF RecvFails, Return
<1>5. CASE NoBuffers
  BY <1>0, <1>2, <1>5 DEF NoBuffers, Return
<1>6. CASE UNCHANGED <<pc, total>>
  BY <1>6 DEF WithinBuffer
<1>7. CASE SendSome
  BY <1>7 DEF SendSome, Return
<1>8. Disconnect \/ SetRcvTimeout => pc' = "idle"
  BY DEF Disconnect, SetRcvTimeout, Close, Return
<1>9. Listen \/ MakeListener \/ NoAddress \/ ListenFails \/ NoClient \/ Accept
          \/ Context \/ Handshake \/ Destroy \/ PeerShutDown \/ StartSend \/ SendFails
          => pc' # "recv"
  BY DEF Listen, MakeListener, NoAddress, ListenFails, NoClient, Accept, Context,
         Handshake, Destroy, PeerShutDown, StartSend, SendFails, Goes, Return
<1>10. PeerSends \/ PeerEnds \/ UNCHANGED vars => UNCHANGED <<pc, total>>
  BY DEF PeerSends, PeerEnds, vars, loop
<1> QED BY <1>1, <1>3, <1>4, <1>5, <1>6, <1>7, <1>8, <1>9, <1>10 DEF Next, User

\* A step keeps every type.
LEMMA TypeStep == TypeOK /\ WithinBuffer /\ [Next]_vars => TypeOK'
<1> SUFFICES ASSUME TypeOK, WithinBuffer, [Next]_vars PROVE TypeOK'
  OBVIOUS
<1>1. /\ SocketsType' /\ SessionType' /\ CallType' /\ ConnType' /\ DataType'
      /\ LoopType'
  BY SocketsStep, SessionStep, CallStep, ConnStep, DataStep, LoopStep
<1> QED BY <1>1, Zenon DEF TypeOK, SocketsType, SessionType, CallType, ConnType, DataType,
               LoopType, Calls, Places

-----------------------------------------------------------------------------
(* Sockets and sessions. The inductive invariant says of every place of a  *)
(* call which handles the object and its user hold, and of every session    *)
(* and context whether it may still be freed.                               *)

\* The handles held: no listening socket while one is made, no client before
\* Listen has given the user one, and no accepted socket but the client.
Handles ==
    /\ pc = "make" => listenSocket = 0
    /\ pc \in {"make", "listen", "context", "session"} => ~usable
    /\ usable => client # 0
    /\ listening \subseteq {listenSocket}
    /\ ~tls /\ ~lingers => open \subseteq {client} /\ (~usable => open = {})

\* What may have been freed: nothing twice, nothing of a socket not made yet or
\* in its handshake, not the user's session, and not its context as long as
\* the user has a session.
FreedAt(s) ==
    /\ frees[<<"ssl", s>>] \in 0 .. 1 /\ frees[<<"ctx", s>>] \in 0 .. 1
    /\ s > made => frees[<<"ssl", s>>] = 0 /\ frees[<<"ctx", s>>] = 0
    /\ s = pSSL => frees[<<"ssl", s>>] = 0
    /\ s = pCTXSSL /\ pSSL # 0 => frees[<<"ctx", s>>] = 0
    /\ pc \in {"context", "session"} /\ s = made
           => frees[<<"ssl", s>>] = 0 /\ frees[<<"ctx", s>>] = 0

\* The session belongs to the client the user has, and in a handshake to the
\* socket made last.
Sessions ==
    /\ pSSL <= made /\ pCTXSSL <= made
    /\ \A s \in Socket : FreedAt(s)
    /\ pc \in {"context", "session"} => client = made /\ client # 0
    /\ pc = "session" => pCTXSSL = client
    /\ tls /\ usable => pSSL = client

\* At first there is nothing to hold.
LEMMA HandlesInit == Init => Handles
BY DEF Init, Handles

\* At first nothing has been freed.
LEMMA SessionsInit == Init => Sessions
<1> SUFFICES ASSUME Init PROVE Sessions
  OBVIOUS
<1>1. ASSUME NEW s \in Socket PROVE FreedAt(s)
  <2>1. frees[<<"ssl", s>>] = 0 /\ frees[<<"ctx", s>>] = 0
    BY FreedKeys DEF Init
  <2> QED BY <2>1 DEF FreedAt
<1> QED BY <1>1 DEF Init, Sessions

\* What Close does to the accepted sockets, where the user's client is closed
\* or kept open by a failed shutdown.
LEMMA Closing ==
    ASSUME NEW call, NEW closed, Close(call, closed),
           lingers \in BOOLEAN, ~tls /\ ~lingers => open \subseteq {client}
    PROVE  /\ pc' = "idle"
           /\ ~tls /\ ~lingers' => open' = {}
<1>1. open \subseteq {client} => open \ {client} = {} /\ (client \notin open => open = {})
  OBVIOUS
<1>2. lingers' => lingers \/ client \in open
  BY Zenon DEF Close
<1>3. lingers \/ (open' = open /\ client \in open) => lingers'
  BY Zenon DEF Close
<1> QED BY <1>1, <1>2, <1>3, Zenon DEF Close, Return

\* A step keeps the handles known: what Listen makes is held or closed, and what
\* Disconnect leaves open is one that shutdown has failed on.
LEMMA HandlesStep == TypeOK /\ Handles /\ Sessions /\ [Next]_vars => Handles'
<1> SUFFICES ASSUME TypeOK, Handles, Sessions, [Next]_vars PROVE Handles'
  OBVIOUS
<1>0. /\ tls \in BOOLEAN /\ lingers \in BOOLEAN /\ usable \in BOOLEAN
      /\ lingers' \in BOOLEAN /\ usable' \in BOOLEAN
  BY TypeParts, SocketsStep, ConnStep DEF CallType, SocketsType, ConnType
<1>1. ASSUME UNCHANGED <<tls, listenSocket, listening, client, open, lingers, usable>>,
             pc' = "make" => listenSocket = 0,
             pc' \in {"make", "listen", "context", "session"} => ~usable
      PROVE  Handles'
  BY <1>1 DEF Handles
<1>2. CASE Listen
  <2>1. /\ pc' = IF listenSocket = 0 THEN "make" ELSE "listen"
        /\ ~usable /\ UNCHANGED <<tls, listenSocket, listening, open, lingers, usable>>
    BY <1>2 DEF Listen, conn, Goes
  <2>2. ~tls /\ ~lingers => open = {}
    BY <2>1 DEF Handles
  <2>3. pc' = "make" => listenSocket = 0
    BY <2>1
  <2> QED BY <1>0, <2>1, <2>2, <2>3 DEF Handles
<1>3. CASE MakeListener
  <2>1. /\ listenSocket = 0 /\ ~usable /\ pc' \in {"listen", "idle"}
        /\ UNCHANGED <<tls, client, open, lingers, usable>>
    BY <1>3 DEF MakeListener, conn, Return, Handles
  <2>2. listening = {}
    BY <2>1 DEF Handles, TypeOK, Socket
  <2>3. listening' \subseteq {listenSocket'}
    BY <1>3, <2>1, <2>2 DEF MakeListener
  <2> QED BY <1>0, <2>1, <2>3 DEF Handles
<1>4. CASE ListenFails
  BY <1>0, <1>4 DEF ListenFails, conn, Return, Handles
<1>5. CASE Accept
  <2>1. made' \in Socket /\ made' # 0
    BY <1>5, NewSocket DEF Accept, TypeOK, Socket
  <2> QED BY <1>5, <2>1 DEF Accept, Return, Handles
<1>6. CASE Handshake
  BY <1>0, <1>6 DEF Handshake, sockets, Return, Handles, Sessions
<1>7. CASE Disconnect
  <2>1. pc' = "idle" /\ (~tls /\ ~lingers' => open' = {})
    BY <1>7, <1>0, Closing DEF Disconnect, Handles
  <2> QED BY <1>0, <1>7, <2>1 DEF Disconnect, Handles
<1>8. CASE SetRcvTimeout
  <2>1. pc' = "idle"
    BY <1>0, <1>8 DEF SetRcvTimeout, Close, Return
  <2>2. CASE UNCHANGED <<open, lingers, usable>>
    BY <1>8, <2>1, <2>2 DEF SetRcvTimeout, Handles
  <2>3. CASE Close("SetRcvTimeout", 0) /\ usable' = FALSE
    <3>1. ~tls /\ ~lingers' => open' = {}
      BY <2>3, <1>0, Closing DEF Handles
    <3> QED BY <1>0, <1>8, <2>1, <2>3, <3>1 DEF SetRcvTimeout, Handles
  <2> QED BY <1>8, <2>2, <2>3 DEF SetRcvTimeout
<1>9. CASE Destroy
  BY <1>0, <1>9 DEF Destroy, conn, Goes, Handles
<1>10. CASE NoAddress \/ NoClient \/ Context
  BY <1>1, <1>10 DEF NoAddress, NoClient, Context, Goes, Return, sockets, conn, Handles
<1>11. CASE StartReceive \/ StartSend
  BY <1>1, <1>11 DEF StartReceive, StartSend, Goes, sockets, conn
<1>12. CASE RecvBytes \/ PeerShutDown \/ RecvFails \/ NoBuffers
  <2>1. pc' \in {"idle", "recv"}
    BY <1>12 DEF RecvBytes, PeerShutDown, RecvFails, NoBuffers, Loop, Return
  <2> QED BY <1>1, <1>12, <2>1 DEF RecvBytes, PeerShutDown, RecvFails, NoBuffers, sockets, conn
<1>13. CASE SendSome \/ SendFails
  BY <1>1, <1>13 DEF SendSome, SendFails, Return, sockets, conn
<1>14. CASE PeerSends \/ PeerEnds \/ UNCHANGED vars
  BY <1>1, <1>14 DEF PeerSends, PeerEnds, vars, sockets, conn, Handles
<1> QED BY <1>2, <1>3, <1>4, <1>5, <1>6, <1>7, <1>8, <1>9, <1>10, <1>11, <1>12, <1>13,
           <1>14 DEF Next, User

\* A step that changes no session, no client and no number made, and starts no
\* handshake.
LEMMA SessionsKept ==
    ASSUME Sessions, UNCHANGED <<tls, session, client, made>>, usable' => usable,
           pc' \in {"context", "session"} => pc' = pc
    PROVE  Sessions'
<1>1. ASSUME NEW s \in Socket PROVE FreedAt(s)'
  <2>1. FreedAt(s)
    BY DEF Sessions
  <2> QED BY <2>1 DEF FreedAt, session
<1>2. \A s \in Socket : FreedAt(s)'
  BY <1>1
<1> QED BY <1>2 DEF Sessions, session

\* A shutdown of a session not freed yet, with a context not freed yet.
LEMMA SessionsShutdown ==
    ASSUME TypeOK, Sessions, NEW ssl \in Socket, ShutdownSSL(ssl), ssl <= made,
           frees[<<"ssl", ssl>>] = 0,
           pCTXSSL # 0 => frees[<<"ctx", pCTXSSL>>] = 0,
           UNCHANGED <<tls, made>>, pc' = "idle", tls => ~usable'
    PROVE  Sessions'
<1>0. /\ made \in Int /\ frees \in [Freed -> Nat] /\ ssl # 0 /\ tls \in BOOLEAN
      /\ pCTXSSL \in 0 .. MaxSockets
  BY DEF TypeOK, Socket
<1>1. /\ pSSL' = 0 /\ pCTXSSL' = pCTXSSL
      /\ \A s \in Socket :
            /\ frees'[<<"ssl", s>>] = frees[<<"ssl", s>>] + (IF s = ssl THEN 1 ELSE 0)
            /\ frees'[<<"ctx", s>>] = frees[<<"ctx", s>>] + (IF s = pCTXSSL THEN 1 ELSE 0)
  BY <1>0, Shutdown
<1>2. ASSUME NEW s \in Socket PROVE FreedAt(s)'
  <2> DEFINE a == frees[<<"ssl", s>>]
             b == frees[<<"ctx", s>>]
             c == frees'[<<"ssl", s>>]
             d == frees'[<<"ctx", s>>]
  <2>1. /\ a \in 0 .. 1 /\ b \in 0 .. 1 /\ s \in Int /\ s # 0
        /\ (s > made => a = 0 /\ b = 0)
    BY DEF Sessions, FreedAt, Socket
  <2>2. (s = ssl => a = 0) /\ (s = pCTXSSL => b = 0)
    BY <2>1
  <2>3. c = a + (IF s = ssl THEN 1 ELSE 0) /\ d = b + (IF s = pCTXSSL THEN 1 ELSE 0)
    BY <1>1
  <2>4. s > made => s # ssl /\ s # pCTXSSL
    BY <1>0, <2>1 DEF Sessions, Socket
  <2> HIDE DEF a, b, c, d
  <2>5. c \in 0 .. 1 /\ d \in 0 .. 1 /\ (s > made => c = 0 /\ d = 0)
    BY <2>1, <2>2, <2>3, <2>4
  <2>6. s # pSSL' /\ pSSL' = 0
    BY <1>1, <2>1
  <2> QED BY <2>5, <2>6 DEF FreedAt, c, d
<1>3. \A s \in Socket : FreedAt(s)'
  BY <1>2
<1>4. pSSL' <= made' /\ pCTXSSL' <= made'
  BY <1>0, <1>1 DEF Sessions, TypeOK
<1>5. tls' /\ usable' => pSSL' = client'
  OBVIOUS
<1> QED BY <1>3, <1>4, <1>5 DEF Sessions

\* A step frees only what has not been freed.
LEMMA SessionsStep == TypeOK /\ Handles /\ Sessions /\ [Next]_vars => Sessions'
<1> SUFFICES ASSUME TypeOK, Handles, Sessions, [Next]_vars PROVE Sessions'
  OBVIOUS
<1>0. /\ tls \in BOOLEAN /\ usable \in BOOLEAN /\ usable' \in BOOLEAN
      /\ made \in 0 .. MaxSockets /\ client \in 0 .. MaxSockets
      /\ pSSL \in 0 .. MaxSockets /\ pCTXSSL \in 0 .. MaxSockets
  BY TypeParts, ConnStep DEF CallType, SocketsType, SessionType, ConnType
<1>1. CASE Listen
  <2>1. /\ pc' \in {"make", "listen"} /\ ~usable
        /\ UNCHANGED <<tls, session, made, usable>>
    BY <1>1 DEF Listen, conn, Goes
  <2>2. \A s \in Socket : FreedAt(s)'
    BY <2>1 DEF Sessions, FreedAt, session
  <2> QED BY <1>0, <2>1, <2>2 DEF Sessions, session
<1>2. CASE MakeListener
  <2>1. /\ pc = "make" /\ pc' \in {"listen", "idle"} /\ ~usable /\ made <= made'
        /\ UNCHANGED <<tls, session, usable>>
    BY <1>0, <1>2 DEF MakeListener, conn, Return, Handles
  <2>2. made' \in Int
    BY <1>0, <1>2 DEF MakeListener
  <2>3. ASSUME NEW s \in Socket PROVE FreedAt(s)'
    BY <1>0, <2>1, <2>2 DEF Sessions, FreedAt, session, Socket
  <2>4. \A s \in Socket : FreedAt(s)'
    BY <2>3
  <2>5. pSSL' <= made' /\ pCTXSSL' <= made'
    BY <1>0, <2>1, <2>2 DEF Sessions, session
  <2> QED BY <1>0, <2>1, <2>4, <2>5 DEF Sessions, session
<1>3. CASE Accept
  <2>1. /\ made' = made + 1 /\ client' = made' /\ made' # 0
        /\ UNCHANGED <<tls, session>> /\ ~usable
        /\ (tls => pc' = "context" /\ ~usable')
        /\ (~tls => pc' = "idle")
    BY <1>0, <1>3 DEF Accept, Return, Handles
  <2>2. made' \in Int
    BY <1>0, <2>1
  <2>3. ASSUME NEW s \in Socket PROVE FreedAt(s)'
    <3>1. FreedAt(s) /\ s \in Int
      BY DEF Sessions, Socket
    <3>2. s > made' \/ s = made' => s > made
      BY <1>0, <2>1, <3>1
    <3> QED BY <2>1, <3>1, <3>2 DEF FreedAt, session
  <2>4. \A s \in Socket : FreedAt(s)'
    BY <2>3
  <2>5. pSSL' <= made' /\ pCTXSSL' <= made'
    BY <1>0, <2>1, <2>2 DEF Sessions, session
  <2> QED BY <1>0, <2>1, <2>4, <2>5 DEF Sessions, session
<1>4. CASE Context
  <2>1. /\ pc = "context" /\ ~usable /\ client = made /\ client # 0
        /\ UNCHANGED <<tls, client, made, usable, pSSL, frees>>
        /\ pc' \in {"idle", "session"} /\ (pc' = "session" => pCTXSSL' = client)
        /\ pCTXSSL' \in {0, client}
    BY <1>4 DEF Context, sockets, conn, Return, Handles, Sessions
  <2>2. ASSUME NEW s \in Socket PROVE FreedAt(s)'
    <3>1. FreedAt(s) /\ s # 0
      BY DEF Sessions, Socket
    <3>2. s = pCTXSSL' => s = made
      BY <2>1, <3>1
    <3> QED BY <2>1, <3>1, <3>2 DEF FreedAt
  <2>3. \A s \in Socket : FreedAt(s)'
    BY <2>2
  <2>4. pSSL' <= made' /\ pCTXSSL' <= made'
    BY <1>0, <2>1 DEF Sessions
  <2> QED BY <1>0, <2>1, <2>3, <2>4 DEF Sessions
<1>5. CASE Handshake
  <2>1. /\ pc = "session" /\ pc' = "idle" /\ ~usable
        /\ client = made /\ client # 0 /\ pCTXSSL = client
        /\ UNCHANGED <<tls, client, made>>
    BY <1>5 DEF Handshake, sockets, Return, Handles, Sessions
  <2>2. made \in Socket /\ FreedAt(made)
    BY <1>0, <2>1, BoundsAssumption DEF Socket, Sessions
  <2>3. frees[<<"ssl", made>>] = 0 /\ frees[<<"ctx", made>>] = 0
    BY <2>1, <2>2 DEF FreedAt
  <2>4. CASE pSSL' = client /\ UNCHANGED <<pCTXSSL, frees>>
    <3>1. ASSUME NEW s \in Socket PROVE FreedAt(s)'
      <4>1. FreedAt(s)
        BY DEF Sessions
      <4> QED BY <2>1, <2>3, <2>4, <4>1 DEF FreedAt
    <3>2. \A s \in Socket : FreedAt(s)'
      BY <3>1
    <3>3. pSSL' <= made' /\ pCTXSSL' <= made'
      BY <1>0, <2>1, <2>4
    <3> QED BY <2>1, <2>4, <3>2, <3>3 DEF Sessions
  <2>5. CASE ShutdownSSL(client) /\ UNCHANGED usable
    <3>1. tls => ~usable'
      BY <2>1, <2>5
    <3>2. made <= made
      BY <1>0
    <3> QED BY <2>1, <2>2, <2>3, <2>5, <3>1, <3>2, SessionsShutdown
  <2> QED BY <1>5, <2>4, <2>5 DEF Handshake
<1>6. CASE Disconnect
  <2>1. pc' = "idle" /\ usable' = FALSE /\ UNCHANGED <<tls, client, made>>
    BY <1>6 DEF Disconnect, Close, Return
  <2>2. CASE UNCHANGED session
    BY <2>1, <2>2, SessionsKept
  <2>3. CASE ShutdownSSL(pSSL)
    <3>1. CASE pSSL = 0
      <4>1. UNCHANGED session
        BY <2>3, <3>1 DEF ShutdownSSL, session
      <4> QED BY <2>2, <4>1
    <3>2. CASE pSSL # 0
      <4>1. pSSL \in Socket /\ pSSL <= made
        BY <1>0, <3>2, BoundsAssumption DEF Socket, Sessions
      <4>2. frees[<<"ssl", pSSL>>] = 0
        BY <4>1 DEF Sessions, FreedAt
      <4>3. pCTXSSL # 0 => frees[<<"ctx", pCTXSSL>>] = 0
        <5>1. ASSUME pCTXSSL # 0 PROVE frees[<<"ctx", pCTXSSL>>] = 0
          <6>1. pCTXSSL \in Socket
            BY <1>0, <5>1, BoundsAssumption DEF Socket
          <6> QED BY <3>2, <6>1 DEF Sessions, FreedAt
        <5> QED BY <5>1
      <4> QED BY <2>1, <2>3, <4>1, <4>2, <4>3, SessionsShutdown
    <3> QED BY <3>1, <3>2
  <2> QED BY <1>6, <2>2, <2>3 DEF Disconnect
<1>7. CASE SetRcvTimeout
  <2>1. /\ pc' = "idle" /\ (usable' => usable)
        /\ UNCHANGED <<tls, client, made, session>>
    BY <1>0, <1>7 DEF SetRcvTimeout, Close, Return
  <2> QED BY <2>1, SessionsKept
<1>8. CASE NoAddress \/ ListenFails \/ NoClient \/ Destroy \/ StartReceive \/ StartSend
  <2>1. /\ UNCHANGED <<tls, client, made, session, usable>>
        /\ pc' \notin {"context", "session"}
    BY <1>8 DEF NoAddress, ListenFails, NoClient, Destroy, StartReceive, StartSend,
                Goes, Return, sockets, conn
  <2> QED BY <2>1, SessionsKept
<1>9. CASE RecvBytes \/ PeerShutDown \/ RecvFails \/ NoBuffers \/ SendSome \/ SendFails
  <2>1. /\ UNCHANGED <<tls, client, made, session, usable>>
        /\ pc' \in {"idle", pc}
    BY <1>9 DEF RecvBytes, PeerShutDown, RecvFails, NoBuffers, SendSome, SendFails,
                Loop, Return, sockets, conn
  <2> QED BY <2>1, SessionsKept
<1>10. CASE PeerSends \/ PeerEnds \/ UNCHANGED vars
  <2>1. UNCHANGED <<tls, client, made, session, usable, pc>>
    BY <1>10 DEF PeerSends, PeerEnds, vars, sockets, conn
  <2> QED BY <2>1, SessionsKept
<1> QED BY <1>1, <1>2, <1>3, <1>4, <1>5, <1>6, <1>7, <1>8, <1>9, <1>10 DEF Next, User

-----------------------------------------------------------------------------
(* Receive.                                                                 *)

\* In the loop of a Receive that has not met an error, the bytes so far are in
\* order; once the peer has reset the connection it stays reset; an error ends
\* a Receive with TLS; and one that need not fill the buffer goes round with
\* nothing read.
Receives ==
    pc = "recv" =>
        /\ ~bReadFully => total = 0
        /\ "reset" \in failed => peer = "reset"
        /\ tls => failed = {}
        /\ failed = {} => InOrder(total)

\* At first no Receive has been called.
LEMMA ReceivesInit == Init => WithinBuffer /\ Receives /\ ReceiveTells
BY DEF Init, WithinBuffer, Receives, ReceiveTells, Received

\* The bytes recv appends follow the ones it gave before.
LEMMA Appended ==
    ASSUME TypeOK, NEW n \in -1 .. Size, InOrder(n), NEW k \in 1 .. Size - n, 0 <= n,
           taken' = taken + k,
           pData' = [i \in 1 .. Size |-> IF i \in n + 1 .. n + k
                                           THEN taken + i - n ELSE pData[i]]
    PROVE  InOrder(n + k)'
<1>0. taken \in Int /\ n \in Int /\ k \in Int /\ Size \in Int
  BY SizeAssumption DEF TypeOK
<1>1. ASSUME NEW i \in 1 .. n + k PROVE pData'[i] = taken' - (n + k) + i
  <2>1. i \in 1 .. Size
    BY <1>0
  <2>2. CASE i \in n + 1 .. n + k
    <3>1. pData'[i] = taken + i - n
      BY <2>1, <2>2
    <3>2. taken + i - n = (taken + k) - (n + k) + i
      BY <1>0, <2>1
    <3> QED BY <3>1, <3>2
  <2>3. CASE i \notin n + 1 .. n + k
    <3>1. i \in 1 .. n
      BY <1>0, <2>1, <2>3
    <3>2. pData'[i] = pData[i]
      BY <2>1, <2>3
    <3>3. pData[i] = taken - n + i
      BY <3>1 DEF InOrder
    <3>4. taken - n + i = (taken + k) - (n + k) + i
      BY <1>0, <2>1
    <3> QED BY <3>2, <3>3, <3>4
  <2> QED BY <2>2, <2>3
<1> QED BY <1>1 DEF InOrder

\* Bytes stay in order as long as nothing is received.
LEMMA OrderKept ==
    ASSUME UNCHANGED <<taken, pData>>, NEW n
    PROVE  InOrder(n)' <=> InOrder(n)
BY DEF InOrder

\* What a return from Receive says.
LEMMA Told ==
    ASSUME NEW value, Return("Receive", value), value \in Int,
           tls' \/ "timeout" \notin failed' => InOrder(value)',
           ~tls' /\ "reset" \in failed' => value = -1
    PROVE  Receives' /\ ReceiveTells'
<1>1. \A n : Received(n)' <=> n = value
  BY DEF Received, Return
<1>2. Receives'
  BY DEF Receives, Return
<1>3. ReceiveTells'
  BY <1>1 DEF ReceiveTells
<1> QED BY <1>2, <1>3

\* A step that goes round in the loop, or returns n as the loop's body does.
LEMMA WentRound ==
    ASSUME NEW n, Loop(n), pc = "recv", n \in Int,
           tls' \/ "timeout" \notin failed'
               => InOrder(n)' \/ (bReadFully /\ More(n) /\ failed' # {}),
           "reset" \in failed' => peer' = "reset",
           tls' => failed' = {},
           bReadFully' = bReadFully,
           ~tls' /\ "reset" \in failed' => n = -1 \/ (bReadFully /\ More(n))
    PROVE  Receives' /\ ReceiveTells'
<1>1. CASE bReadFully /\ More(n)
  <2>1. pc' = "recv" /\ total' = n
    BY <1>1 DEF Loop
  <2>2. Receives'
    BY <1>1, <2>1 DEF Receives
  <2>3. ReceiveTells'
    BY <2>1 DEF ReceiveTells, Received
  <2> QED BY <2>2, <2>3
<1>2. CASE ~(bReadFully /\ More(n))
  <2>1. Return("Receive", n)
    BY <1>2 DEF Loop
  <2>2. /\ (tls' \/ "timeout" \notin failed' => InOrder(n)')
        /\ (~tls' /\ "reset" \in failed' => n = -1)
    BY <1>2
  <2> QED BY <2>1, <2>2, Told
<1> QED BY <1>1, <1>2

\* A step that does not end a Receive, and is not one of its loop's.
LEMMA ReceivesKept ==
    ASSUME Receives, ReceiveTells, UNCHANGED <<tls, taken, pData, loop, pc, returned>>,
           "reset" \in failed /\ peer = "reset" => peer' = "reset"
    PROVE  Receives' /\ ReceiveTells'
<1>1. \A n : (InOrder(n)' <=> InOrder(n)) /\ (Received(n)' <=> Received(n))
  BY DEF InOrder, Received
<1>2. Receives'
  BY <1>1 DEF Receives, loop
<1>3. ReceiveTells'
  BY <1>1 DEF ReceiveTells, loop
<1> QED BY <1>2, <1>3

\* A step that leaves the call outside Receive, and returns from no Receive.
LEMMA Elsewhere ==
    ASSUME pc' \notin {"idle", "recv"} \/ (pc' = "idle" /\ returned'[1] # "Receive")
    PROVE  Receives' /\ ReceiveTells'
BY DEF Receives, ReceiveTells, Received

\* A step of the loop appends bytes in order or counts an error down.
LEMMA ReceivesStep ==
    TypeOK /\ WithinBuffer /\ Receives /\ ReceiveTells /\ [Next]_vars
        => Receives' /\ ReceiveTells'
<1> SUFFICES ASSUME TypeOK, WithinBuffer, Receives, ReceiveTells, [Next]_vars
             PROVE  Receives' /\ ReceiveTells'
  OBVIOUS
<1>0. /\ tls \in BOOLEAN /\ bReadFully \in BOOLEAN /\ Size \in Int
      /\ failed \subseteq {"reset", "timeout"} /\ total \in -1 .. Size
  BY SizeAssumption DEF TypeOK
<1>1. CASE StartReceive
  <2>1. /\ pc' = "recv" /\ total' = 0 /\ failed' = {}
    BY <1>1 DEF StartReceive, Goes
  <2>2. InOrder(total)'
    BY <2>1 DEF InOrder
  <2>3. Receives'
    BY <2>1, <2>2 DEF Receives
  <2> QED BY <2>1, <2>3 DEF ReceiveTells, Received
<1>2. PICK n \in Int : n = total
  BY <1>0
<1>3. CASE RecvBytes
  <2>1. PICK k \in 1 .. Size - n :
           /\ taken' = taken + k
           /\ pData' = [i \in 1 .. Size |-> IF i \in n + 1 .. n + k
                                               THEN taken + i - n ELSE pData[i]]
           /\ Loop(n + k)
    BY <1>2, <1>3 DEF RecvBytes
  <2>2. /\ pc = "recv" /\ peer # "reset" /\ total \in 0 .. Size - 1
        /\ UNCHANGED <<tls, peer, bReadFully, failed>>
    BY <1>3 DEF RecvBytes, conn, WithinBuffer
  <2>3. "reset" \notin failed /\ (tls => failed = {})
    BY <2>2 DEF Receives
  <2>4. tls \/ "timeout" \notin failed => failed = {}
    BY <1>0, <2>3
  <2>5. failed = {} => InOrder(n + k)'
    <3>1. ASSUME failed = {} PROVE InOrder(n + k)'
      <4>1. InOrder(n)
        BY <1>2, <2>2, <3>1 DEF Receives
      <4>2. 0 <= n /\ n \in -1 .. Size
        BY <1>0, <1>2, <2>2
      <4> QED BY <2>1, <4>1, <4>2, Appended
    <3> QED BY <3>1
  <2> DEFINE m == n + k
  <2>6. m \in Int
    BY <1>0
  <2>7. Loop(m) /\ (failed = {} => InOrder(m)')
    BY <2>1, <2>5
  <2> HIDE DEF m
  <2> QED BY <2>2, <2>3, <2>4, <2>6, <2>7, WentRound
<1>4. ASSUME UNCHANGED <<taken, pData>>, InOrder(total) PROVE InOrder(n)'
  BY <1>2, <1>4 DEF InOrder
<1>5. CASE PeerShutDown
  <2>1. /\ pc = "recv" /\ peer = "closed" /\ Return("Receive", n)
        /\ UNCHANGED <<tls, taken, pData, failed>>
    BY <1>2, <1>5 DEF PeerShutDown, data, loop
  <2>2. /\ "reset" \notin failed
        /\ (tls \/ "timeout" \notin failed => InOrder(total))
    BY <1>0, <2>1 DEF Receives
  <2> QED BY <1>4, <2>1, <2>2, Told
<1>6. CASE RecvFails
  <2>1. /\ pc = "recv" /\ Failure # {} /\ failed' = failed \cup Failure
        /\ total \in 0 .. Size - 1
        /\ UNCHANGED <<tls, peer, taken, pData, bReadFully>>
    BY <1>6 DEF RecvFails, conn, data, WithinBuffer
  <2>2. \/ peer = "reset" /\ Failure = {"reset"}
        \/ peer = "up" /\ Failure = {"timeout"}
    BY <2>1 DEF Failure
  <2>3. CASE tls
    <3>1. InOrder(n)' /\ Return("Receive", n)
      BY <1>2, <1>4, <1>6, <2>1, <2>3 DEF RecvFails, Receives
    <3> QED BY <2>1, <2>3, <3>1, Told
  <2>4. CASE ~tls
    <3> DEFINE m == n - 1
    <3>1. Loop(m) /\ m \in Int
      BY <1>2, <1>6, <2>4 DEF RecvFails
    <3>2. "reset" \in failed' => peer' = "reset"
      BY <2>1, <2>2 DEF Receives
    <3>3. m = -1 \/ (bReadFully /\ More(m))
      <4>1. CASE bReadFully /\ n > 0
        <5>1. 0 <= n - 1 /\ n - 1 < Size
          BY <1>0, <1>2, <2>1, <4>1
        <5> QED BY <4>1, <5>1 DEF More
      <4>2. CASE n = 0
        BY <4>2
      <4> QED BY <1>2, <2>1, <4>1, <4>2 DEF Receives
    <3>4. m = -1 => InOrder(m)'
      BY DEF InOrder
    <3>5. failed' # {}
      BY <2>1
    <3> HIDE DEF m
    <3> QED BY <2>1, <2>4, <3>1, <3>2, <3>3, <3>4, <3>5, WentRound
  <2> QED BY <1>0, <2>3, <2>4
<1>7. CASE NoBuffers
  <2>1. /\ pc = "recv" /\ ~tls /\ peer = "up"
        /\ UNCHANGED <<tls, peer, taken, pData, bReadFully, failed>>
    BY <1>7 DEF NoBuffers, conn, data
  <2>2. /\ "reset" \notin failed
        /\ ("timeout" \notin failed => InOrder(n)')
    BY <1>0, <1>4, <2>1 DEF Receives
  <2>3. CASE Loop(n)
    BY <2>1, <2>2, <2>3, WentRound
  <2>4. CASE Return("Receive", n)
    BY <2>1, <2>2, <2>4, Told
  <2> QED BY <1>2, <1>7, <2>3, <2>4 DEF NoBuffers
<1>8. CASE SendSome
  <2>1. CASE UNCHANGED pc
    BY <1>8, <2>1, Elsewhere DEF SendSome
  <2>2. CASE Return("Send", 1)
    BY <2>2, Elsewhere DEF Return
  <2> QED BY <1>8, <2>1, <2>2 DEF SendSome
<1>9. CASE SendFails
  BY <1>9, Elsewhere DEF SendFails, Return
<1>10. CASE Disconnect \/ SetRcvTimeout
  BY <1>10, Elsewhere DEF Disconnect, SetRcvTimeout, Close, Return
<1>11. CASE Listen \/ MakeListener \/ NoAddress \/ ListenFails \/ NoClient \/ Accept
  BY <1>11, Elsewhere DEF Listen, MakeListener, NoAddress, ListenFails, NoClient, Accept,
                          Goes, Return
<1>12. CASE Context \/ Handshake \/ Destroy \/ StartSend
  BY <1>12, Elsewhere DEF Context, Handshake, Destroy, StartSend, Goes, Return
<1>13. CASE PeerSends \/ PeerEnds \/ UNCHANGED vars
  <2>1. /\ UNCHANGED <<tls, taken, pData, loop, pc, returned>>
        /\ (peer = "reset" => peer' = "reset")
    BY <1>13 DEF PeerSends, PeerEnds, vars, data, conn
  <2> QED BY <2>1, ReceivesKept
<1> QED BY <1>1, <1>3, <1>5, <1>6, <1>7, <1>8, <1>9, <1>10, <1>11, <1>12, <1>13
        DEF Next, User

-----------------------------------------------------------------------------
(* The theorems.                                                            *)

\* The inductive invariant.
ServerInv ==
    TypeOK /\ WithinBuffer /\ Handles /\ Sessions /\ Receives /\ ReceiveTells

\* All parts together are inductive.
LEMMA Inductive == Spec => []ServerInv
<1>1. Init => ServerInv
  BY TypeInit, HandlesInit, SessionsInit, ReceivesInit DEF ServerInv
<1>2. ServerInv /\ [Next]_vars => ServerInv'
  BY TypeStep, RoomStep, HandlesStep, SessionsStep, ReceivesStep DEF ServerInv
<1> QED BY <1>1, <1>2, PTL DEF Spec

\* Every variable keeps its type: no count leaves its range, whatever the
\* buffer's size, the bytes sent and the errors met (TCPServer.cpp).
THEOREM ServerTypeCorrect == Spec => []TypeOK
<1>1. ServerInv => TypeOK
  BY DEF ServerInv
<1> QED BY <1>1, Inductive, PTL

\* recv is given room inside the user's buffer in every round of every Receive
\* (TCPServer.cpp:358, 383-385).
THEOREM RecvStaysInBuffer == Spec => []WithinBuffer
<1>1. ServerInv => WithinBuffer
  BY DEF ServerInv
<1> QED BY <1>1, Inductive, PTL

\* The object knows every listening socket it has open, and without TLS the user
\* knows every accepted one whose shutdown has not failed
\* (TCPServer.cpp:142-163, 232, 426-434).
THEOREM ServerKnowsSockets == Spec => []NothingLost
<1>1. ServerInv => NothingLost
  BY DEF ServerInv, TypeOK, Handles, NothingLost
<1> QED BY <1>1, Inductive, PTL

\* No session and no context is freed twice, and a TLS user's client has its own
\* session, not freed (SecureSocket.cpp:150-157, TCPSSLServer.cpp:104, 123, 235).
THEOREM NothingFreedTwice == Spec => []SessionsFreedOnce
<1>1. ASSUME ServerInv PROVE SessionsFreedOnce
  <2>1. TypeOK /\ Handles /\ Sessions
    BY <1>1 DEF ServerInv
  <2>2. ASSUME NEW f \in Freed PROVE frees[f] <= 1
    <3>1. PICK s \in Socket : f = <<"ssl", s>> \/ f = <<"ctx", s>>
      BY DEF Freed
    <3>2. frees[<<"ssl", s>>] <= 1 /\ frees[<<"ctx", s>>] <= 1
      BY <2>1 DEF Sessions, FreedAt
    <3> QED BY <3>1, <3>2
  <2>3. ASSUME tls /\ usable PROVE pSSL = client /\ frees[<<"ssl", pSSL>>] = 0
    <3>1. pSSL = client /\ client # 0
      BY <2>1, <2>3 DEF Handles, Sessions
    <3>2. pSSL \in Socket
      BY <2>1, <3>1, BoundsAssumption DEF TypeOK, Socket
    <3> QED BY <2>1, <3>1, <3>2 DEF Sessions, FreedAt
  <2> QED BY <2>2, <2>3 DEF SessionsFreedOnce
<1>2. ServerInv => SessionsFreedOnce
  BY <1>1
<1> QED BY <1>2, Inductive, PTL

\* What Receive returns: bytes in order, and -1 after a reset
\* (TCPServer.cpp:341-343, 383).
THEOREM ReceiveSaysWhatCame == Spec => []ReceiveTells
<1>1. ServerInv => ReceiveTells
  BY DEF ServerInv
<1> QED BY <1>1, Inductive, PTL
=============================================================================
