-------------------------- MODULE CloudSessionProofs --------------------------
(***************************************************************************)
(* Proofs about CloudSession, for every number of sockets and pictures and *)
(* whether or not shutdown may fail.                                       *)
(***************************************************************************)
EXTENDS CloudSession, SequenceTheorems, FiniteSetTheorems, TLAPS

\* Where the receiver is tells what Connect has set up.
Stage ==
    /\ rpc \in {"session", "handshake", "receive", "dispatch"} =>
          status = "CONNECTED" /\ connectSocket # 0
    /\ rpc \in {"handshake", "receive", "dispatch"} => pSSL = connectSocket
    /\ rpc \in {"receive", "dispatch"} => pSSL \in shaken
    /\ rpc = "dispatch" => received = "data"

\* Sessions are never freed, and the sender starts only when there is one.
Sessions ==
    /\ freed = {}
    /\ spc # "constructing" => pSSL # 0
    /\ spc \in {"write header", "write body"} => written # 0
    /\ spc \notin {"constructing", "idle"} => picture # 0

IInv == TypeOK /\ Stage /\ Sessions

\* Counting up one entry of a function leaves a function to the naturals.
LEMMA CountUp ==
    ASSUME NEW S, NEW f \in [S -> Nat], NEW x \in S
    PROVE  [f EXCEPT ![x] = @ + 1] \in [S -> Nat]
<1>1. f[x] + 1 \in Nat
  <2>1. f[x] \in Nat
    OBVIOUS
  <2> QED BY <2>1
<1> QED BY <1>1

LEMMA InitIInv == Init => IInv
<1> SUFFICES ASSUME Init PROVE IInv
  OBVIOUS
<1>1. /\ 0 \in 0 .. MaxConns /\ 0 \in 0 .. MaxPictures
      /\ stream \in [Conn -> Seq(Message)]
      /\ answered \in [Conn -> Nat]
  BY BoundsAssumption DEF Init
<1>2. TypeOK
  BY <1>1, Zenon DEF Init, TypeOK
<1>3. Stage /\ Sessions
  BY DEF Init, Stage, Sessions
<1> QED BY <1>2, <1>3 DEF IInv

LEMMA ReceiverStep == IInv /\ Receiver => IInv'
<1> SUFFICES ASSUME IInv, Receiver PROVE IInv'
  OBVIOUS
<1>0. 0 \in 0 .. MaxConns /\ \A c \in Conn : c \in 0 .. MaxConns /\ c # 0
  BY BoundsAssumption DEF Conn
<1> USE DEF IInv, TypeOK, Stage, Sessions, RGoes, tcp, tls, server, sending
<1>1. CASE Connect
  <2>1. CASE CloseLast
    <3>1. connectSocket' \in 0 .. MaxConns /\ open' \subseteq Conn
      BY <1>0, <2>1 DEF CloseLast
    <3> QED BY <1>1, <2>1, <3>1 DEF Connect, CloseLast
  <2>2. CASE UNCHANGED <<tcp, tls>>
    BY <1>1, <2>2 DEF Connect
  <2> QED BY <1>1, <2>1, <2>2 DEF Connect
<1>2. CASE TcpConnects
  <2>1. opened' \in Conn
    <3>1. opened \in 0 .. MaxConns
      OBVIOUS
    <3>2. opened < MaxConns /\ opened' = opened + 1
      BY <1>2 DEF TcpConnects
    <3> HIDE DEF IInv
    <3> QED BY <3>1, <3>2, BoundsAssumption DEF Conn
  <2>2. TypeOK'
    BY <1>0, <1>2, <2>1 DEF TcpConnects
  <2>3. Stage' /\ Sessions'
    BY <1>0, <1>2, <2>1 DEF TcpConnects
  <2> QED BY <2>2, <2>3
<1>3. CASE TcpRefused
  <2>1. opened' \in Conn
    <3>1. opened \in 0 .. MaxConns
      OBVIOUS
    <3>2. opened < MaxConns /\ opened' = opened + 1
      BY <1>3 DEF TcpRefused
    <3> HIDE DEF IInv
    <3> QED BY <3>1, <3>2, BoundsAssumption DEF Conn
  <2>2. TypeOK'
    BY <1>0, <1>3, <2>1 DEF TcpRefused
  <2>3. Stage' /\ Sessions'
    BY <1>0, <1>3, <2>1 DEF TcpRefused
  <2> QED BY <2>2, <2>3
<1>4. CASE TcpFails
  BY <1>0, <1>4 DEF TcpFails
<1>5. CASE NewSession
  BY <1>5 DEF NewSession
<1>6. CASE SessionFails
  BY <1>6 DEF SessionFails
<1>7. CASE HandshakeSucceeds
  <2>1. pSSL \in Conn /\ shaken' \subseteq Conn /\ pSSL' \in shaken'
    BY <1>7 DEF HandshakeSucceeds
  <2>2. spc' # "constructing" /\ (spc' = spc \/ spc' = "idle")
    BY <1>7 DEF HandshakeSucceeds
  <2>3. TypeOK'
    BY <1>7, <2>1, <2>2 DEF HandshakeSucceeds
  <2>4. Stage' /\ Sessions'
    BY <1>0, <1>7, <2>1, <2>2 DEF HandshakeSucceeds
  <2> QED BY <2>3, <2>4
<1>8. CASE HandshakeFails
  BY <1>8 DEF HandshakeFails
<1>9. CASE Receive
  <2>1. /\ Received \in {"data", "closed"}
        /\ received' = Received
        /\ rpc' = IF Received = "closed" THEN "connect" ELSE "dispatch"
        /\ UNCHANGED <<tcp, tls, alive, stream, sending>>
    BY <1>9 DEF Receive, Received
  <2>2. answered' \in [Conn -> Nat]
    <3>1. answered \in [Conn -> Nat]
      OBVIOUS
    <3>2. CASE Received = "data"
      <4>1. answered' = [answered EXCEPT ![pSSL] = @ + 1]
        BY <1>9, <3>2 DEF Receive
      <4>2. pSSL \in Conn
        BY <3>2 DEF Received
      <4> QED BY <3>1, <4>1, <4>2, CountUp
    <3>3. CASE Received # "data"
      BY <1>9, <3>1, <3>3 DEF Receive
    <3> QED BY <3>2, <3>3
  <2>3. TypeOK'
    BY <2>1, <2>2
  <2>4. Stage' /\ Sessions'
    BY <1>9, <2>1 DEF Receive
  <2> QED BY <2>3, <2>4
<1>10. CASE Dispatch
  BY <1>10 DEF Dispatch
<1> QED BY <1>1, <1>2, <1>3, <1>4, <1>5, <1>6, <1>7, <1>8, <1>9, <1>10
        DEF Receiver

\* A message appended to one connection's stream.
LEMMA WriteStep ==
    ASSUME IInv, NEW message \in Message,
           NEW from \in {"write header", "write body"},
           NEW to \in {"idle", "test body"}, Write(message, from, to)
    PROVE  IInv'
<1>1. stream' \in [Conn -> Seq(Message)]
  <2>1. stream \in [Conn -> Seq(Message)]
    BY DEF IInv, TypeOK
  <2>2. ASSUME NEW s \in Seq(Message) PROVE Append(s, message) \in Seq(Message)
    BY AppendProperties
  <2> QED BY <2>1, <2>2 DEF Write
<1>2. TypeOK'
  BY <1>1 DEF IInv, TypeOK, Write, SGoes, tcp, tls
<1>3. Stage' /\ Sessions'
  BY DEF IInv, Stage, Sessions, Write, SGoes, tcp, tls
<1> QED BY <1>2, <1>3 DEF IInv

LEMMA SenderStep == IInv /\ Sender => IInv'
<1> SUFFICES ASSUME IInv, Sender PROVE IInv'
  OBVIOUS
<1>1. CASE StartPicture
  <2>1. picture' \in 0 .. MaxPictures /\ picture' # 0
    <3>1. picture \in 0 .. MaxPictures
      BY DEF IInv, TypeOK
    <3>2. picture < MaxPictures /\ picture' = picture + 1
      BY <1>1 DEF StartPicture
    <3> QED BY <3>1, <3>2, BoundsAssumption
  <2> QED BY <1>1, <2>1 DEF StartPicture, IInv, TypeOK, Stage, Sessions, SGoes,
                            tcp, tls, server
<1>2. CASE \/ TestStatus("test header", "pass header")
           \/ TestStatus("test body", "pass body")
  BY <1>2 DEF TestStatus, IInv, TypeOK, Stage, Sessions, SGoes, tcp, tls, server
<1>3. CASE \/ PassSession("pass header", "write header")
           \/ PassSession("pass body", "write body")
  BY <1>3 DEF PassSession, IInv, TypeOK, Stage, Sessions, SGoes, tcp, tls, server
<1>4. CASE WriteFails("write header") \/ WriteFails("write body")
  BY <1>4 DEF WriteFails, IInv, TypeOK, Stage, Sessions, SGoes, tcp, tls, server
<1>5. CASE \/ Write(Header(picture), "write header", "test body")
           \/ Write(Body(picture), "write body", "idle")
  <2>1. picture \in 1 .. MaxPictures
    <3>1. spc \in {"write header", "write body"}
      BY <1>5 DEF Write, SGoes
    <3>2. picture \in 0 .. MaxPictures
      BY DEF IInv, TypeOK
    <3>3. picture # 0
      BY <3>1 DEF IInv, Sessions
    <3> QED BY <3>2, <3>3, BoundsAssumption
  <2>2. Header(picture) \in Message /\ Body(picture) \in Message
    BY <2>1 DEF Header, Body, Message
  <2> QED BY <1>5, <2>2, WriteStep
<1> QED BY <1>1, <1>2, <1>3, <1>4, <1>5 DEF Sender

LEMMA NextStep == IInv /\ [Next]_vars => IInv'
<1>1. IInv /\ UNCHANGED vars => IInv'
  BY DEF IInv, TypeOK, Stage, Sessions, vars, tcp, tls, server, sending
<1>2. IInv /\ ConnectionDies => IInv'
  BY DEF IInv, TypeOK, Stage, Sessions, ConnectionDies, tcp, tls, sending
<1> QED BY <1>1, <1>2, ReceiverStep, SenderStep DEF Next

LEMMA Inductive == Spec => []IInv
BY InitIInv, NextStep, PTL DEF Spec

-----------------------------------------------------------------------------
\* Every state of the session is well typed.
THEOREM TypeCorrect == Spec => []TypeOK
BY Inductive, PTL DEF IInv

\* cmd_process never dispatches a message a second time.
THEOREM NoStaleDispatch == Spec => []NeverStale
<1>1. IInv => NeverStale
  BY DEF IInv, Stage, NeverStale
<1> QED BY <1>1, Inductive, PTL

\* The sender always has a session that exists.
THEOREM SenderHasSession == Spec => []SessionUsable
<1>1. IInv => SessionUsable
  BY DEF IInv, Sessions, SessionUsable
<1> QED BY <1>1, Inductive, PTL

\* The receiver reads from the session of the socket the client holds.
THEOREM ReceiverOwnsSession == Spec => []ReadsOwnSession
<1>1. IInv => ReadsOwnSession
  BY DEF IInv, Stage, ReadsOwnSession
<1> QED BY <1>1, Inductive, PTL

-----------------------------------------------------------------------------
(* The connection that lives. A socket that still works is the one the      *)
(* client holds, and once its session is set up, that session is m_pSSL.    *)

Live ==
    /\ rpc = "tcp" => status = "DISCONNECTED"
    /\ alive \subseteq 1 .. opened
    /\ \A c \in open \cap alive : status = "CONNECTED" /\ c = connectSocket

Shaken ==
    /\ shaken \subseteq 1 .. opened
    /\ connectSocket \in shaken => pSSL = connectSocket

LEMMA LiveInit == Init => Live /\ Shaken
BY DEF Init, Live, Shaken

\* Opening a socket, whether or not it connects.
LEMMA SocketStep ==
    ASSUME IInv, Live, Shaken, TcpConnects \/ TcpRefused
    PROVE  Live' /\ Shaken'
<1>1. opened' = opened + 1 /\ opened \in Nat /\ opened' \notin 1 .. opened
  <2>1. opened' = opened + 1
    BY DEF TcpConnects, TcpRefused
  <2>2. opened \in 0 .. MaxConns
    BY DEF IInv, TypeOK
  <2> QED BY <2>1, <2>2, BoundsAssumption
<1>2. 1 .. opened \subseteq 1 .. opened' /\ opened' \in 1 .. opened'
  BY <1>1
<1>3. status = "DISCONNECTED" /\ open \cap alive = {}
  BY DEF TcpConnects, TcpRefused, RGoes, Live
<1>4. connectSocket' = opened' /\ UNCHANGED <<pSSL, shaken>> /\ rpc' # "tcp"
  BY DEF TcpConnects, TcpRefused, RGoes, tls
<1>5. Shaken'
  BY <1>1, <1>2, <1>4 DEF Shaken
<1>6. alive' \subseteq 1 .. opened'
  <2>1. alive' \subseteq alive \cup {opened'}
    BY DEF TcpConnects, TcpRefused, server
  <2>2. alive \subseteq 1 .. opened
    BY DEF Live
  <2> QED BY <1>2, <2>1, <2>2
<1>7. ASSUME NEW c \in open' \cap alive'
      PROVE  status' = "CONNECTED" /\ c = connectSocket'
  <2>1. CASE TcpConnects
    BY <1>3, <1>7, <2>1 DEF TcpConnects
  <2>2. CASE TcpRefused
    BY <1>1, <1>3, <1>7, <2>2 DEF TcpRefused, server, Live
  <2> QED BY <2>1, <2>2
<1> QED BY <1>4, <1>5, <1>6, <1>7 DEF Live

LEMMA LiveStep == IInv /\ Live /\ Shaken /\ [Next]_vars => Live' /\ Shaken'
<1> SUFFICES ASSUME IInv, Live, Shaken, [Next]_vars PROVE Live' /\ Shaken'
  OBVIOUS
<1> USE DEF Live, Shaken, RGoes, tcp, tls, server
<1>1. CASE Connect
  <2>1. CASE CloseLast
    BY <1>1, <2>1 DEF Connect, CloseLast, ShutdownMayFail
  <2>2. CASE status = "DISCONNECTED" /\ UNCHANGED <<tcp, tls>>
    BY <1>1, <2>2 DEF Connect
  <2> QED BY <1>1, <2>1, <2>2 DEF Connect
<1>2. CASE TcpConnects \/ TcpRefused
  BY <1>2, SocketStep
<1>3. CASE TcpFails
  BY <1>3 DEF TcpFails
<1>4. CASE NewSession
  BY <1>4 DEF NewSession
<1>5. CASE HandshakeSucceeds
  BY <1>5 DEF HandshakeSucceeds, IInv, Stage
<1>6. CASE SessionFails \/ HandshakeFails \/ Receive \/ Dispatch
  BY <1>6 DEF SessionFails, HandshakeFails, Receive, Dispatch
<1>7. CASE Sender
  BY <1>7 DEF Sender, StartPicture, TestStatus, PassSession, Write, WriteFails
<1>8. CASE ConnectionDies \/ UNCHANGED vars
  BY <1>8 DEF ConnectionDies, vars
<1> QED BY <1>1, <1>2, <1>3, <1>4, <1>5, <1>6, <1>7, <1>8 DEF Next, Receiver

LEMMA AlwaysLive == Spec => [](IInv /\ Live /\ Shaken)
<1>1. Init /\ IInv => Live /\ Shaken
  BY LiveInit
<1> QED BY <1>1, Inductive, LiveStep, PTL DEF Spec

\* However its attempts to connect fail, the client never holds two
\* connections that both still work.
THEOREM OneConnection == Spec => []OneLiveConnection
<1>1. Live => OneLiveConnection
  <2> SUFFICES ASSUME Live PROVE Cardinality(open \cap alive) <= 1
    BY DEF OneLiveConnection
  <2>1. open \cap alive = {} \/ open \cap alive = {connectSocket}
    BY DEF Live
  <2>2. Cardinality({}) = 0 /\ Cardinality({connectSocket}) = 1
    BY FS_EmptySet, FS_Singleton
  <2> QED BY <2>1, <2>2
<1> QED BY <1>1, AlwaysLive, PTL

-----------------------------------------------------------------------------
(* Framing. What the last message on a connection that still works says of  *)
(* the sender: after a header its body is on the way there, after a body the *)
(* next header is, or nothing.                                               *)

LastOf(c) == stream[c][Len(stream[c])]

AwaitsBody(c) ==
    /\ LastOf(c) = Header(picture)
    /\ spc \in {"test body", "pass body", "write body"}
    /\ spc = "write body" => written = c

AwaitsHeader(c) ==
    /\ LastOf(c)[1] = "body"
    /\ LastOf(c)[2] <= picture
    /\ spc \in {"idle", "test header", "pass header", "write header"}
    /\ spc # "idle" => LastOf(c)[2] < picture
    /\ spc = "write header" => written = c

Framing ==
    /\ \A c \in Conn : stream[c] # <<>> => c \in shaken
    /\ \A c \in open \cap alive :
          stream[c] # <<>> => AwaitsBody(c) \/ AwaitsHeader(c)

FInv == IInv /\ Live /\ Shaken /\ Framing

\* A connection that works and has had a message is the one m_pSSL belongs to.
LEMMA WorksIsOwn ==
    ASSUME FInv, NEW c \in open \cap alive, stream[c] # <<>>
    PROVE  c \in Conn /\ c \in shaken /\ c = pSSL /\ status = "CONNECTED"
BY DEF FInv, IInv, TypeOK, Live, Shaken, Framing

\* The receiver writes nothing, and a socket it opens has had no message.
LEMMA ReceiverFrames == FInv /\ (Receiver \/ ConnectionDies \/ UNCHANGED vars) => Framing'
<1> SUFFICES ASSUME FInv, Receiver \/ ConnectionDies \/ UNCHANGED vars
             PROVE  Framing'
  OBVIOUS
<1>1. UNCHANGED <<stream, picture, written>> /\ shaken \subseteq shaken'
  BY DEF Receiver, Connect, CloseLast, TcpConnects, TcpRefused, TcpFails, NewSession,
         SessionFails, HandshakeSucceeds, HandshakeFails, Receive, Dispatch,
         ConnectionDies, vars, tcp, tls, server, sending
<1>2. spc' = spc \/ spc = "constructing"
  BY DEF Receiver, Connect, TcpConnects, TcpRefused, TcpFails, NewSession,
         SessionFails, HandshakeSucceeds, HandshakeFails, Receive, Dispatch,
         ConnectionDies, vars, sending
<1>3. ASSUME NEW c \in open' \cap alive', stream[c] # <<>>, c \in Conn
      PROVE  c \in open \cap alive
  <2>1. c \in 1 .. opened
    BY <1>3 DEF FInv, Framing, Shaken
  <2>2. CASE TcpConnects \/ TcpRefused
    <3>1. opened' = opened + 1 /\ opened \in 0 .. MaxConns
      BY <2>2 DEF TcpConnects, TcpRefused, FInv, IInv, TypeOK
    <3>2. c # opened'
      BY <2>1, <3>1, BoundsAssumption
    <3> QED BY <1>3, <2>2, <3>2 DEF TcpConnects, TcpRefused, server
  <2>3. CASE ~(TcpConnects \/ TcpRefused)
    BY <1>3, <2>3 DEF Receiver, Connect, CloseLast, TcpFails, NewSession, SessionFails,
         HandshakeSucceeds, HandshakeFails, Receive, Dispatch, ConnectionDies, vars,
         tcp, tls, server
  <2> QED BY <2>2, <2>3
<1>4. ASSUME NEW c \in open' \cap alive', stream[c] # <<>>, c \in Conn
      PROVE  (AwaitsBody(c) \/ AwaitsHeader(c))'
  <2>1. AwaitsBody(c) \/ AwaitsHeader(c)
    BY <1>3, <1>4 DEF FInv, Framing
  <2>2. spc' = spc
    BY <1>2, <2>1 DEF AwaitsBody, AwaitsHeader
  <2> QED BY <1>1, <2>1, <2>2 DEF AwaitsBody, AwaitsHeader, LastOf
<1>5. open' \cap alive' \subseteq Conn
  BY NextStep DEF FInv, IInv, TypeOK, Next
<1> QED BY <1>1, <1>4, <1>5 DEF FInv, Framing

\* The parts of a message, and the numbers of pictures.
LEMMA Parts ==
    /\ \A p : Header(p)[1] = "header" /\ Header(p)[2] = p
    /\ \A p : Body(p)[1] = "body" /\ Body(p)[2] = p
BY DEF Header, Body

LEMMA PictureNumbers ==
    /\ \A p \in 0 .. MaxPictures : p # 0 => p \in 1 .. MaxPictures
    /\ \A p \in 1 .. MaxPictures : p <= p
    /\ \A p, q \in Nat :
          p <= q => p <= q + 1 /\ p < q + 1
BY BoundsAssumption

\* q may come right after p on a connection.
Follows(p, q) ==
    \/ p[1] = "header" /\ q = Body(p[2])
    \/ p[1] = "body" /\ q[1] = "header" /\ q[2] > p[2]

LEMMA FramedIsFollows ==
    FramedAfterFirst <=>
        \A c \in Conn : \A i \in 1 .. Len(stream[c]) - 1 :
            Follows(stream[c][i], stream[c][i + 1])
BY DEF FramedAfterFirst, Follows

\* The last message is one, where there is any.
LEMMA LastIsMessage ==
    ASSUME IInv, NEW c \in Conn, stream[c] # <<>>
    PROVE  /\ Len(stream[c]) \in Nat \ {0}
           /\ LastOf(c)[1] \in {"header", "body"}
           /\ LastOf(c)[2] \in 1 .. MaxPictures
<1>1. stream[c] \in Seq(Message)
  BY DEF IInv, TypeOK
<1>2. Len(stream[c]) \in Nat \ {0}
  BY <1>1, EmptySeq
<1>3. LastOf(c) \in Message
  <2>1. Len(stream[c]) \in 1 .. Len(stream[c])
    BY <1>2
  <2> QED BY <1>1, <2>1, ElementOfSeq DEF LastOf
<1> QED BY <1>2, <1>3 DEF Message

\* What is appended becomes the last message.
LEMMA Appended ==
    ASSUME IInv, NEW c \in Conn, NEW m \in Message, stream'[c] = Append(stream[c], m)
    PROVE  /\ Len(stream[c]) \in Nat /\ Len(stream'[c]) = Len(stream[c]) + 1
           /\ stream'[c][Len(stream[c]) + 1] = m /\ LastOf(c)' = m
           /\ \A i \in 1 .. Len(stream[c]) : stream'[c][i] = stream[c][i]
           /\ stream'[c] # <<>>
<1>1. stream[c] \in Seq(Message)
  BY DEF IInv, TypeOK
<1> QED BY <1>1, AppendProperties, LenProperties DEF LastOf

\* A message that goes with the one before it keeps the whole stream framed.
LEMMA PairsStep ==
    ASSUME IInv, FramedAfterFirst, written \in Conn, NEW m \in Message,
           stream' = [stream EXCEPT ![written] = Append(@, m)],
           stream[written] # <<>> => Follows(LastOf(written), m)
    PROVE  FramedAfterFirst'
<1> SUFFICES ASSUME NEW c \in Conn, NEW i \in 1 .. Len(stream'[c]) - 1
             PROVE  Follows(stream'[c][i], stream'[c][i + 1])
  BY DEF FramedAfterFirst, Follows
<1>1. stream \in [Conn -> Seq(Message)] /\ stream'[written] = Append(stream[written], m)
  BY DEF IInv, TypeOK
<1>2. CASE c # written
  <2>1. stream'[c] = stream[c]
    BY <1>1, <1>2
  <2> QED BY <2>1, FramedIsFollows
<1>3. CASE c = written
  <2> DEFINE n == Len(stream[c])
  <2>1. /\ n \in Nat /\ Len(stream'[c]) = n + 1 /\ stream'[c][n + 1] = m
        /\ \A k \in 1 .. n : stream'[c][k] = stream[c][k]
    BY <1>1, <1>3, Appended
  <2>2. CASE i = n
    <3>1. i \in 1 .. n /\ n # 0
      BY <2>1, <2>2
    <3>2. stream[c] # <<>>
      BY <1>1, <3>1, EmptySeq
    <3>3. stream'[c][i] = LastOf(c) /\ stream'[c][i + 1] = m
      BY <2>1, <2>2, <3>1 DEF LastOf
    <3> QED BY <1>3, <3>2, <3>3
  <2>3. CASE i # n
    <3>1. i \in 1 .. n - 1 /\ i + 1 \in 1 .. n /\ i \in 1 .. n
      BY <2>1, <2>3
    <3>2. stream'[c][i] = stream[c][i] /\ stream'[c][i + 1] = stream[c][i + 1]
      BY <2>1, <3>1
    <3> QED BY <3>1, <3>2, FramedIsFollows
  <2> QED BY <2>2, <2>3
<1> QED BY <1>2, <1>3

LEMMA WriteFrames ==
    ASSUME FInv, FramedAfterFirst,
           \/ Write(Header(picture), "write header", "test body")
           \/ Write(Body(picture), "write body", "idle")
    PROVE  Framing' /\ FramedAfterFirst'
<1> DEFINE m == IF spc = "write header" THEN Header(picture) ELSE Body(picture)
<1>1. /\ spc \in {"write header", "write body"}
      /\ spc' = IF spc = "write header" THEN "test body" ELSE "idle"
      /\ written \in shaken \cap open /\ written \in Conn
      /\ stream' = IF written \in alive
                      THEN [stream EXCEPT ![written] = Append(@, m)] ELSE stream
      /\ UNCHANGED <<open, shaken, alive, picture, written>>
  BY DEF Write, SGoes, tcp, tls, FInv, IInv, TypeOK
<1>2. /\ picture \in 1 .. MaxPictures /\ m \in Message
      /\ m[1] = (IF spc = "write header" THEN "header" ELSE "body") /\ m[2] = picture
  <2>1. picture \in 0 .. MaxPictures
    BY DEF FInv, IInv, TypeOK
  <2>2. picture # 0
    BY <1>1 DEF FInv, IInv, Sessions
  <2>3. picture \in 1 .. MaxPictures
    BY <2>1, <2>2, PictureNumbers
  <2>4. Header(picture) \in Message /\ Body(picture) \in Message
    BY <2>3 DEF Header, Body, Message
  <2> QED BY <2>3, <2>4, Parts
<1>3. stream \in [Conn -> Seq(Message)] /\ open \subseteq Conn
  BY DEF FInv, IInv, TypeOK
<1>4. CASE written \notin alive
  <2>1. stream' = stream
    BY <1>1, <1>4
  <2>2. ASSUME NEW c \in open \cap alive PROVE stream[c] = <<>>
    BY <1>1, <1>4 DEF FInv, Framing, AwaitsBody, AwaitsHeader
  <2>3. FramedAfterFirst'
    BY <2>1 DEF FramedAfterFirst
  <2>4. ASSUME NEW c \in (open \cap alive)' PROVE stream'[c] = <<>>
    BY <1>1, <2>1, <2>2
  <2>5. ASSUME NEW c \in Conn, stream'[c] # <<>> PROVE c \in shaken'
    BY <1>1, <2>1, <2>5 DEF FInv, Framing
  <2> QED BY <2>3, <2>4, <2>5 DEF Framing
<1>5. CASE written \in alive
  <2>1. stream' = [stream EXCEPT ![written] = Append(@, m)]
    BY <1>1, <1>5
  <2>2. stream[written] # <<>> => Follows(LastOf(written), m)
    <3> SUFFICES ASSUME stream[written] # <<>> PROVE Follows(LastOf(written), m)
      OBVIOUS
    <3>1. AwaitsBody(written) \/ AwaitsHeader(written)
      BY <1>1, <1>5 DEF FInv, Framing
    <3>2. CASE spc = "write body"
      <4>1. LastOf(written) = Header(picture)
        BY <3>1, <3>2 DEF AwaitsBody, AwaitsHeader
      <4>2. LastOf(written)[1] = "header" /\ LastOf(written)[2] = picture
        BY <4>1, Parts
      <4>3. m = Body(picture)
        BY <3>2
      <4> QED BY <4>2, <4>3 DEF Follows
    <3>3. CASE spc = "write header"
      <4>1. LastOf(written)[1] = "body" /\ LastOf(written)[2] < picture
        BY <3>1, <3>3 DEF AwaitsBody, AwaitsHeader
      <4>2. LastOf(written)[2] \in 1 .. MaxPictures
        BY <1>1, <3>1, <3>3, LastIsMessage DEF FInv
      <4>3. m[1] = "header" /\ m[2] = picture
        BY <1>2, <3>3
      <4>4. picture > LastOf(written)[2]
        BY <1>2, <4>1, <4>2, BoundsAssumption
      <4> QED BY <4>1, <4>3, <4>4 DEF Follows
    <3> QED BY <1>1, <3>2, <3>3
  <2>3. FramedAfterFirst'
    BY <1>1, <1>2, <2>1, <2>2, PairsStep DEF FInv
  <2>4. LastOf(written)' = m
    <3>1. stream'[written] = Append(stream[written], m)
      BY <1>1, <1>3, <2>1
    <3>2. IInv /\ written \in Conn /\ m \in Message /\ written' = written
      BY <1>1, <1>2 DEF FInv
    <3> HIDE DEF m
    <3> QED BY <3>1, <3>2, Appended
  <2>5. ASSUME NEW c \in open \cap alive PROVE c = written
    BY <1>1, <1>5 DEF FInv, Live
  <2>6. (AwaitsBody(written) \/ AwaitsHeader(written))'
    <3>1. CASE spc = "write header"
      BY <1>1, <2>4, <3>1 DEF AwaitsBody, Header
    <3>2. CASE spc = "write body"
      <4>1. m[1] = "body" /\ m[2] = picture /\ picture <= picture
        BY <1>2, <3>2, PictureNumbers
      <4>2. spc' = "idle" /\ picture' = picture
        BY <1>1, <3>2
      <4>3. LastOf(written)'[1] = "body" /\ LastOf(written)'[2] <= picture
        BY <2>4, <4>1
      <4> QED BY <4>2, <4>3 DEF AwaitsHeader
    <3> QED BY <1>1, <3>1, <3>2
  <2>7. ASSUME NEW c \in Conn, stream'[c] # <<>> PROVE c \in shaken'
    BY <1>1, <1>3, <2>1, <2>7 DEF FInv, Framing
  <2> QED BY <1>1, <2>3, <2>5, <2>6, <2>7 DEF Framing
<1> QED BY <1>4, <1>5

LEMMA SenderFrames == FInv /\ FramedAfterFirst /\ Sender => Framing' /\ FramedAfterFirst'
<1> SUFFICES ASSUME FInv, FramedAfterFirst, Sender PROVE Framing' /\ FramedAfterFirst'
  OBVIOUS
<1>1. CASE \/ Write(Header(picture), "write header", "test body")
           \/ Write(Body(picture), "write body", "idle")
  BY <1>1, WriteFrames
<1>2. CASE ~(\/ Write(Header(picture), "write header", "test body")
             \/ Write(Body(picture), "write body", "idle"))
  <2>1. UNCHANGED <<open, shaken, alive, stream>>
    BY <1>2 DEF Sender, StartPicture, TestStatus, PassSession, WriteFails, tcp, tls, server
  <2>2. ASSUME NEW c \in open \cap alive, stream[c] # <<>>
        PROVE  (AwaitsBody(c) \/ AwaitsHeader(c))'
    <3>1. AwaitsBody(c) \/ AwaitsHeader(c)
      BY <2>2 DEF FInv, Framing
    <3>2. c \in shaken /\ c = pSSL /\ status = "CONNECTED"
      BY <2>2, WorksIsOwn
    <3>3. LastOf(c)' = LastOf(c)
      BY <2>1 DEF LastOf
    <3>4. CASE StartPicture
      <4>1. picture' = picture + 1 /\ picture \in Nat /\ spc = "idle"
            /\ spc' = "test header"
        <5>1. picture \in 0 .. MaxPictures
          BY DEF FInv, IInv, TypeOK
        <5>2. picture \in Nat
          BY <5>1, BoundsAssumption
        <5> QED BY <3>4, <5>2 DEF StartPicture, SGoes
      <4>2. LastOf(c)[1] = "body" /\ LastOf(c)[2] <= picture
        BY <3>1, <4>1 DEF AwaitsBody, AwaitsHeader
      <4>3. LastOf(c)[2] \in Nat
        BY <2>2, WorksIsOwn, LastIsMessage DEF FInv
      <4>4. LastOf(c)[2] <= picture + 1 /\ LastOf(c)[2] < picture + 1
        BY <4>1, <4>2, <4>3, PictureNumbers
      <4>5. LastOf(c)'[1] = "body" /\ LastOf(c)'[2] <= picture' /\ LastOf(c)'[2] < picture'
        BY <3>3, <4>1, <4>2, <4>4
      <4> QED BY <4>1, <4>5 DEF AwaitsHeader
    <3>5. CASE \/ TestStatus("test header", "pass header")
               \/ TestStatus("test body", "pass body")
      BY <3>1, <3>2, <3>3, <3>5 DEF TestStatus, SGoes, AwaitsBody, AwaitsHeader
    <3>6. CASE \/ PassSession("pass header", "write header")
               \/ PassSession("pass body", "write body")
      BY <3>1, <3>2, <3>3, <3>6 DEF PassSession, SGoes, AwaitsBody, AwaitsHeader
    <3>7. CASE WriteFails("write header") \/ WriteFails("write body")
      BY <2>2, <3>1, <3>2, <3>7 DEF WriteFails, SGoes, AwaitsBody, AwaitsHeader
    <3> QED BY <1>2, <3>4, <3>5, <3>6, <3>7 DEF Sender
  <2> QED BY <2>1, <2>2 DEF FInv, Framing, FramedAfterFirst
<1> QED BY <1>1, <1>2

LEMMA AlwaysFramed == Spec => [](FInv /\ FramedAfterFirst)
<1>1. Init => Framing /\ FramedAfterFirst
  BY DEF Init, Framing, FramedAfterFirst
<1>2. FInv /\ FramedAfterFirst /\ [Next]_vars => (FInv /\ FramedAfterFirst)'
  <2> SUFFICES ASSUME FInv, FramedAfterFirst, [Next]_vars
               PROVE  (FInv /\ FramedAfterFirst)'
    OBVIOUS
  <2>1. IInv' /\ Live' /\ Shaken'
    BY NextStep, LiveStep DEF FInv
  <2>2. CASE Sender
    BY <2>1, <2>2, SenderFrames DEF FInv
  <2>3. CASE Receiver \/ ConnectionDies \/ UNCHANGED vars
    <3>1. stream' = stream
      BY <2>3 DEF Receiver, Connect, TcpConnects, TcpRefused, TcpFails, NewSession,
         SessionFails, HandshakeSucceeds, HandshakeFails, Receive, Dispatch,
         ConnectionDies, vars, server
    <3> QED BY <2>1, <2>3, <3>1, ReceiverFrames DEF FInv, FramedAfterFirst
  <2> QED BY <2>2, <2>3 DEF Next
<1>3. Init => FInv /\ FramedAfterFirst
  BY <1>1, InitIInv, LiveInit DEF FInv
<1> QED BY <1>2, <1>3, PTL DEF Spec

\* On every connection header and body of a picture follow each other, but for
\* a body that comes first.
THEOREM PicturesFramed == Spec => []FramedAfterFirst
BY AlwaysFramed, PTL
-----------------------------------------------------------------------------
(* PictureStream. The newest socket is the only one that a message can      *)
(* reach, and every message there is was sent before the next one.           *)

\* What the sender has to send next of the picture in hand.
Next2Send == CASE spc \in {"constructing", "idle"} -> "none"
               [] spc \in {"test header", "pass header", "write header"} -> "header"
               [] spc \in {"test body", "pass body", "write body"} -> "body"

\* m was sent before what the sender sends next.
Past(m) ==
    /\ m[1] \in {"header", "body"} /\ m[2] \in 0 .. picture
    /\ Next2Send = "header" => m[2] < picture
    /\ Next2Send = "body" => m[2] < picture \/ m = Header(picture)

Newest == connectSocket \in {0, opened}

AllPast == \A c \in Conn : \A i \in DOMAIN stream[c] : Past(stream[c][i])

LEMMA NewestStep == IInv /\ Newest /\ [Next]_vars => Newest'
<1> SUFFICES ASSUME Newest, [Next]_vars PROVE Newest'
  OBVIOUS
<1> USE DEF Newest, tcp
<1>1. CASE Receiver
  BY <1>1 DEF Receiver, Connect, CloseLast, TcpConnects, TcpRefused, TcpFails, NewSession,
         SessionFails, HandshakeSucceeds, HandshakeFails, Receive, Dispatch
<1>2. CASE Sender
  BY <1>2 DEF Sender, StartPicture, TestStatus, PassSession, Write, WriteFails
<1>3. CASE ConnectionDies \/ UNCHANGED vars
  BY <1>3 DEF ConnectionDies, vars
<1> QED BY <1>1, <1>2, <1>3 DEF Next

LEMMA AlwaysNewest == Spec => [](FInv /\ Newest)
<1>1. Init => Newest
  BY DEF Init, Newest
<1> QED BY <1>1, NewestStep, Inductive, AlwaysFramed, PTL DEF Spec

\* The receiver's steps are connections or nothing at all.
LEMMA ReceiverRefines ==
    ASSUME IInv, Receiver \/ ConnectionDies \/ UNCHANGED vars
    PROVE  /\ UNCHANGED <<stream, picture>> /\ Next2Send' = Next2Send
           /\ opened' \in {opened, opened + 1}
<1>1. /\ UNCHANGED <<stream, picture>>
      /\ spc' = spc \/ (spc = "constructing" /\ spc' = "idle")
      /\ opened' \in {opened, opened + 1}
  BY DEF Receiver, Connect, CloseLast, TcpConnects, TcpRefused, TcpFails, NewSession,
         SessionFails, HandshakeSucceeds, HandshakeFails, Receive, Dispatch,
         ConnectionDies, vars, tcp, tls, server, sending
<1> QED BY <1>1 DEF Next2Send

\* The sender's steps that write nothing.
LEMMA SenderRests ==
    ASSUME IInv, Sender,
           ~(\/ Write(Header(picture), "write header", "test body")
             \/ Write(Body(picture), "write body", "idle"))
    PROVE  /\ UNCHANGED <<stream, opened>>
           /\ \/ /\ Next2Send = "none" /\ Next2Send' = "header"
                 /\ picture' = picture + 1
              \/ UNCHANGED <<picture, Next2Send>>
              \/ Next2Send # "none" /\ Next2Send' = "none" /\ UNCHANGED picture
<1> USE DEF Next2Send, SGoes, tcp, server
<1>1. CASE StartPicture
  BY <1>1 DEF StartPicture
<1>2. CASE TestStatus("test header", "pass header") \/ TestStatus("test body", "pass body")
  BY <1>2 DEF TestStatus
<1>3. CASE \/ PassSession("pass header", "write header")
           \/ PassSession("pass body", "write body")
  BY <1>3 DEF PassSession
<1>4. CASE WriteFails("write header") \/ WriteFails("write body")
  BY <1>4 DEF WriteFails
<1> QED BY <1>1, <1>2, <1>3, <1>4 DEF Sender

LEMMA ConnNotZero == \A c \in Conn : c # 0
BY BoundsAssumption DEF Conn

\* A message written gets to the newest connection, where it fits, or is lost.
LEMMA WriteRefines ==
    ASSUME FInv, Newest,
           NEW m \in {Header(picture), Body(picture)},
           \/ m = Header(picture) /\ Write(m, "write header", "test body")
           \/ m = Body(picture) /\ Write(m, "write body", "idle")
    PROVE  /\ m \in Message /\ UNCHANGED <<opened, picture>>
           /\ Next2Send = m[1]
           /\ Next2Send' = IF m[1] = "header" THEN "body" ELSE "none"
           /\ \/ UNCHANGED stream
              \/ /\ opened \in Conn
                 /\ stream[opened] # <<>> =>
                       IF m[1] = "header" THEN LastOf(opened)[1] = "body"
                                          ELSE LastOf(opened) = Header(picture)
                 /\ stream' = [stream EXCEPT ![opened] = Append(@, m)]
<1>1. /\ m[1] \in {"header", "body"} /\ m[2] = picture
      /\ spc = IF m[1] = "header" THEN "write header" ELSE "write body"
      /\ spc' = IF m[1] = "header" THEN "test body" ELSE "idle"
      /\ written \in shaken \cap open /\ written \in Conn
      /\ stream' = IF written \in alive
                      THEN [stream EXCEPT ![written] = Append(@, m)] ELSE stream
      /\ UNCHANGED <<opened, picture>>
  <2>1. written \in shaken => written \in Conn
    BY DEF FInv, IInv, TypeOK
  <2>2. CASE m = Header(picture) /\ Write(m, "write header", "test body")
    <3>1. m[1] = "header" /\ m[2] = picture
      BY <2>2, Parts
    <3> QED BY <2>1, <2>2, <3>1 DEF Write, SGoes, tcp
  <2>3. CASE m = Body(picture) /\ Write(m, "write body", "idle")
    <3>1. m[1] = "body" /\ m[2] = picture
      BY <2>3, Parts
    <3> QED BY <2>1, <2>3, <3>1 DEF Write, SGoes, tcp
  <2> QED BY <2>2, <2>3
<1>2. picture \in 1 .. MaxPictures
  <2>1. picture \in 0 .. MaxPictures /\ picture # 0
    BY <1>1 DEF FInv, IInv, TypeOK, Sessions
  <2> QED BY <2>1, PictureNumbers
<1>3. m \in Message
  <2>1. Header(picture) \in Message /\ Body(picture) \in Message
    BY <1>2 DEF Header, Body, Message
  <2> QED BY <2>1
<1>4. Next2Send = m[1] /\ Next2Send' = IF m[1] = "header" THEN "body" ELSE "none"
  BY <1>1 DEF Next2Send
<1>5. CASE written \notin alive
  BY <1>1, <1>3, <1>4, <1>5
<1>6. CASE written \in alive
  <2>1. written = opened
    <3>1. written = connectSocket
      BY <1>1, <1>6 DEF FInv, Live
    <3>2. written # 0
      BY <1>1, ConnNotZero
    <3> QED BY <3>1, <3>2 DEF Newest
  <2>2. stream[written] # <<>> => AwaitsBody(written) \/ AwaitsHeader(written)
    BY <1>1, <1>6 DEF FInv, Framing
  <2>3. stream[opened] # <<>> =>
           IF m[1] = "header" THEN LastOf(opened)[1] = "body"
                              ELSE LastOf(opened) = Header(picture)
    BY <1>1, <2>1, <2>2 DEF AwaitsBody, AwaitsHeader
  <2>4. stream' = [stream EXCEPT ![opened] = Append(@, m)] /\ opened \in Conn
    BY <1>1, <1>6, <2>1
  <2> QED BY <1>1, <1>3, <1>4, <2>3, <2>4
<1> QED BY <1>5, <1>6

\* The two threads and their connection implement PictureStream: each step is one of
\* that module's or changes nothing there.
THEOREM SessionStreamsPictures == Spec => StreamsPictures
<1>1. Init => Pictures!Init
  BY DEF Init, Pictures!Init
<1>2. FInv /\ Newest /\ [Next]_vars => [Pictures!Next]_Pictures!vars
  <2> SUFFICES ASSUME FInv, Newest, [Next]_vars PROVE [Pictures!Next]_Pictures!vars
    OBVIOUS
  <2>0. IInv
    BY DEF FInv
  <2>1. CASE Receiver \/ ConnectionDies \/ UNCHANGED vars
    <3>1. /\ UNCHANGED <<stream, picture>> /\ Next2Send' = Next2Send
          /\ opened' \in {opened, opened + 1}
      BY <2>0, <2>1, ReceiverRefines
    <3> QED BY <3>1 DEF Pictures!Next, Pictures!Connect, Pictures!vars, Next2Send
  <2>2. CASE /\ Sender
             /\ ~(\/ Write(Header(picture), "write header", "test body")
                  \/ Write(Body(picture), "write body", "idle"))
    <3>1. /\ UNCHANGED <<stream, opened>>
          /\ \/ /\ Next2Send = "none" /\ Next2Send' = "header"
                /\ picture' = picture + 1
             \/ UNCHANGED <<picture, Next2Send>>
             \/ Next2Send # "none" /\ Next2Send' = "none" /\ UNCHANGED picture
      BY <2>0, <2>2, SenderRests
    <3> QED BY <3>1 DEF Pictures!Next, Pictures!Begin, Pictures!GiveUp, Pictures!vars,
                        Next2Send
  <2>3. CASE Write(Header(picture), "write header", "test body")
    <3> DEFINE m == Header(picture)
    <3>1. /\ UNCHANGED <<opened, picture>>
          /\ Next2Send = m[1]
          /\ Next2Send' = IF m[1] = "header" THEN "body" ELSE "none"
          /\ \/ UNCHANGED stream
             \/ /\ opened \in Conn
                /\ stream[opened] # <<>> =>
                      IF m[1] = "header" THEN LastOf(opened)[1] = "body"
                                         ELSE LastOf(opened) = Header(picture)
                /\ stream' = [stream EXCEPT ![opened] = Append(@, m)]
      BY <2>3, WriteRefines
    <3>2. m[1] = "header" /\ m[2] = picture /\ m = <<"header", picture>>
      BY DEF Header
    <3>3. /\ Next2Send = "header" /\ Next2Send' = "body"
          /\ \/ UNCHANGED stream
             \/ /\ opened \in Conn
                /\ stream[opened] # <<>> => LastOf(opened)[1] = "body"
                /\ stream' = [stream EXCEPT ![opened] = Append(@, <<"header", picture>>)]
      BY <3>1, <3>2
    <3>4. Pictures!WriteHeader
      BY <3>1, <3>3 DEF Pictures!WriteHeader, Pictures!Write, Pictures!Fits, Pictures!LastOf,
                        LastOf, Next2Send
    <3> QED BY <3>4 DEF Pictures!Next
  <2>4. CASE Write(Body(picture), "write body", "idle")
    <3> DEFINE m == Body(picture)
    <3>1. /\ UNCHANGED <<opened, picture>>
          /\ Next2Send = m[1]
          /\ Next2Send' = IF m[1] = "header" THEN "body" ELSE "none"
          /\ \/ UNCHANGED stream
             \/ /\ opened \in Conn
                /\ stream[opened] # <<>> =>
                      IF m[1] = "header" THEN LastOf(opened)[1] = "body"
                                         ELSE LastOf(opened) = Header(picture)
                /\ stream' = [stream EXCEPT ![opened] = Append(@, m)]
      BY <2>4, WriteRefines
    <3>2. m[1] = "body" /\ m = <<"body", picture>> /\ Header(picture) = <<"header", picture>>
      BY DEF Body, Header
    <3>3. /\ Next2Send = "body" /\ Next2Send' = "none"
          /\ \/ UNCHANGED stream
             \/ /\ opened \in Conn
                /\ stream[opened] # <<>> => LastOf(opened) = <<"header", picture>>
                /\ stream' = [stream EXCEPT ![opened] = Append(@, <<"body", picture>>)]
      BY <3>1, <3>2
    <3>4. Pictures!WriteBody
      BY <3>1, <3>3 DEF Pictures!WriteBody, Pictures!Write, Pictures!Fits, Pictures!LastOf,
                        LastOf, Next2Send
    <3> QED BY <3>4 DEF Pictures!Next
  <2> QED BY <2>1, <2>2, <2>3, <2>4 DEF Next
<1>3. Spec => [](FInv /\ Newest)
  BY AlwaysNewest
<1> QED BY <1>1, <1>2, <1>3, PTL DEF Spec, StreamsPictures, Pictures!Spec

-----------------------------------------------------------------------------
(* Once and in order. Every message the server has is older than what the   *)
(* sender sends next, and no connection is newer than the newest.            *)

LEMMA PictureIsNumber ==
    ASSUME IInv PROVE picture \in Nat
<1>1. picture \in 0 .. MaxPictures
  BY DEF IInv, TypeOK
<1> QED BY <1>1, BoundsAssumption

LEMMA UpToItself ==
    /\ \A n \in Nat : n \in 0 .. n
    /\ \A n, m : m \in 1 .. n => m <= n
    /\ \A n \in Nat : \A m \in 1 .. n + 1 : m \in 1 .. n \/ m = n + 1
OBVIOUS

\* What is past stays past when the sender goes on to a new picture, goes on to the
\* body, is done or gives up.
LEMMA StaysPast ==
    ASSUME IInv, [Next]_vars
    PROVE  \A m : Past(m) => Past(m)'
<1>1. picture \in Nat
  BY PictureIsNumber
<1>2. \/ picture' = picture /\ Next2Send' = Next2Send
      \/ Next2Send = "none" /\ Next2Send' = "header" /\ picture' = picture + 1
      \/ Next2Send' = "none" /\ picture' = picture
      \/ Next2Send = "header" /\ Next2Send' = "body" /\ picture' = picture
  <2>1. CASE Receiver \/ ConnectionDies \/ UNCHANGED vars
    BY <2>1, ReceiverRefines
  <2>2. CASE /\ Sender
             /\ ~(\/ Write(Header(picture), "write header", "test body")
                  \/ Write(Body(picture), "write body", "idle"))
    BY <2>2, SenderRests
  <2>3. CASE \/ Write(Header(picture), "write header", "test body")
             \/ Write(Body(picture), "write body", "idle")
    BY <2>3 DEF Write, SGoes, Next2Send
  <2> QED BY <2>1, <2>2, <2>3 DEF Next
<1>3. ASSUME NEW m, Past(m) PROVE Past(m)'
  <2>1. m[2] \in Nat /\ m[2] <= picture
    BY <1>1, <1>3 DEF Past
  <2>2. CASE picture' = picture /\ Next2Send' = Next2Send
    BY <1>3, <2>2 DEF Past, Header
  <2>3. CASE Next2Send = "none" /\ Next2Send' = "header" /\ picture' = picture + 1
    BY <1>1, <1>3, <2>1, <2>3 DEF Past
  <2>4. CASE Next2Send' = "none" /\ picture' = picture
    BY <1>3, <2>4 DEF Past
  <2>5. CASE Next2Send = "header" /\ Next2Send' = "body" /\ picture' = picture
    BY <1>3, <2>5 DEF Past
  <2> QED BY <1>2, <2>2, <2>3, <2>4, <2>5
<1> QED BY <1>3

Before(m, n) == m[2] < n[2] \/ (m[2] = n[2] /\ m[1] = "header" /\ n[1] = "body")

LEMMA SentOnceIs ==
    SentOnce <=>
        \A c, d \in Conn : \A i \in DOMAIN stream[c], j \in DOMAIN stream[d] :
            c < d \/ (c = d /\ i < j) => Before(stream[c][i], stream[d][j])
BY DEF SentOnce, Pictures!OnceInOrder, Pictures!Before, Before

LEMMA OnceRests == ASSUME SentOnce, UNCHANGED stream PROVE SentOnce'
BY DEF SentOnce, Pictures!OnceInOrder, Pictures!Before

\* A message that everything sent is older than, on the newest connection.
LEMMA AppendOnce ==
    ASSUME IInv, SentOnce, opened \in Conn, NEW n \in Message,
           stream' = [stream EXCEPT ![opened] = Append(@, n)],
           \A c \in Conn : \A i \in DOMAIN stream[c] : Before(stream[c][i], n),
           \A c \in Conn : stream[c] # <<>> => c <= opened
    PROVE  SentOnce'
<1> SUFFICES ASSUME NEW c \in Conn, NEW d \in Conn,
                    NEW i \in DOMAIN stream'[c], NEW j \in DOMAIN stream'[d],
                    c < d \/ (c = d /\ i < j)
             PROVE  Before(stream'[c][i], stream'[d][j])
  BY DEF SentOnce, Pictures!OnceInOrder, Pictures!Before, Before
<1> DEFINE k == Len(stream[opened])
<1>0. c \in Int /\ d \in Int /\ opened \in Int
  BY DEF Conn
<1>1. /\ stream \in [Conn -> Seq(Message)]
      /\ stream'[opened] = Append(stream[opened], n)
      /\ \A e \in Conn : e # opened => stream'[e] = stream[e]
      /\ \A e \in Conn : stream[e] \in Seq(Message)
  BY DEF IInv, TypeOK
<1>2. /\ k \in Nat /\ DOMAIN stream[opened] = 1 .. k /\ DOMAIN stream'[opened] = 1 .. k + 1
      /\ stream'[opened][k + 1] = n
      /\ \A e \in 1 .. k : stream'[opened][e] = stream[opened][e]
  BY <1>1, AppendProperties, LenProperties
<1> HIDE DEF k
<1>3. ASSUME NEW e \in Conn, NEW l \in DOMAIN stream'[e]
      PROVE  \/ e = opened /\ l = k + 1 /\ stream'[e][l] = n
             \/ /\ l \in DOMAIN stream[e] /\ stream'[e][l] = stream[e][l]
                /\ e <= opened /\ (e = opened => l <= k)
  <2>1. CASE e = opened
    <3>1. l \in 1 .. k + 1
      BY <1>2, <1>3, <2>1
    <3>2. CASE l = k + 1
      BY <1>2, <2>1, <3>2
    <3>3. CASE l # k + 1
      <4>1. l \in 1 .. k
        BY <1>2, <3>1, <3>3
      <4> QED BY <1>0, <1>2, <2>1, <4>1
    <3> QED BY <3>2, <3>3
  <2>2. CASE e # opened
    <3>1. stream'[e] = stream[e] /\ l \in DOMAIN stream[e]
      BY <1>1, <1>3, <2>2
    <3>2. stream[e] # <<>>
      BY <3>1
    <3> QED BY <2>2, <3>1, <3>2
  <2> QED BY <2>1, <2>2
<1>4. CASE d = opened /\ j = k + 1 /\ stream'[d][j] = n
  <2>1. i \in DOMAIN stream[c] /\ stream'[c][i] = stream[c][i]
    <3>1. ~(c = opened /\ i = k + 1)
      BY <1>0, <1>2, <1>4
    <3> QED BY <1>3, <3>1
  <2> QED BY <1>4, <2>1
<1>5. CASE /\ j \in DOMAIN stream[d] /\ stream'[d][j] = stream[d][j]
           /\ d <= opened /\ (d = opened => j <= k)
  <2>0. DOMAIN stream[d] = 1 .. Len(stream[d]) /\ Len(stream[d]) \in Nat /\ j \in Int
    BY <1>1, <1>5, LenProperties
  <2>1. ~(c = opened /\ i = k + 1)
    BY <1>0, <1>2, <1>5, <2>0
  <2>2. i \in DOMAIN stream[c] /\ stream'[c][i] = stream[c][i]
    BY <1>3, <2>1
  <2> QED BY <1>5, <2>2, SentOnceIs
<1> QED BY <1>3, <1>4, <1>5

LEMMA WriteOnce ==
    ASSUME FInv, Newest, AllPast, SentOnce,
           NEW m \in {Header(picture), Body(picture)},
           \/ m = Header(picture) /\ Write(m, "write header", "test body")
           \/ m = Body(picture) /\ Write(m, "write body", "idle")
    PROVE  AllPast' /\ SentOnce'
<1>0. IInv /\ [Next]_vars
  BY DEF FInv, Next, Sender
<1>1. /\ m \in Message /\ UNCHANGED <<opened, picture>> /\ Next2Send = m[1]
      /\ Next2Send' = IF m[1] = "header" THEN "body" ELSE "none"
      /\ \/ UNCHANGED stream
         \/ opened \in Conn /\ stream' = [stream EXCEPT ![opened] = Append(@, m)]
  BY WriteRefines
<1>2. m[1] \in {"header", "body"} /\ m[2] = picture
  BY Parts
<1>3. picture \in Nat /\ picture \in 0 .. picture
  <2>1. picture \in Nat
    BY PictureIsNumber DEF FInv
  <2> QED BY <2>1, UpToItself
<1>4. \A x : Past(x) => Past(x)'
  BY <1>0, StaysPast
<1>5. Past(m)'
  <2>1. picture' \in 0 .. picture' /\ picture' = picture
    <3>1. picture' = picture
      BY <1>1
    <3> QED BY <1>3, <3>1
  <2>2. m[1] = "header" => m = Header(picture)'
    BY <1>1, Parts DEF Header
  <2> QED BY <1>1, <1>2, <2>1, <2>2 DEF Past
<1>6. CASE UNCHANGED stream
  <2>1. AllPast'
    BY <1>4, <1>6 DEF AllPast
  <2>2. SentOnce'
    BY <1>6, OnceRests
  <2> QED BY <2>1, <2>2
<1>7. CASE opened \in Conn /\ stream' = [stream EXCEPT ![opened] = Append(@, m)]
  <2>1. /\ stream'[opened] = Append(stream[opened], m)
        /\ stream \in [Conn -> Seq(Message)]
        /\ \A c \in Conn : c # opened => stream'[c] = stream[c]
    BY <1>7 DEF FInv, IInv, TypeOK
  <2>2. AllPast'
    <3>1. ASSUME NEW c \in Conn, NEW i \in DOMAIN stream'[c]
          PROVE  \/ stream'[c][i] = m
                 \/ i \in DOMAIN stream[c] /\ stream'[c][i] = stream[c][i]
      <4>1. CASE c = opened
        <5>1. stream'[c] = Append(stream[c], m) /\ stream[c] \in Seq(Message)
          BY <2>1, <4>1
        <5>2. /\ Len(stream[c]) \in Nat /\ Len(stream'[c]) = Len(stream[c]) + 1
              /\ stream'[c][Len(stream[c]) + 1] = m
              /\ \A e \in 1 .. Len(stream[c]) : stream'[c][e] = stream[c][e]
          BY <1>0, <1>1, <5>1, Appended
        <5>3. /\ DOMAIN stream[c] = 1 .. Len(stream[c])
              /\ DOMAIN stream'[c] = 1 .. Len(stream'[c])
          BY <1>1, <5>1, AppendProperties, LenProperties
        <5>4. i \in 1 .. Len(stream[c]) + 1
          BY <5>2, <5>3, Zenon
        <5>5. i \in 1 .. Len(stream[c]) \/ i = Len(stream[c]) + 1
          BY <5>2, <5>4, UpToItself
        <5> QED BY <5>2, <5>3, <5>5
      <4>2. CASE c # opened
        BY <2>1, <3>1, <4>2
      <4> QED BY <4>1, <4>2
    <3>2. ASSUME NEW c \in Conn, NEW i \in DOMAIN stream'[c], NEW x, x = stream'[c][i]
          PROVE  Past(x)'
      <4>1. i \in DOMAIN stream[c] => Past(stream[c][i])
        BY DEF AllPast
      <4>2. CASE x = m
        BY <1>5, <4>2
      <4>3. CASE i \in DOMAIN stream[c] /\ x = stream[c][i]
        <5>1. Past(x)
          BY <4>1, <4>3
        <5> QED BY <1>4, <5>1
      <4> QED BY <3>1, <3>2, <4>2, <4>3
    <3> QED BY <3>2 DEF AllPast, Past, Header, Next2Send
  <2>3. ASSUME NEW c \in Conn, NEW i \in DOMAIN stream[c] PROVE Before(stream[c][i], m)
    <3>1. Past(stream[c][i])
      BY DEF AllPast
    <3>2. CASE m[1] = "header"
      BY <1>1, <1>2, <3>1, <3>2 DEF Past, Before
    <3>3. CASE m[1] = "body"
      <4>1. stream[c][i][2] < picture \/ stream[c][i] = Header(picture)
        BY <1>1, <3>1, <3>3 DEF Past
      <4> QED BY <1>2, <3>3, <4>1, Parts DEF Before
    <3> QED BY <1>2, <3>2, <3>3
  <2>4. ASSUME NEW c \in Conn, stream[c] # <<>> PROVE c <= opened
    <3>1. c \in 1 .. opened
      BY <2>4 DEF FInv, Framing, Shaken
    <3> QED BY <3>1, UpToItself
  <2>5. SentOnce'
    BY <1>0, <1>1, <1>7, <2>3, <2>4, AppendOnce
  <2> QED BY <2>2, <2>5
<1> QED BY <1>1, <1>6, <1>7

\* The server never gets a message twice or after a newer one, whichever
\* connections they come over.
THEOREM NothingSentTwice == Spec => []SentOnce
<1>1. Init => AllPast /\ SentOnce
  BY DEF Init, AllPast, SentOnce, Pictures!OnceInOrder
<1>2. FInv /\ Newest /\ AllPast /\ SentOnce /\ [Next]_vars => AllPast' /\ SentOnce'
  <2> SUFFICES ASSUME FInv, Newest, AllPast, SentOnce, [Next]_vars
               PROVE  AllPast' /\ SentOnce'
    OBVIOUS
  <2>1. CASE Write(Header(picture), "write header", "test body")
    BY <2>1, WriteOnce
  <2>2. CASE Write(Body(picture), "write body", "idle")
    BY <2>2, WriteOnce
  <2>3. CASE ~(\/ Write(Header(picture), "write header", "test body")
               \/ Write(Body(picture), "write body", "idle"))
    <3>1. UNCHANGED stream
      BY <2>3, ReceiverRefines, SenderRests DEF FInv, Next
    <3>2. \A m : Past(m) => Past(m)'
      BY StaysPast DEF FInv
    <3>3. AllPast'
      BY <3>1, <3>2 DEF AllPast
    <3>4. SentOnce'
      BY <3>1, OnceRests
    <3> QED BY <3>3, <3>4
  <2> QED BY <2>1, <2>2, <2>3
<1> QED BY <1>1, <1>2, AlwaysNewest, PTL DEF Spec
=============================================================================
