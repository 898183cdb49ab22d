---------------------------- MODULE FrameAssembly ----------------------------
(***************************************************************************)
(* The packet loop of ContentRendering::ReceiveData_RaspPi.                *)
(*                                                                         *)
(* The camera cuts every frame into N datagrams numbered 0 .. N-1; the     *)
(* listen thread appends the ones whose number is the one it waits for and *)
(* hands the buffer to copyToBuffer when N of them in a row have matched.  *)
(* One call of the function is the sequence of loop iterations between two *)
(* assignments rst_udp_pkg_num' = N; the thread's loop starts the next     *)
(* call at once, so no program counter is needed: the next thing the       *)
(* thread does is decided by rst_udp_pkg_num.                              *)
(***************************************************************************)
EXTENDS Integers, Sequences

CONSTANTS
    N,          \* _udp_pkg_num, the datagrams of one frame (IMG_HGT / UDP_LINES)
    Frames,     \* bound: the frames the camera sends
    NetCap,     \* bound: the datagrams in flight or in the socket's buffer
    MaxFaults   \* bound: the disturbances that may happen

ASSUME NAssumption == N \in Nat \ {0}
ASSUME BoundsAssumption ==
    /\ Frames \in Nat
    /\ NetCap \in Nat \ {0}
    /\ MaxFaults \in Nat

\* A datagram: the picture lines it carries (by frame) and its number, the
\* integer at offset 4. The four bytes before it are never looked at.
Packet == [frame : Nat, idx : 0 .. N - 1]

\* What insert appends for a datagram: all the bytes of its lines, or fewer.
Inserted(p, all) == [frame |-> p.frame, idx |-> p.idx, full |-> all]
Entry == [frame : Nat, idx : 0 .. N - 1, full : BOOLEAN]

VARIABLES
    bound,           \* BindMCU's outcome: is ListenSocket a live socket?
    cam,             \* the datagram the camera sends next
    net,             \* the datagrams in flight, oldest first
    udp_pkg_idx,     \* _udp_pkg_idx, a member: survives the call
    rst_udp_pkg_num, \* rst_udp_pkg_num before the while test, a local
    temp_line_buf,   \* temp_line_buf, a local, one entry per datagram
    completed,       \* number of buffers handed to copyToBuffer
    whole,           \* how many of them show exactly one frame, in order
    faults           \* number of disturbances so far

socket   == <<bound, cam, net>>
counters == <<completed, whole, faults>>
vars     == <<socket, udp_pkg_idx, rst_udp_pkg_num, temp_line_buf, counters>>

\* CComm::Listen: making or binding the socket may fail; BindMCU goes on.
BindMCU == bound \in BOOLEAN

Init ==
    /\ BindMCU
    /\ cam \in [frame : {0}, idx : 0 .. N - 1]  \* the camera may be mid-frame
    /\ net = <<>>
    /\ udp_pkg_idx = 0
    /\ rst_udp_pkg_num = N
    /\ temp_line_buf = <<>>
    /\ completed = 0
    /\ whole = 0
    /\ faults = 0

-----------------------------------------------------------------------------
(* The camera and the network between it and the socket.                    *)

Disturb == faults < MaxFaults /\ faults' = faults + 1

CameraAdvances ==
    /\ cam.frame < Frames
    /\ cam' = IF cam.idx = N - 1 THEN [frame |-> cam.frame + 1, idx |-> 0]
                                 ELSE [cam EXCEPT !.idx = @ + 1]

CameraSends ==
    /\ Len(net) < NetCap
    /\ CameraAdvances
    /\ net' = Append(net, cam)
    /\ UNCHANGED <<bound, udp_pkg_idx, rst_udp_pkg_num, temp_line_buf, counters>>

CameraPacketLost ==
    /\ CameraAdvances
    /\ Disturb
    /\ UNCHANGED <<bound, net, udp_pkg_idx, rst_udp_pkg_num, temp_line_buf,
                   completed, whole>>

NetDuplicates ==
    /\ Len(net) \in 1 .. NetCap - 1
    /\ net' = Append(net, net[Len(net)])
    /\ Disturb
    /\ UNCHANGED <<bound, cam, udp_pkg_idx, rst_udp_pkg_num, temp_line_buf,
                   completed, whole>>

NetReorders ==
    /\ \E i \in 1 .. Len(net) - 1 :
          net' = [net EXCEPT ![i] = net[i + 1], ![i + 1] = net[i]]
    /\ Disturb
    /\ UNCHANGED <<bound, cam, udp_pkg_idx, rst_udp_pkg_num, temp_line_buf,
                   completed, whole>>

-----------------------------------------------------------------------------
(* The listen thread. A return from the function destroys temp_line_buf and *)
(* the next call starts with a full count.                                  *)

Looping == rst_udp_pkg_num > 0

Return ==
    /\ rst_udp_pkg_num' = N
    /\ temp_line_buf' = <<>>

\* select() says a datagram is there and recvfrom takes it.
Receiving ==
    /\ bound
    /\ Looping
    /\ net # <<>>
    /\ net' = Tail(net)
    /\ UNCHANGED <<bound, cam, completed, whole>>

Insert(all) ==
    /\ temp_line_buf' = Append(temp_line_buf, Inserted(Head(net), all))
    /\ udp_pkg_idx' = udp_pkg_idx + 1
    /\ rst_udp_pkg_num' = rst_udp_pkg_num - 1

\* Mutant: the number is not compared.
PacketMatches_AnyIndex ==
    /\ Receiving
    /\ Insert(TRUE)
    /\ UNCHANGED faults

PacketMatches ==
    /\ Receiving
    /\ Head(net).idx = udp_pkg_idx
    /\ Insert(TRUE)
    /\ UNCHANGED faults

\* Nobody compares result with the size of buf: a datagram that was sent with
\* fewer lines, or none after its number, counts like any other.
ShortPacketMatches ==
    /\ Receiving
    /\ Head(net).idx = udp_pkg_idx
    /\ Insert(FALSE)
    /\ Disturb

\* Mutant: goes on waiting for the same number.
PacketMismatches_KeepsIndex ==
    /\ Receiving
    /\ Head(net).idx # udp_pkg_idx
    /\ rst_udp_pkg_num' = N
    /\ UNCHANGED <<udp_pkg_idx, temp_line_buf, faults>>

\* The break leaves the switch, not the loop: the call goes on with a full
\* count, and keeps what it has appended. The datagram itself is dropped,
\* even when its number is 0.
PacketMismatches ==
    /\ Receiving
    /\ Head(net).idx # udp_pkg_idx
    /\ udp_pkg_idx' = 0
    /\ rst_udp_pkg_num' = N
    /\ UNCHANGED <<temp_line_buf, faults>>

\* recvfrom returns 0 or less; _udp_pkg_idx keeps its value. Winsock reports
\* an unreachable peer of an earlier sendto on the same socket this way.
RecvFails ==
    /\ bound
    /\ Looping
    /\ Disturb
    /\ Return
    /\ UNCHANGED <<socket, udp_pkg_idx, completed, whole>>

\* 1.05 s without a datagram. In the middle of a frame this is a disturbance,
\* unless the camera has sent all it will.
SelectTimesOut ==
    /\ bound
    /\ Looping
    /\ net = <<>>
    /\ IF \/ temp_line_buf = <<>> /\ udp_pkg_idx = 0
          \/ cam.frame = Frames
          THEN UNCHANGED faults
          ELSE Disturb
    /\ udp_pkg_idx' = 0
    /\ Return
    /\ UNCHANGED <<socket, completed, whole>>

\* The constructor ignores a failed bind: ListenSocket keeps the closed
\* handle and select() fails at once, for ever.
SelectFails ==
    /\ ~bound
    /\ Looping
    /\ udp_pkg_idx' = 0
    /\ Return
    /\ UNCHANGED <<socket, counters>>

\* copyToBuffer reads the first N datagrams' worth of the buffer, and on past
\* its end where short datagrams have left it with fewer bytes.
ShownImage == SubSeq(temp_line_buf, 1, N)

OneFrame(img) ==
    \E f \in 0 .. Frames :
        img = [i \in 1 .. N |-> [frame |-> f, idx |-> i - 1, full |-> TRUE]]

\* The loop ends with rst_udp_pkg_num = -1: the frame is handed on (the
\* handshake with the other threads is FramePipeline's).
FrameCompletes ==
    /\ rst_udp_pkg_num = 0
    /\ completed' = completed + 1
    /\ whole' = IF OneFrame(ShownImage) THEN whole + 1 ELSE whole
    /\ udp_pkg_idx' = 0
    /\ Return
    /\ UNCHANGED <<socket, faults>>

-----------------------------------------------------------------------------
Camera  == CameraSends \/ CameraPacketLost
Network == NetDuplicates \/ NetReorders
Listen  == \/ PacketMatches \/ ShortPacketMatches \/ PacketMismatches
           \/ RecvFails \/ SelectTimesOut \/ SelectFails \/ FrameCompletes

Next == Camera \/ Network \/ Listen

Spec == Init /\ [][Next]_vars

-----------------------------------------------------------------------------
(* Types: numbers in range, only well-formed datagrams in the buffers.      *)
TypeOK ==
    /\ bound \in BOOLEAN
    /\ cam \in Packet
    /\ net \in Seq(Packet)
    /\ udp_pkg_idx \in 0 .. N
    /\ rst_udp_pkg_num \in 0 .. N
    /\ temp_line_buf \in Seq(Entry)
    /\ completed \in Nat
    /\ whole \in Nat
    /\ faults \in Nat

\* What copyToBuffer is given ends with the datagrams 0 .. N-1 in order: whatever
\* was lost, repeated or reordered before, a frame never ends in the middle, even
\* though _udp_pkg_idx survives a failed recvfrom (line 275) and the count restarts
\* on a mismatch (line 264). So there are N datagrams at least: the vector is as long
\* as the picture read from it (line 313) unless one of them was short (line 256).
TailIsAFrame ==
    rst_udp_pkg_num = 0 =>
        /\ Len(temp_line_buf) >= N
        /\ \A j \in 1 .. N :
              temp_line_buf[Len(temp_line_buf) - N + j].idx = j - 1

Drained == bound /\ cam.frame = Frames /\ net = <<>> /\ rst_udp_pkg_num > 0

\* Resynchronisation: a disturbance costs two frames at most (a lost last
\* datagram makes the loop drop datagram 0 of the next frame as well) and three
\* good pictures (a mismatch leaves the stale prefix in temp_line_buf, line 262,
\* which shifts the next one), and joining in mid-frame costs that frame only. A
\* short datagram spoils one picture: what it left out does not outlive the call.
ImageBudget ==
    Drained => /\ completed + 2 * faults + 1 >= Frames
               /\ whole + 3 * faults + 1 >= Frames
=============================================================================
