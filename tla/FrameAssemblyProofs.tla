------------------------- MODULE FrameAssemblyProofs -------------------------
(***************************************************************************)
(* Proofs about FrameAssembly, for every number N of datagrams per frame,  *)
(* every camera, and every kind and number of disturbances.                *)
(***************************************************************************)
EXTENDS FrameAssembly, SequenceTheorems, TLAPS

-----------------------------------------------------------------------------
(* Types.                                                                   *)

\* Swapping two neighbours of a channel leaves a channel.
LEMMA SwapType ==
    ASSUME NEW s \in Seq(Packet), NEW i \in 1 .. Len(s) - 1
    PROVE  [s EXCEPT ![i] = s[i + 1], ![i + 1] = s[i]] \in Seq(Packet)
OBVIOUS

\* What is appended for a datagram, and that something is.
LEMMA InsertedType ==
    ASSUME NEW p \in Packet, NEW all \in BOOLEAN
    PROVE  Inserted(p, all) \in Entry
BY DEF Inserted, Packet, Entry

LEMMA AppendedNotEmpty ==
    ASSUME NEW S, NEW s \in Seq(S), NEW e \in S
    PROVE  Append(s, e) # <<>>
<1>1. Append(s, e)[Len(s) + 1] = e /\ Len(Append(s, e)) = Len(s) + 1
  OBVIOUS
<1> QED BY <1>1

\* The next datagram of the camera is a datagram.
LEMMA CameraType ==
    ASSUME cam \in Packet, CameraAdvances
    PROVE  cam' \in Packet
BY NAssumption DEF CameraAdvances, Packet

\* A datagram with the number awaited, all of it or not.
LEMMA MatchType ==
    ASSUME TypeOK, NEW all \in BOOLEAN,
           Receiving, Head(net).idx = udp_pkg_idx, Insert(all)
    PROVE  /\ Head(net) \in Packet /\ net' \in Seq(Packet)
           /\ udp_pkg_idx' \in 0 .. N
           /\ rst_udp_pkg_num' \in 0 .. N
           /\ temp_line_buf' \in Seq(Entry)
<1> USE NAssumption
<1>1. net' \in Seq(Packet) /\ Head(net) \in Packet
  BY DEF Receiving, TypeOK
<1>2. udp_pkg_idx' \in 0 .. N
  BY <1>1 DEF Insert, TypeOK, Packet
<1>3. rst_udp_pkg_num' \in 0 .. N
  BY DEF Insert, Receiving, Looping, TypeOK
<1>4. temp_line_buf' \in Seq(Entry)
  <2>1. Inserted(Head(net), all) \in Entry
    BY <1>1, InsertedType
  <2> QED BY <2>1 DEF Insert, TypeOK
<1> QED BY <1>1, <1>2, <1>3, <1>4

LEMMA TypeInit == Init => TypeOK
BY NAssumption DEF Init, BindMCU, TypeOK, Packet

LEMMA TypeStep == TypeOK /\ [Next]_vars => TypeOK'
<1> SUFFICES ASSUME TypeOK, [Next]_vars PROVE TypeOK'
  OBVIOUS
<1> USE NAssumption
<1>1. CASE CameraSends
  <2>1. cam' \in Packet
    BY <1>1, CameraType DEF CameraSends, TypeOK
  <2>2. net' \in Seq(Packet)
    BY <1>1 DEF CameraSends, TypeOK
  <2> QED BY <1>1, <2>1, <2>2 DEF CameraSends, TypeOK, counters
<1>2. CASE CameraPacketLost
  <2>1. cam' \in Packet
    BY <1>2, CameraType DEF CameraPacketLost, TypeOK
  <2> QED BY <1>2, <2>1 DEF CameraPacketLost, TypeOK, Disturb
<1>3. CASE NetDuplicates
  BY <1>3 DEF NetDuplicates, TypeOK, Disturb
<1>4. CASE NetReorders
  <2>1. net' \in Seq(Packet)
    BY <1>4, SwapType DEF NetReorders, TypeOK
  <2> QED BY <1>4, <2>1 DEF NetReorders, TypeOK, Disturb
<1>5. CASE PacketMatches
  BY <1>5, MatchType DEF PacketMatches, Receiving, TypeOK
<1>5a. CASE ShortPacketMatches
  <2>1. faults' \in Nat
    BY <1>5a DEF ShortPacketMatches, Disturb, TypeOK
  <2> QED BY <1>5a, <2>1, MatchType DEF ShortPacketMatches, Receiving, TypeOK
<1>6. CASE PacketMismatches
  BY <1>6 DEF PacketMismatches, Receiving, TypeOK
<1>7. CASE RecvFails
  BY <1>7 DEF RecvFails, Return, Disturb, TypeOK, socket
<1>8. CASE SelectTimesOut
  <2>1. faults' \in Nat
    BY <1>8 DEF SelectTimesOut, Disturb, TypeOK
  <2> QED BY <1>8, <2>1 DEF SelectTimesOut, Return, TypeOK, socket
<1>9. CASE SelectFails
  BY <1>9 DEF SelectFails, Return, TypeOK, socket, counters
<1>10. CASE FrameCompletes
  BY <1>10 DEF FrameCompletes, Return, TypeOK, socket
<1>11. CASE UNCHANGED vars
  BY <1>11 DEF vars, socket, counters, TypeOK
<1> QED BY <1>1, <1>2, <1>3, <1>4, <1>5, <1>5a, <1>6, <1>7, <1>8, <1>9, <1>10, <1>11
        DEF Next, Camera, Network, Listen

\* Every state of the packet loop is well typed.
THEOREM TypeCorrect == Spec => []TypeOK
BY TypeInit, TypeStep, PTL DEF Spec

-----------------------------------------------------------------------------
(* The run of consecutive matches. The loop has matched N - rst_udp_pkg_num *)
(* datagrams since it last took a full count; their numbers are consecutive *)
(* and lead up to the one it waits for.                                     *)

Matched == N - rst_udp_pkg_num

RunInv ==
    /\ Len(temp_line_buf) >= Matched
    /\ udp_pkg_idx >= Matched
    /\ \A j \in 1 .. Matched :
          temp_line_buf[Len(temp_line_buf) - Matched + j].idx
              = udp_pkg_idx - Matched + j - 1

LEMMA RunInit == Init => RunInv
BY NAssumption DEF Init, BindMCU, RunInv, Matched

LEMMA RunStep == TypeOK /\ RunInv /\ [Next]_vars => RunInv'
<1> SUFFICES ASSUME TypeOK, RunInv, [Next]_vars PROVE RunInv'
  OBVIOUS
<1> USE NAssumption
<1>1. ASSUME UNCHANGED <<udp_pkg_idx, rst_udp_pkg_num, temp_line_buf>>
      PROVE  RunInv'
  BY <1>1 DEF RunInv, Matched
<1>2. ASSUME NEW all \in BOOLEAN, Receiving, Head(net).idx = udp_pkg_idx, Insert(all)
      PROVE  RunInv'
  <2> DEFINE k == Len(temp_line_buf)
  <2>0. Head(net) \in Packet
    BY <1>2, MatchType
  <2>1. /\ rst_udp_pkg_num \in 1 .. N
        /\ udp_pkg_idx \in 0 .. N - 1
    BY <1>2, <2>0 DEF Receiving, Looping, TypeOK, Packet
  <2>2. /\ Matched' = Matched + 1
        /\ Matched \in 0 .. N - 1
        /\ udp_pkg_idx' = udp_pkg_idx + 1
    BY <1>2, <2>1 DEF Insert, Matched
  <2>3. /\ k \in Nat
        /\ Len(temp_line_buf') = k + 1
        /\ temp_line_buf'[k + 1].idx = udp_pkg_idx
        /\ \A i \in 1 .. k : temp_line_buf'[i] = temp_line_buf[i]
    BY <1>2, <2>1 DEF Insert, Inserted, TypeOK
  <2>4. ASSUME NEW j \in 1 .. Matched + 1
        PROVE  temp_line_buf'[(k + 1) - (Matched + 1) + j].idx
                   = (udp_pkg_idx + 1) - (Matched + 1) + j - 1
    <3>1. CASE j = Matched + 1
      BY <3>1, <2>1, <2>2, <2>3
    <3>2. CASE j # Matched + 1
      <4>1. j \in 1 .. Matched /\ k - Matched + j \in 1 .. k
        BY <3>2, <2>2, <2>3 DEF RunInv
      <4>2. temp_line_buf[k - Matched + j].idx = udp_pkg_idx - Matched + j - 1
        BY <4>1 DEF RunInv
      <4>3. /\ (k + 1) - (Matched + 1) + j = k - Matched + j
            /\ (udp_pkg_idx + 1) - (Matched + 1) + j - 1 = udp_pkg_idx - Matched + j - 1
        BY <4>1, <2>1, <2>2, <2>3
      <4>4. temp_line_buf'[k - Matched + j] = temp_line_buf[k - Matched + j]
        BY <4>1, <2>3, Zenon
      <4> HIDE DEF k
      <4> QED BY <4>2, <4>3, <4>4, Zenon
    <3> QED BY <3>1, <3>2
  <2> QED BY <2>1, <2>2, <2>3, <2>4 DEF RunInv
<1>3. ASSUME rst_udp_pkg_num' = N, udp_pkg_idx' \in Nat,
             temp_line_buf' \in Seq(Entry)
      PROVE  RunInv'
  BY <1>3 DEF RunInv, Matched
<1>4. CASE PacketMismatches
  BY <1>4, <1>3 DEF PacketMismatches, TypeOK
<1>5. CASE RecvFails
  BY <1>5, <1>3 DEF RecvFails, Return, TypeOK
<1>6. CASE SelectTimesOut
  BY <1>6, <1>3 DEF SelectTimesOut, Return
<1>7. CASE SelectFails
  BY <1>7, <1>3 DEF SelectFails, Return
<1>8. CASE FrameCompletes
  BY <1>8, <1>3 DEF FrameCompletes, Return
<1>9. CASE Camera \/ Network \/ UNCHANGED vars
  BY <1>9, <1>1 DEF Camera, Network, CameraSends, CameraPacketLost,
                    NetDuplicates, NetReorders, vars, socket, counters
<1>10. CASE PacketMatches \/ ShortPacketMatches
  BY <1>10, <1>2 DEF PacketMatches, ShortPacketMatches
<1> QED BY <1>4, <1>5, <1>6, <1>7, <1>8, <1>9, <1>10 DEF Next, Listen

LEMMA RunInvariant == Spec => [](TypeOK /\ RunInv)
<1>1. Init => TypeOK /\ RunInv
  BY TypeInit, RunInit
<1>2. TypeOK /\ RunInv /\ [Next]_vars => (TypeOK /\ RunInv)'
  BY TypeStep, RunStep
<1> QED BY <1>1, <1>2, PTL DEF Spec

\* The buffer handed on has N datagrams or more and ends with those numbered
\* 0 .. N-1 in order. How many bytes the datagrams had is another matter: a short
\* one leaves the buffer shorter than the picture read from it.
THEOREM EndsWithAFrame == Spec => []TailIsAFrame
<1>1. TypeOK /\ RunInv => TailIsAFrame
  <2> SUFFICES ASSUME TypeOK, RunInv, rst_udp_pkg_num = 0
               PROVE  /\ Len(temp_line_buf) >= N
                      /\ \A j \in 1 .. N :
                            temp_line_buf[Len(temp_line_buf) - N + j].idx = j - 1
    BY DEF TailIsAFrame
  <2>1. Matched = N /\ udp_pkg_idx = N
    BY NAssumption DEF TypeOK, RunInv, Matched
  <2>2. ASSUME NEW j \in 1 .. N
        PROVE  temp_line_buf[Len(temp_line_buf) - N + j].idx = j - 1
    <3>1. temp_line_buf[Len(temp_line_buf) - Matched + j].idx
              = udp_pkg_idx - Matched + j - 1
      BY <2>1 DEF RunInv
    <3> QED BY <2>1, <3>1, NAssumption
  <2>3. Len(temp_line_buf) >= N
    BY <2>1 DEF RunInv
  <2> QED BY <2>2, <2>3
<1> QED BY <1>1, RunInvariant, PTL

-----------------------------------------------------------------------------
(* The price of a disturbance. The account of the receiver is the number of *)
(* frames handed on, plus k for every disturbance, plus 1 for the frame it  *)
(* joined in; ImageBudget says that it covers the frames sent. k is 2 when  *)
(* every frame handed on counts and 3 when only whole pictures do; the      *)
(* proof is the same for both.                                              *)
(*                                                                          *)
(* The difficulty is that a disturbance costs nothing when it happens: it   *)
(* costs later, when the loop meets the gap it left in the channel, and one *)
(* loss may be met as two breaks or undone by a reordering. So the debt is  *)
(* kept on the channel. Line is the channel with the camera's next datagram *)
(* at its end, and a ledger writes two numbers at each place j of it:       *)
(*   h[j]  frames (k at most) that end in the unbroken run of datagrams     *)
(*         starting at j;                                                   *)
(*   v[j]  the account needed before j by a loop that is in step with j, so *)
(*         that whatever follows on the line is covered.                    *)
(* A loop that is not in step with datagram j loses some of the frames of   *)
(* the run: the Toll, which depends on the number it waits for, on how many *)
(* it has matched in a row and on what is left in its buffer. The invariant *)
(* is that a ledger exists whose first entry, with that toll, is within the *)
(* account. Link says which entries two neighbours may have: they are       *)
(* inequalities, so that a swap in the channel can be paid for by raising   *)
(* the entries in front of it.                                              *)

\* The smaller of two numbers.
Least(a, b) == IF a <= b THEN a ELSE b
\* 1 for the last datagram of a frame.
Ends(p)     == IF p.idx = N - 1 THEN 1 ELSE 0
\* The number that follows a datagram's number.
After(i)    == IF i = N - 1 THEN 0 ELSE i + 1

\* q is what the camera sends after p, as far as the loop can tell.
Continues(p, q) == q.idx = After(p.idx) /\ (q.idx = 0 \/ q.frame = p.frame)
\* The largest toll at q of a loop that has just taken p and has k left: all of k
\* when q's number is the one it then waits for, one less when the numbers break.
Gap(k, p, q)    == IF q.idx = After(p.idx) THEN k ELSE k - 1

\* The entries of two neighbours p and q. Either q continues p and they share a run,
\* or q starts a run of its own and the frames it may cost are already due at p.
Link(k, p, hp, vp, q, hq, vq) ==
    /\ hp >= Ends(p)
    /\ \/ Continues(p, q) /\ hp >= Least(k, Ends(p) + hq) /\ vp >= vq - Ends(p)
       \/ vp >= vq - Ends(p) + Least(Gap(k, p, q), hq)

\* A sum with such a minimum is an integer.
LEMMA SumType ==
    ASSUME NEW v \in Int, NEW h \in Int, NEW t \in Int
    PROVE  v + Least(h, t) \in Int
BY DEF Least

\* One datagram taken by the loop: when it handles p and goes from toll r to toll s,
\* earning d, what is due at q is covered if what was due at p was.
LEMMA Consume ==
    ASSUME NEW k \in {2, 3}, NEW p \in Packet, NEW q \in Packet,
           NEW hp \in 0 .. k, NEW hq \in 0 .. k, NEW vp \in Int, NEW vq \in Int,
           Link(k, p, hp, vp, q, hq, vq),
           NEW r \in 0 .. k, NEW s \in 0 .. k, NEW d \in 0 .. 4,
           Continues(p, q) => s + Ends(p) <= r + d,
           s <= Gap(k, p, q), Ends(p) <= r + d
    PROVE  vq + Least(hq, s) <= vp + Least(hp, r) + d
<1> Ends(p) \in 0 .. 1
  BY DEF Ends
<1>1. CASE Continues(p, q) /\ hp >= Least(k, Ends(p) + hq) /\ vp >= vq - Ends(p)
  BY <1>1 DEF Least
<1>2. CASE vp >= vq - Ends(p) + Least(Gap(k, p, q), hq)
  <2> Gap(k, p, q) \in 1 .. k /\ hp >= Ends(p)
    BY DEF Gap, Link
  <2> QED BY <1>2 DEF Least
<1> QED BY <1>1, <1>2 DEF Link

\* A frame count for p in front of q.
Runs(k, p, q, hq) ==
    IF Continues(p, q) THEN Least(k, Ends(p) + hq) ELSE Ends(p)
\* A due account for p in front of q.
Due(k, p, q, hq, vq) ==
    IF Continues(p, q) THEN vq - Ends(p) ELSE vq - Ends(p) + Least(Gap(k, p, q), hq)

\* They are entries that Link allows: a ledger can always be extended to the front.
LEMMA Links ==
    ASSUME NEW k \in {2, 3}, NEW p \in Packet, NEW q \in Packet,
           NEW hq \in 0 .. k, NEW vq \in Int
    PROVE  /\ Runs(k, p, q, hq) \in 0 .. k
           /\ Due(k, p, q, hq, vq) \in Int
           /\ Link(k, p, Runs(k, p, q, hq), Due(k, p, q, hq, vq), q, hq, vq)
BY DEF Runs, Due, Link, Least, Ends, Gap

\* The entries of b when a, b, c have become b, a, c.
SwappedRuns(k, a, b, c, hc) == Runs(k, b, a, Runs(k, a, c, hc))
SwappedDue(k, a, b, c, hc, vc) ==
    Due(k, b, a, Runs(k, a, c, hc), Due(k, a, c, hc, vc))

\* Putting a, b, c in the order b, a, c costs k at most, for the loop when a was the
\* first datagram and for whatever stands in front of a.
LEMMA Exchange ==
    ASSUME NEW k \in {2, 3}, NEW a \in Packet, NEW b \in Packet, NEW c \in Packet,
           NEW ha \in 0 .. k, NEW hb \in 0 .. k, NEW hc \in 0 .. k,
           NEW va \in Int, NEW vb \in Int, NEW vc \in Int,
           Link(k, a, ha, va, b, hb, vb), Link(k, b, hb, vb, c, hc, vc)
    PROVE  /\ \A r, t \in 0 .. k :
                 SwappedDue(k, a, b, c, hc, vc) + Least(SwappedRuns(k, a, b, c, hc), t)
                     <= va + Least(ha, r) + k
           /\ \A x \in Packet, hx \in 0 .. k, vx \in Int :
                 Link(k, x, hx, vx, a, ha, va)
                     => Link(k, x, hx, vx + k, b, SwappedRuns(k, a, b, c, hc),
                             SwappedDue(k, a, b, c, hc, vc))
<1> DEFINE na == Runs(k, a, c, hc)
           wa == Due(k, a, c, hc, vc)
           nb == Runs(k, b, a, na)
           wb == Due(k, b, a, na, wa)
<1>1. na \in 0 .. k /\ wa \in Int /\ nb \in 0 .. k /\ wb \in Int
  BY Links
<1>2. /\ na = Runs(k, a, c, hc) /\ wa = Due(k, a, c, hc, vc)
      /\ nb = Runs(k, b, a, na) /\ wb = Due(k, b, a, na, wa)
  OBVIOUS
<1>3. nb = SwappedRuns(k, a, b, c, hc) /\ wb = SwappedDue(k, a, b, c, hc, vc)
  BY DEF SwappedRuns, SwappedDue
<1> HIDE DEF na, wa, nb, wb
<1>4. /\ \A r, t \in 0 .. k : wb + Least(nb, t) <= va + Least(ha, r) + k
      /\ \A x \in Packet, hx \in 0 .. k, vx \in Int :
             Link(k, x, hx, vx, a, ha, va) => Link(k, x, hx, vx + k, b, nb, wb)
  <2> USE NAssumption, <1>1, <1>2
          DEF Runs, Due, Link, Least, Ends, Gap, After, Continues, Packet
  <2>1. CASE k = 2
    <3>1. \A r, t \in 0 .. k : wb + Least(nb, t) <= va + Least(ha, r) + k
      BY <2>1, SMTT(30)
    <3>2. \A x \in Packet, hx \in 0 .. k, vx \in Int :
             Link(k, x, hx, vx, a, ha, va) => Link(k, x, hx, vx + k, b, nb, wb)
      BY <2>1, SMTT(30)
    <3> QED BY <3>1, <3>2
  <2>2. CASE k = 3
    <3>1. \A r, t \in 0 .. k : wb + Least(nb, t) <= va + Least(ha, r) + k
      BY <2>2, SMTT(30)
    <3>2. \A x \in Packet, hx \in 0 .. k, vx \in Int :
             Link(k, x, hx, vx, a, ha, va) => Link(k, x, hx, vx + k, b, nb, wb)
      BY <2>2, SMTT(30)
    <3> QED BY <3>1, <3>2
  <2> QED BY <2>1, <2>2
<1> QED BY <1>3, <1>4

\* A ledger of line s: the last entry is that of the camera, k frames may end after
\* it and the frames sent so far are due.
Ledger(k, s, h, v) ==
    /\ h[Len(s)] = k
    /\ v[Len(s)] = s[Len(s)].frame
    /\ \A j \in 1 .. Len(s) - 1 :
          Link(k, s[j], h[j], v[j], s[j + 1], h[j + 1], v[j + 1])

\* Some ledger of line s is within account d for a loop whose toll is r.
Covers(k, s, r, d) ==
    \E h \in [1 .. Len(s) -> 0 .. k], v \in [1 .. Len(s) -> Int] :
        Ledger(k, s, h, v) /\ v[1] + Least(h[1], r) <= d

\* The loop takes the first datagram off the line.
LEMMA CoversTail ==
    ASSUME NEW k \in {2, 3}, NEW s \in Seq(Packet), Len(s) > 1,
           NEW r \in 0 .. k, NEW t \in 0 .. k, NEW d \in Int, NEW e \in 0 .. 4,
           Covers(k, s, r, d),
           Continues(s[1], s[2]) => t + Ends(s[1]) <= r + e,
           t <= Gap(k, s[1], s[2]), Ends(s[1]) <= r + e
    PROVE  Covers(k, Tail(s), t, d + e)
<1> DEFINE n == Len(s) - 1
<1>0. n \in Nat \ {0} /\ Len(s) = n + 1
  OBVIOUS
<1>1. PICK h \in [1 .. n + 1 -> 0 .. k], v \in [1 .. n + 1 -> Int] :
          Ledger(k, s, h, v) /\ v[1] + Least(h[1], r) <= d
  <2> HIDE DEF n
  <2> QED BY <1>0 DEF Covers
<1>2. /\ Tail(s) \in Seq(Packet) /\ Len(Tail(s)) = n
      /\ \A j \in 1 .. n : Tail(s)[j] = s[j + 1]
      /\ \A j \in 1 .. n + 1 : s[j] \in Packet
  OBVIOUS
<1> DEFINE g == [j \in 1 .. n |-> h[j + 1]]
           w == [j \in 1 .. n |-> v[j + 1]]
<1> HIDE DEF n
<1>3. g \in [1 .. n -> 0 .. k] /\ w \in [1 .. n -> Int]
  <2>1. ASSUME NEW j \in 1 .. n PROVE h[j + 1] \in 0 .. k /\ v[j + 1] \in Int
    <3>1. j + 1 \in 1 .. n + 1
      BY <1>0
    <3> QED BY <1>1, <3>1
  <2> QED BY <2>1
<1>4. Ledger(k, Tail(s), g, w)
  <2>1. \A j \in 1 .. n : Link(k, s[j], h[j], v[j], s[j + 1], h[j + 1], v[j + 1])
    BY <1>1 DEF Ledger, n
  <2>2. ASSUME NEW j \in 1 .. n - 1
        PROVE  Link(k, Tail(s)[j], g[j], w[j], Tail(s)[j + 1], g[j + 1], w[j + 1])
    <3>1. j \in 1 .. n /\ j + 1 \in 1 .. n
      BY <1>0
    <3>2. /\ Tail(s)[j] = s[j + 1] /\ Tail(s)[j + 1] = s[(j + 1) + 1]
          /\ g[j] = h[j + 1] /\ g[j + 1] = h[(j + 1) + 1]
          /\ w[j] = v[j + 1] /\ w[j + 1] = v[(j + 1) + 1]
      BY <1>2, <3>1
    <3> QED BY <2>1, <3>1, <3>2, Zenon
  <2>3. n \in 1 .. n /\ g[n] = h[n + 1] /\ w[n] = v[n + 1] /\ Tail(s)[n] = s[n + 1]
    BY <1>0, <1>2
  <2>4. h[n + 1] = k /\ v[n + 1] = s[n + 1].frame
    BY <1>1 DEF Ledger, n
  <2> QED BY <1>2, <2>2, <2>3, <2>4 DEF Ledger
<1>5. w[1] + Least(g[1], t) <= d + e
  <2>1. /\ 1 \in 1 .. n /\ 1 \in 1 .. n + 1 /\ 2 \in 1 .. n + 1
        /\ g[1] = h[2] /\ w[1] = v[2]
    BY <1>0
  <2>2. Link(k, s[1], h[1], v[1], s[2], h[2], v[2])
    <3>1. Link(k, s[1], h[1], v[1], s[1 + 1], h[1 + 1], v[1 + 1])
      BY <1>0, <1>1, <2>1 DEF Ledger, n
    <3> QED BY <3>1
  <2>3. h[1] \in 0 .. k /\ h[2] \in 0 .. k /\ v[1] \in Int /\ v[2] \in Int
    BY <1>1, <2>1
  <2>4. v[2] + Least(h[2], t) <= v[1] + Least(h[1], r) + e
    BY <1>2, <2>1, <2>2, <2>3, Consume
  <2>5. Least(h[1], r) \in Int /\ Least(h[2], t) \in Int
    BY <2>3 DEF Least
  <2>6. v[2] + Least(h[2], t) <= d + e
    <3> DEFINE x == v[2] + Least(h[2], t)
               y == v[1] + Least(h[1], r)
    <3>0. h[1] \in Int /\ h[2] \in Int /\ r \in Int /\ t \in Int /\ e \in Int
      BY <2>3
    <3>1. x \in Int /\ y \in Int /\ e \in Int
      BY <2>3, <3>0, SumType, Zenon
    <3>2. x <= y + e /\ y <= d
      BY <1>1, <2>4
    <3> HIDE DEF x, y
    <3>3. x <= d + e
      BY <3>1, <3>2
    <3> QED BY <3>3 DEF x
  <2> QED BY <2>1, <2>6
<1> QED BY <1>2, <1>3, <1>4, <1>5 DEF Covers

\* The thread's own state changes: any new toll is paid by k, a lower one by nothing.
LEMMA CoversFront ==
    ASSUME NEW k \in {2, 3}, NEW s \in Seq(Packet), s # <<>>,
           NEW r \in 0 .. k, NEW t \in 0 .. k, NEW d \in Int, Covers(k, s, r, d)
    PROVE  /\ Covers(k, s, t, d + k)
           /\ t <= r => Covers(k, s, t, d)
<1>1. PICK h \in [1 .. Len(s) -> 0 .. k], v \in [1 .. Len(s) -> Int] :
          Ledger(k, s, h, v) /\ v[1] + Least(h[1], r) <= d
  BY DEF Covers
<1>2. h[1] \in 0 .. k /\ v[1] \in Int
  BY <1>1
<1>3. /\ v[1] + Least(h[1], t) <= d + k
      /\ t <= r => v[1] + Least(h[1], t) <= d
  BY <1>1, <1>2 DEF Least
<1> QED BY <1>1, <1>3 DEF Covers

\* The camera's datagram and the next one, both with the camera's entries.
LEMMA Onward ==
    ASSUME NEW k \in {2, 3}, NEW p \in Packet, NEW q \in Packet,
           Continues(p, q), q.frame = p.frame + Ends(p)
    PROVE  Link(k, p, k, p.frame, q, k, q.frame)
<1>1. Ends(p) \in 0 .. 1 /\ p.frame \in Int
  BY DEF Ends, Packet
<1> QED BY <1>1 DEF Link, Least

\* The camera sends its datagram: nothing more is due.
LEMMA CoversAppend ==
    ASSUME NEW k \in {2, 3}, NEW s \in Seq(Packet), NEW q \in Packet, s # <<>>,
           NEW r \in 0 .. k, NEW d \in Int, Covers(k, s, r, d),
           Continues(s[Len(s)], q), q.frame = s[Len(s)].frame + Ends(s[Len(s)])
    PROVE  Covers(k, Append(s, q), r, d)
<1> DEFINE n == Len(s)
<1>1. PICK h \in [1 .. n -> 0 .. k], v \in [1 .. n -> Int] :
          Ledger(k, s, h, v) /\ v[1] + Least(h[1], r) <= d
  BY DEF Covers
<1> DEFINE z == Append(s, q)
           g == [j \in 1 .. n + 1 |-> IF j <= n THEN h[j] ELSE k]
           w == [j \in 1 .. n + 1 |-> IF j <= n THEN v[j] ELSE q.frame]
<1>2. /\ n \in Nat \ {0} /\ Len(z) = n + 1 /\ z[n + 1] = q
      /\ \A j \in 1 .. n : z[j] = s[j] /\ s[j] \in Packet
  OBVIOUS
<1>3. g \in [1 .. n + 1 -> 0 .. k] /\ w \in [1 .. n + 1 -> Int]
  BY <1>1, <1>2 DEF Packet
<1>4. /\ \A j \in 1 .. n : g[j] = h[j] /\ w[j] = v[j]
      /\ g[n + 1] = k /\ w[n + 1] = q.frame
  BY <1>2
<1> HIDE DEF n, z, g, w
<1>5. ASSUME NEW j \in 1 .. n
      PROVE  Link(k, z[j], g[j], w[j], z[j + 1], g[j + 1], w[j + 1])
  <2>1. CASE j = n
    <3>1. h[n] = k /\ v[n] = s[n].frame
      BY <1>1 DEF Ledger, n
    <3>2. s[n] \in Packet /\ Continues(s[n], q) /\ q.frame = s[n].frame + Ends(s[n])
      BY <1>2 DEF n
    <3>3. Link(k, s[n], k, s[n].frame, q, k, q.frame)
      BY <3>2, Onward
    <3> QED BY <1>2, <1>4, <2>1, <3>1, <3>3
  <2>2. CASE j # n
    <3>1. j \in 1 .. n - 1 /\ j + 1 \in 1 .. n
      BY <1>2, <2>2
    <3>2. Link(k, s[j], h[j], v[j], s[j + 1], h[j + 1], v[j + 1])
      BY <1>1, <3>1 DEF Ledger, n
    <3> QED BY <1>2, <1>4, <3>1, <3>2, Zenon
  <2> QED BY <2>1, <2>2
<1>6. Ledger(k, z, g, w)
  <2>1. Len(z) - 1 = n
    BY <1>2
  <2> QED BY <1>2, <1>4, <1>5, <2>1, Zenon DEF Ledger
<1>7. w[1] + Least(g[1], r) <= d
  <2>1. 1 \in 1 .. n
    BY <1>2
  <2>2. g[1] = h[1] /\ w[1] = v[1]
    BY <1>4, <2>1
  <2> QED BY <1>1, <2>2
<1> QED BY <1>2, <1>3, <1>6, <1>7 DEF Covers, z

\* Raising what is due at two neighbours by k keeps them linked.
LEMMA Raise ==
    ASSUME NEW k \in {2, 3}, NEW p \in Packet, NEW q \in Packet,
           NEW hp \in 0 .. k, NEW hq \in 0 .. k, NEW vp \in Int, NEW vq \in Int,
           Link(k, p, hp, vp, q, hq, vq)
    PROVE  Link(k, p, hp, vp + k, q, hq, vq + k)
<1>1. Ends(p) \in Int /\ Least(Gap(k, p, q), hq) \in Int
  BY DEF Ends, Least, Gap
<1> QED BY <1>1 DEF Link

\* Datagram c is lost and q follows p instead: k more is due at p.
LEMMA Skip ==
    ASSUME NEW k \in {2, 3}, NEW p \in Packet, NEW c \in Packet, NEW q \in Packet,
           NEW hp \in 0 .. k, NEW vp \in Int, Link(k, p, hp, vp, c, k, c.frame),
           Continues(c, q), q.frame = c.frame + Ends(c)
    PROVE  Link(k, p, hp, vp + k, q, k, q.frame)
<1>1. N = 1 => Continues(p, q) /\ Ends(p) = 1 /\ Ends(c) = 1
  BY DEF Continues, After, Ends, Packet
<1>2. N > 1 /\ Continues(p, c) => Gap(k, p, q) = k - 1
  BY NAssumption DEF Continues, After, Gap, Packet
<1>3. /\ Ends(p) \in 0 .. 1 /\ Ends(c) \in 0 .. 1 /\ c.frame \in Int
      /\ Gap(k, p, q) \in k - 1 .. k /\ Gap(k, p, c) \in k - 1 .. k
  BY DEF Ends, Gap, Packet
<1> QED BY <1>1, <1>2, <1>3, NAssumption DEF Link, Least

\* The camera's datagram, the last of the line, is lost: k pays for it.
LEMMA CoversLost ==
    ASSUME NEW k \in {2, 3}, NEW s \in Seq(Packet), NEW q \in Packet, s # <<>>,
           NEW r \in 0 .. k, NEW t \in 0 .. k, NEW d \in Int, Covers(k, s, r, d),
           Continues(s[Len(s)], q), q.frame = s[Len(s)].frame + Ends(s[Len(s)]),
           Len(s) > 1 => t = r, Len(s) = 1 => t + Ends(s[Len(s)]) <= k
    PROVE  Covers(k, [s EXCEPT ![Len(s)] = q], t, d + k)
<1> DEFINE n == Len(s)
           z == [s EXCEPT ![n] = q]
<1>1. PICK h \in [1 .. n -> 0 .. k], v \in [1 .. n -> Int] :
          Ledger(k, s, h, v) /\ v[1] + Least(h[1], r) <= d
  BY DEF Covers
<1> DEFINE w == [j \in 1 .. n |-> IF j < n THEN v[j] + k ELSE q.frame]
<1>0. n \in Nat \ {0}
  OBVIOUS
<1>2. /\ Len(z) = n /\ z[n] = q
      /\ \A j \in 1 .. n - 1 : z[j] = s[j]
      /\ \A j \in 1 .. n : s[j] \in Packet
  OBVIOUS
<1>3. w \in [1 .. n -> Int]
  BY <1>0, <1>1 DEF Packet
<1>4. /\ \A j \in 1 .. n - 1 : w[j] = v[j] + k
      /\ w[n] = q.frame
  BY <1>0
<1>5. /\ h[n] = k /\ v[n] = s[n].frame
      /\ \A j \in 1 .. n - 1 : Link(k, s[j], h[j], v[j], s[j + 1], h[j + 1], v[j + 1])
  BY <1>1 DEF Ledger
<1>9. Continues(s[n], q) /\ q.frame = s[n].frame + Ends(s[n])
  OBVIOUS
<1>10. (n > 1 => t = r) /\ (n = 1 => t + Ends(s[n]) <= k)
  OBVIOUS
<1> HIDE DEF n, z, w
<1>6. ASSUME NEW j \in 1 .. n - 1
      PROVE  Link(k, z[j], h[j], w[j], z[j + 1], h[j + 1], w[j + 1])
  <2>0. j \in 1 .. n /\ j + 1 \in 1 .. n
    BY <1>0
  <2>1. /\ Link(k, s[j], h[j], v[j], s[j + 1], h[j + 1], v[j + 1])
        /\ s[j] \in Packet /\ s[j + 1] \in Packet
        /\ h[j] \in 0 .. k /\ h[j + 1] \in 0 .. k
        /\ v[j] \in Int /\ v[j + 1] \in Int
    BY <1>1, <1>2, <1>5, <2>0
  <2>2. CASE j + 1 = n
    <3>1. Link(k, s[j], h[j], v[j], s[n], k, s[n].frame)
      BY <1>5, <2>1, <2>2
    <3>2. Link(k, s[j], h[j], v[j] + k, q, k, q.frame)
      BY <1>2, <1>9, <2>0, <2>1, <2>2, <3>1, Skip
    <3> QED BY <1>2, <1>4, <1>5, <2>2, <3>2
  <2>3. CASE j + 1 # n
    <3>1. j + 1 \in 1 .. n - 1
      BY <1>0, <2>3
    <3>2. Link(k, s[j], h[j], v[j] + k, s[j + 1], h[j + 1], v[j + 1] + k)
      BY <2>1, Raise
    <3> QED BY <1>2, <1>4, <3>1, <3>2
  <2> QED BY <2>2, <2>3
<1>7. Ledger(k, z, h, w)
  BY <1>2, <1>4, <1>5, <1>6 DEF Ledger
<1>8. w[1] + Least(h[1], t) <= d + k
  <2>1. CASE n = 1
    <3>1. h[1] = k /\ v[1] = s[1].frame /\ w[1] = s[1].frame + Ends(s[1])
      BY <1>4, <1>5, <1>9, <2>1
    <3>2. s[1].frame \in Int /\ Ends(s[1]) \in 0 .. 1
      BY <1>2, <2>1 DEF Ends, Packet
    <3>3. t + Ends(s[1]) <= k
      BY <1>10, <2>1
    <3>4. Least(h[1], t) = t /\ Least(h[1], r) = r
      BY <3>1 DEF Least
    <3> QED BY <1>1, <3>1, <3>2, <3>3, <3>4
  <2>2. CASE n > 1
    <3>1. 1 \in 1 .. n - 1 /\ 1 \in 1 .. n
      BY <1>0, <2>2
    <3>2. w[1] = v[1] + k /\ v[1] \in Int /\ h[1] \in 0 .. k /\ t = r
      BY <1>1, <1>4, <1>10, <2>2, <3>1
    <3> QED BY <1>1, <3>2 DEF Least
  <2> QED BY <1>0, <2>1, <2>2
<1> QED BY <1>1, <1>2, <1>3, <1>7, <1>8 DEF Covers, z, n

\* A datagram that arrives twice: k more is due at the first copy.
LEMMA Twin ==
    ASSUME NEW k \in {2, 3}, NEW p \in Packet, NEW hp \in 0 .. k, NEW vp \in Int,
           Ends(p) <= hp
    PROVE  Link(k, p, hp, vp + k, p, hp, vp)
<1>1. Ends(p) \in 0 .. 1 /\ Gap(k, p, p) \in k - 1 .. k
  BY DEF Ends, Gap
<1> QED BY <1>1 DEF Link, Least

\* The last datagram of the channel arrives twice: k pays for it.
LEMMA CoversTwice ==
    ASSUME NEW k \in {2, 3}, NEW s \in Seq(Packet), NEW q \in Packet, s # <<>>,
           NEW r \in 0 .. k, NEW d \in Int, Covers(k, Append(s, q), r, d)
    PROVE  Covers(k, Append(Append(s, s[Len(s)]), q), r, d + k)
<1> DEFINE n == Len(s)
           y == Append(s, q)
           z == Append(Append(s, s[n]), q)
<1>0. n \in Nat \ {0}
  OBVIOUS
<1>2. /\ Len(y) = n + 1 /\ Len(z) = n + 2
      /\ y[n + 1] = q /\ z[n + 1] = s[n] /\ z[n + 2] = q
      /\ \A j \in 1 .. n : y[j] = s[j] /\ z[j] = s[j] /\ s[j] \in Packet
  OBVIOUS
<1>1. PICK h \in [1 .. n + 1 -> 0 .. k], v \in [1 .. n + 1 -> Int] :
          Ledger(k, y, h, v) /\ v[1] + Least(h[1], r) <= d
  BY <1>2 DEF Covers
<1> DEFINE g == [j \in 1 .. n + 2 |-> IF j <= n THEN h[j] ELSE h[j - 1]]
           w == [j \in 1 .. n + 2 |-> IF j <= n THEN v[j] + k ELSE v[j - 1]]
<1>3. g \in [1 .. n + 2 -> 0 .. k] /\ w \in [1 .. n + 2 -> Int]
  <2>0. k \in Int
    OBVIOUS
  <2>1. ASSUME NEW j \in 1 .. n + 2
        PROVE  /\ (IF j <= n THEN h[j] ELSE h[j - 1]) \in 0 .. k
               /\ (IF j <= n THEN v[j] + k ELSE v[j - 1]) \in Int
    <3>1. CASE j <= n
      <4>1. j \in 1 .. n + 1
        BY <1>0, <3>1
      <4>2. h[j] \in 0 .. k /\ v[j] \in Int
        BY <1>1, <4>1
      <4> QED BY <2>0, <3>1, <4>2
    <3>2. CASE ~ (j <= n)
      <4>1. j - 1 \in 1 .. n + 1
        BY <1>0, <3>2
      <4>2. h[j - 1] \in 0 .. k /\ v[j - 1] \in Int
        BY <1>1, <4>1
      <4> QED BY <3>2, <4>2
    <3> QED BY <3>1, <3>2
  <2> QED BY <2>1
<1>4. /\ \A j \in 1 .. n : g[j] = h[j] /\ w[j] = v[j] + k
      /\ g[n + 1] = h[n] /\ w[n + 1] = v[n]
      /\ g[n + 2] = h[n + 1] /\ w[n + 2] = v[n + 1]
  BY <1>0
<1>5. /\ h[n + 1] = k /\ v[n + 1] = q.frame
      /\ \A j \in 1 .. n : Link(k, y[j], h[j], v[j], y[j + 1], h[j + 1], v[j + 1])
  BY <1>0, <1>1, <1>2 DEF Ledger
<1>6. \A j \in 1 .. n + 1 : h[j] \in 0 .. k /\ v[j] \in Int
  BY <1>1
<1> HIDE DEF n, y, z, g, w
<1>7. ASSUME NEW j \in 1 .. n + 1
      PROVE  Link(k, z[j], g[j], w[j], z[j + 1], g[j + 1], w[j + 1])
  <2>1. CASE j = n + 1
    <3>1. n \in 1 .. n /\ j + 1 = n + 2
      BY <1>0, <2>1
    <3>2. Link(k, s[n], h[n], v[n], q, h[n + 1], v[n + 1])
      BY <1>2, <1>5, <3>1
    <3> QED BY <1>2, <1>4, <2>1, <3>1, <3>2
  <2>2. CASE j = n
    <3>1. n \in 1 .. n /\ n \in 1 .. n + 1
      BY <1>0
    <3>2. Ends(s[n]) <= h[n]
      BY <1>2, <1>5, <1>6, <3>1 DEF Link, Ends
    <3>3. Link(k, s[n], h[n], v[n] + k, s[n], h[n], v[n])
      BY <1>2, <1>6, <3>1, <3>2, Twin
    <3> QED BY <1>2, <1>4, <2>2, <3>1, <3>3
  <2>3. CASE j \in 1 .. n - 1
    <3>1. j \in 1 .. n /\ j + 1 \in 1 .. n /\ j \in 1 .. n + 1 /\ j + 1 \in 1 .. n + 1
      BY <1>0, <2>3
    <3>2. Link(k, s[j], h[j], v[j], s[j + 1], h[j + 1], v[j + 1])
      BY <1>2, <1>5, <3>1
    <3>3. Link(k, s[j], h[j], v[j] + k, s[j + 1], h[j + 1], v[j + 1] + k)
      BY <1>2, <1>6, <3>1, <3>2, Raise
    <3> QED BY <1>2, <1>4, <3>1, <3>3
  <2> QED BY <1>0, <2>1, <2>2, <2>3
<1>8. Ledger(k, z, g, w)
  <2>1. Len(z) - 1 = n + 1
    BY <1>0, <1>2
  <2>2. g[Len(z)] = k /\ w[Len(z)] = z[Len(z)].frame
    BY <1>2, <1>4, <1>5
  <2> QED BY <1>7, <2>1, <2>2, Zenon DEF Ledger
<1>9. w[1] + Least(g[1], r) <= d + k
  <2>1. 1 \in 1 .. n /\ 1 \in 1 .. n + 1
    BY <1>0
  <2>2. g[1] = h[1] /\ w[1] = v[1] + k /\ h[1] \in 0 .. k /\ v[1] \in Int
    BY <1>4, <1>6, <2>1
  <2> QED BY <1>1, <2>2 DEF Least
<1> QED BY <1>2, <1>3, <1>8, <1>9 DEF Covers, z, n

\* Two neighbours of the channel change places: k pays for it.
LEMMA CoversSwap ==
    ASSUME NEW k \in {2, 3}, NEW s \in Seq(Packet), NEW z \in Seq(Packet),
           NEW i \in 1 .. Len(s) - 2, Len(z) = Len(s),
           z[i] = s[i + 1], z[i + 1] = s[i],
           \A j \in 1 .. Len(s) : j # i /\ j # i + 1 => z[j] = s[j],
           NEW r \in 0 .. k, NEW t \in 0 .. k, NEW d \in Int,
           Covers(k, s, r, d), i > 1 => t = r
    PROVE  Covers(k, z, t, d + k)
<1> DEFINE n == Len(s)
<1>0. n \in Nat /\ i \in 1 .. n - 2
  OBVIOUS
<1>1. PICK h \in [1 .. n -> 0 .. k], v \in [1 .. n -> Int] :
          Ledger(k, s, h, v) /\ v[1] + Least(h[1], r) <= d
  BY DEF Covers
<1>2. /\ \A j \in 1 .. n : s[j] \in Packet
      /\ \A j \in 1 .. n : h[j] \in 0 .. k /\ v[j] \in Int
  BY <1>1
<1>3. /\ h[n] = k /\ v[n] = s[n].frame
      /\ \A j \in 1 .. n - 1 : Link(k, s[j], h[j], v[j], s[j + 1], h[j + 1], v[j + 1])
  BY <1>1 DEF Ledger
<1>4. /\ Len(z) = n /\ z[i] = s[i + 1] /\ z[i + 1] = s[i]
      /\ \A j \in 1 .. n : j # i /\ j # i + 1 => z[j] = s[j]
      /\ i > 1 => t = r
  OBVIOUS
<1> HIDE DEF n
<1> DEFINE a == s[i]
           b == s[i + 1]
           c == s[i + 2]
           na == Runs(k, a, c, h[i + 2])
           wa == Due(k, a, c, h[i + 2], v[i + 2])
           nb == SwappedRuns(k, a, b, c, h[i + 2])
           wb == SwappedDue(k, a, b, c, h[i + 2], v[i + 2])
<1>5. /\ i \in 1 .. n /\ i + 1 \in 1 .. n /\ i + 2 \in 1 .. n
      /\ i \in 1 .. n - 1 /\ i + 1 \in 1 .. n - 1
  BY <1>0
<1>6. a \in Packet /\ b \in Packet /\ c \in Packet
  BY <1>2, <1>5
<1>7. /\ na \in 0 .. k /\ wa \in Int
      /\ Link(k, a, na, wa, c, h[i + 2], v[i + 2])
  BY <1>2, <1>5, <1>6, Links
<1>8. nb \in 0 .. k /\ wb \in Int /\ Link(k, b, nb, wb, a, na, wa)
  BY <1>6, <1>7, Links DEF SwappedRuns, SwappedDue
<1>9. /\ Link(k, a, h[i], v[i], b, h[i + 1], v[i + 1])
      /\ Link(k, b, h[i + 1], v[i + 1], c, h[i + 2], v[i + 2])
  <2>1. (i + 1) + 1 = i + 2
    BY <1>0
  <2> QED BY <1>3, <1>5, <2>1
<1>10. /\ \A p, q \in 0 .. k : wb + Least(nb, q) <= v[i] + Least(h[i], p) + k
       /\ \A x \in Packet, hx \in 0 .. k, vx \in Int :
             Link(k, x, hx, vx, a, h[i], v[i]) => Link(k, x, hx, vx + k, b, nb, wb)
  <2>1. /\ h[i] \in 0 .. k /\ h[i + 1] \in 0 .. k /\ h[i + 2] \in 0 .. k
        /\ v[i] \in Int /\ v[i + 1] \in Int /\ v[i + 2] \in Int
    BY <1>2, <1>5
  <2> HIDE DEF a, b, c
  <2> QED BY <1>6, <1>9, <2>1, Exchange
<1> HIDE DEF na, wa, nb, wb
<1> DEFINE g == [j \in 1 .. n |-> IF j = i THEN nb ELSE IF j = i + 1 THEN na ELSE h[j]]
           w == [j \in 1 .. n |-> IF j < i THEN v[j] + k ELSE IF j = i THEN wb
                                  ELSE IF j = i + 1 THEN wa ELSE v[j]]
<1>11. g \in [1 .. n -> 0 .. k] /\ w \in [1 .. n -> Int]
  <2>1. k \in Int
    OBVIOUS
  <2>2. ASSUME NEW j \in 1 .. n
        PROVE  /\ (IF j = i THEN nb ELSE IF j = i + 1 THEN na ELSE h[j]) \in 0 .. k
               /\ (IF j < i THEN v[j] + k ELSE IF j = i THEN wb
                   ELSE IF j = i + 1 THEN wa ELSE v[j]) \in Int
    BY <1>2, <1>7, <1>8, <2>1
  <2> QED BY <2>2
<1>12. /\ g[i] = nb /\ w[i] = wb /\ g[i + 1] = na /\ w[i + 1] = wa
       /\ \A j \in 1 .. n : j < i => g[j] = h[j] /\ w[j] = v[j] + k
       /\ \A j \in 1 .. n : j > i + 1 => g[j] = h[j] /\ w[j] = v[j]
  <2>1. i \in Int /\ \A j \in 1 .. n : j \in Int
    BY <1>0
  <2>2. g[i] = nb /\ w[i] = wb /\ g[i + 1] = na /\ w[i + 1] = wa
    BY <1>5, <2>1
  <2>3. \A j \in 1 .. n : j < i => g[j] = h[j] /\ w[j] = v[j] + k
    BY <2>1
  <2>4. \A j \in 1 .. n : j > i + 1 => g[j] = h[j] /\ w[j] = v[j]
    BY <2>1
  <2> QED BY <2>2, <2>3, <2>4
<1> HIDE DEF g, w
<1>13. ASSUME NEW j \in 1 .. n - 1
       PROVE  Link(k, z[j], g[j], w[j], z[j + 1], g[j + 1], w[j + 1])
  <2>1. j \in 1 .. n /\ j + 1 \in 1 .. n
    BY <1>0
  <2>0. i \in Int /\ j \in Int
    BY <1>0
  <2>2. Link(k, s[j], h[j], v[j], s[j + 1], h[j + 1], v[j + 1])
    BY <1>3
  <2>3. CASE j + 1 < i
    <3>1. Link(k, s[j], h[j], v[j] + k, s[j + 1], h[j + 1], v[j + 1] + k)
      BY <1>2, <2>1, <2>2, Raise
    <3>2. j < i /\ j # i /\ j # i + 1 /\ j + 1 # i /\ j + 1 # i + 1
      BY <2>0, <2>3
    <3> QED BY <1>4, <1>12, <2>1, <2>3, <3>1, <3>2
  <2>4. CASE j + 1 = i
    <3>1. j < i /\ j # i /\ j # i + 1
      BY <2>0, <2>4
    <3>2. Link(k, s[j], h[j], v[j], a, h[i], v[i])
      BY <2>2, <2>4
    <3>3. Link(k, s[j], h[j], v[j] + k, b, nb, wb)
      BY <1>2, <1>10, <2>1, <3>2
    <3> QED BY <1>4, <1>12, <2>1, <2>4, <3>1, <3>3
  <2>5. CASE j = i
    BY <1>4, <1>8, <1>12, <2>5
  <2>6. CASE j = i + 1
    <3>1. /\ j + 1 = i + 2 /\ j + 1 > i + 1
          /\ j + 1 # i /\ j + 1 # i + 1
      BY <2>0, <2>6
    <3> QED BY <1>4, <1>7, <1>12, <2>1, <2>6, <3>1
  <2>7. CASE j > i + 1
    <3>1. /\ j + 1 > i + 1 /\ j # i /\ j # i + 1
          /\ j + 1 # i /\ j + 1 # i + 1
      BY <2>0, <2>7
    <3> QED BY <1>4, <1>12, <2>1, <2>2, <2>7, <3>1
  <2>8. j + 1 < i \/ j + 1 = i \/ j = i \/ j = i + 1 \/ j > i + 1
    BY <2>0
  <2> QED BY <2>3, <2>4, <2>5, <2>6, <2>7, <2>8, Zenon
<1>14. Ledger(k, z, g, w)
  <2>1. n \in 1 .. n /\ n > i + 1 /\ n # i /\ n # i + 1
    BY <1>0
  <2>2. g[n] = k /\ w[n] = z[n].frame
    BY <1>3, <1>4, <1>12, <2>1
  <2> QED BY <1>4, <1>13, <2>2, Zenon DEF Ledger
<1>15. w[1] + Least(g[1], t) <= d + k
  <2>1. 1 \in 1 .. n
    BY <1>0
  <2>2. h[1] \in 0 .. k /\ v[1] \in Int
    BY <1>2, <2>1
  <2>3. CASE i = 1
    <3>1. wb + Least(nb, t) <= v[1] + Least(h[1], r) + k
      BY <1>10, <2>3
    <3>2. Least(nb, t) \in Int /\ Least(h[1], r) \in Int
      BY <1>8, <2>2 DEF Least
    <3>3. wb + Least(nb, t) <= d + k
      <4> DEFINE x == wb + Least(nb, t)
                 y == v[1] + Least(h[1], r)
      <4>0. nb \in Int /\ h[1] \in Int /\ r \in Int /\ t \in Int /\ k \in Int
        BY <1>8, <2>2
      <4>1. x \in Int /\ y \in Int /\ k \in Int
        BY <1>8, <2>2, <4>0, SumType, Zenon
      <4>2. x <= y + k /\ y <= d
        BY <1>1, <3>1
      <4> HIDE DEF x, y
      <4>3. x <= d + k
        BY <4>1, <4>2
      <4> QED BY <4>3 DEF x
    <3> QED BY <1>12, <2>3, <3>3
  <2>4. CASE i > 1
    <3>1. g[1] = h[1] /\ w[1] = v[1] + k /\ t = r
      BY <1>4, <1>12, <2>1, <2>4
    <3>2. Least(h[1], r) \in Int
      BY <2>2 DEF Least
    <3>3. (v[1] + k) + Least(h[1], r) <= d + k
      <4>1. k \in Int
        OBVIOUS
      <4> QED BY <1>1, <2>2, <3>2, <4>1
    <3> QED BY <3>1, <3>3
  <2> QED BY <1>0, <2>3, <2>4
<1> QED BY <1>4, <1>11, <1>14, <1>15 DEF Covers

\* The datagrams of p's frame before p, as temp_line_buf holds them when all of each
\* was there.
Lines(p) == [j \in 1 .. p.idx |-> [frame |-> p.frame, idx |-> j - 1, full |-> TRUE]]

\* What the loop loses of the run that starts with p when it waits for number u, has
\* matched m in a row and holds buf: nothing if p is the number and the whole frame
\* so far is matched (and, for a whole picture, is all the buffer holds).
Toll(k, p, u, m, buf) ==
    IF k = 2
    THEN IF u # p.idx THEN 1 ELSE IF m < u THEN 2 ELSE 0
    ELSE IF u # p.idx THEN IF buf = <<>> THEN 1 ELSE 2
         ELSE IF m < u THEN 3 ELSE IF buf = Lines(p) THEN 0 ELSE 1

\* A toll is k at most.
LEMMA TollType ==
    ASSUME NEW k \in {2, 3}, NEW p, NEW u, NEW m, NEW buf
    PROVE  Toll(k, p, u, m, buf) \in 0 .. k
BY DEF Toll

\* A call that starts, waiting for 0: it loses the frame it joins at most.
LEMMA TollReturned ==
    ASSUME NEW k \in {2, 3}, NEW p \in Packet
    PROVE  /\ Toll(k, p, 0, 0, <<>>) <= 1
           /\ p.idx = 0 => Toll(k, p, 0, 0, <<>>) = 0
<1>1. p.idx = 0 => Lines(p) = <<>>
  BY DEF Lines
<1> QED BY <1>1 DEF Toll

\* Before datagram 0 the toll is less than k.
LEMMA TollAtZero ==
    ASSUME NEW k \in {2, 3}, NEW p \in Packet, p.idx = 0, NEW u \in Nat, NEW m \in 0 .. u,
           NEW buf
    PROVE  Toll(k, p, u, m, buf) <= k - 1
BY DEF Toll

\* Appending the next datagram of a frame.
LEMMA LinesGrow ==
    ASSUME NEW p \in Packet
    PROVE  Append(Lines(p), Inserted(p, TRUE))
               = [j \in 1 .. p.idx + 1 |->
                     [frame |-> p.frame, idx |-> j - 1, full |-> TRUE]]
<1> DEFINE n == p.idx
           e == Inserted(p, TRUE)
           entry(j) == [frame |-> p.frame, idx |-> j - 1, full |-> TRUE]
           s == Lines(p)
<1>1. n \in Nat /\ n <= N - 1
  BY NAssumption DEF Packet
<1>2. s = [j \in 1 .. n |-> entry(j)]
  BY DEF Lines
<1>3. e = entry(n + 1) /\ e \in Entry
  <2>1. n = (n + 1) - 1
    BY <1>1
  <2>2. e = [frame |-> p.frame, idx |-> (n + 1) - 1, full |-> TRUE]
    BY <2>1, Zenon DEF Inserted
  <2> QED BY <2>2, InsertedType
<1>4. s \in Seq(Entry)
  <2>1. \A j \in 1 .. n : entry(j) \in Entry
    BY <1>1, NAssumption DEF Packet, Entry
  <2> HIDE DEF entry, s
  <2> QED BY <1>1, <1>2, <2>1
<1>5. Len(s) = n
  BY <1>1, <1>2
<1> HIDE DEF s, e, entry, n
<1>6. /\ Append(s, e) \in Seq(Entry) /\ Len(Append(s, e)) = n + 1
      /\ Append(s, e)[n + 1] = e
      /\ \A j \in 1 .. n : Append(s, e)[j] = s[j]
  BY <1>1, <1>3, <1>4, <1>5
<1>7. ASSUME NEW j \in 1 .. n + 1
      PROVE  Append(s, e)[j] = entry(j)
  <2>1. j = n + 1 \/ j \in 1 .. n
    BY <1>1
  <2> QED BY <1>2, <1>3, <1>6, <2>1
<1>8. Append(s, e) = [j \in 1 .. n + 1 |-> Append(s, e)[j]]
  <2>1. Append(s, e) \in [1 .. n + 1 -> Entry]
    BY <1>6, LenProperties
  <2> QED BY <2>1, Zenon
<1>9. Append(s, e) = [j \in 1 .. n + 1 |-> entry(j)]
  BY <1>7, <1>8, Zenon
<1> QED BY <1>9, Zenon DEF s, e, entry, n

\* A buffer with the first datagrams of a frame, and the next one after it.
LEMMA LinesAppend ==
    ASSUME NEW p \in Packet, NEW q \in Packet,
           q.idx = p.idx + 1, q.frame = p.frame
    PROVE  Append(Lines(p), Inserted(p, TRUE)) = Lines(q)
BY LinesGrow DEF Lines

\* PacketMatches in the middle of a frame earns nothing and loses nothing.
LEMMA TollMatch ==
    ASSUME NEW k \in {2, 3}, NEW p \in Packet, NEW q \in Packet,
           NEW m \in 0 .. p.idx, m + 1 < N,
           NEW buf, NEW after, after # <<>>,
           q.idx = p.idx + 1 /\ q.frame = p.frame /\ buf = Lines(p) => after = Lines(q)
    PROVE  LET r == Toll(k, p, p.idx, m, buf)
               t == Toll(k, q, p.idx + 1, m + 1, after)
           IN  /\ Continues(p, q) => t + Ends(p) <= r
               /\ t <= Gap(k, p, q)
               /\ Ends(p) <= r
<1> DEFINE r == Toll(k, p, p.idx, m, buf)
           t == Toll(k, q, p.idx + 1, m + 1, after)
<1>1. p.idx \in 0 .. N - 1 /\ q.idx \in 0 .. N - 1
  BY DEF Packet
<1>4. \/ p.idx = N - 1 /\ Ends(p) = 1 /\ m < p.idx
      \/ p.idx < N - 1 /\ Ends(p) = 0
  BY <1>1, NAssumption DEF Ends
<1>5. Continues(p, q) => t + Ends(p) <= r
  <2> SUFFICES ASSUME Continues(p, q) PROVE t + Ends(p) <= r
    OBVIOUS
  <2>1. CASE p.idx = N - 1
    BY <1>1, <1>4, <2>1, NAssumption DEF Continues, After, Toll
  <2>2. CASE p.idx < N - 1 /\ Ends(p) = 0
    <3>1. q.idx = p.idx + 1 /\ q.frame = p.frame
      BY <1>1, <2>2 DEF Continues, After
    <3> QED BY <1>1, <2>2, <3>1 DEF Toll
  <2> QED BY <1>4, <2>1, <2>2
<1>6. t <= Gap(k, p, q)
  BY <1>1 DEF Toll, Gap, After
<1>7. Ends(p) <= r
  BY <1>1, <1>4 DEF Toll
<1> QED BY <1>5, <1>6, <1>7

\* PacketMatches of the last datagram earns the frame it completes, unless whole
\* pictures are counted and the buffer held more than this frame.
LEMMA TollComplete ==
    ASSUME NEW k \in {2, 3}, NEW p \in Packet, NEW q \in Packet, p.idx = N - 1,
           NEW buf, NEW e \in 0 .. 1,
           (k = 3 /\ buf # Lines(p)) \/ e = 1
    PROVE  LET r == Toll(k, p, p.idx, N - 1, buf)
               t == Toll(k, q, 0, 0, <<>>)
           IN  /\ Continues(p, q) => t + Ends(p) <= r + e
               /\ t <= Gap(k, p, q)
               /\ Ends(p) <= r + e
<1>1. /\ Toll(k, q, 0, 0, <<>>) \in 0 .. 1
      /\ Continues(p, q) => Toll(k, q, 0, 0, <<>>) = 0
  BY TollReturned, TollType DEF Continues, After
<1>2. Ends(p) = 1 /\ Gap(k, p, q) >= 1
  BY DEF Ends, Gap
<1>3. 1 <= Toll(k, p, p.idx, N - 1, buf) + e
  BY NAssumption DEF Toll
<1>4. Toll(k, p, p.idx, N - 1, buf) \in Int
  BY TollType
<1> DEFINE r == Toll(k, p, p.idx, N - 1, buf)
           t == Toll(k, q, 0, 0, <<>>)
<1>5. /\ r \in Int /\ t \in 0 .. 1 /\ 1 <= r + e
      /\ Continues(p, q) => t = 0
  BY <1>1, <1>3, <1>4
<1> HIDE DEF r, t
<1>6. /\ Continues(p, q) => t + Ends(p) <= r + e
      /\ t <= Gap(k, p, q)
      /\ Ends(p) <= r + e
  <2>1. Gap(k, p, q) \in Int
    BY DEF Gap
  <2> QED BY <1>2, <1>5, <2>1
<1> QED BY <1>6 DEF r, t

\* ShortPacketMatches in the middle of a frame: the disturbance pays for the picture
\* it spoils.
LEMMA TollShort ==
    ASSUME NEW k \in {2, 3}, NEW p \in Packet, NEW q \in Packet,
           NEW m \in 0 .. p.idx, m + 1 < N, NEW buf, NEW after, after # <<>>
    PROVE  LET r == Toll(k, p, p.idx, m, buf)
               t == Toll(k, q, p.idx + 1, m + 1, after)
           IN  /\ Continues(p, q) => t + Ends(p) <= r + k
               /\ t <= Gap(k, p, q)
               /\ Ends(p) <= r + k
<1>1. p.idx \in 0 .. N - 1 /\ q.idx \in 0 .. N - 1
  BY DEF Packet
<1>2. \/ p.idx = N - 1 /\ Ends(p) = 1 /\ m < p.idx
      \/ p.idx < N - 1 /\ Ends(p) = 0
  BY <1>1, NAssumption DEF Ends
<1> DEFINE r == Toll(k, p, p.idx, m, buf)
           t == Toll(k, q, p.idx + 1, m + 1, after)
<1>3. t <= Gap(k, p, q)
  BY <1>1 DEF Toll, Gap, After
<1>4. r \in 0 .. k /\ t \in 0 .. k /\ Ends(p) = 1 => r >= 1
  <2>1. r \in 0 .. k /\ t \in 0 .. k
    BY TollType
  <2>2. Ends(p) = 1 => r >= 1
    BY <1>2 DEF Toll
  <2> QED BY <2>1, <2>2
<1>5. r \in 0 .. k /\ t \in 0 .. k
  BY TollType
<1> HIDE DEF r, t
<1>6. /\ Continues(p, q) => t + Ends(p) <= r + k
      /\ Ends(p) <= r + k
  BY <1>2, <1>4, <1>5
<1> QED BY <1>3, <1>6 DEF r, t

\* ShortPacketMatches of the last datagram: what is left is the toll of a call that
\* starts.
LEMMA TollShortLast ==
    ASSUME NEW k \in {2, 3}, NEW p \in Packet, NEW q \in Packet, NEW r \in 0 .. k,
           NEW e \in k .. k + 1
    PROVE  LET t == Toll(k, q, 0, 0, <<>>)
           IN  /\ Continues(p, q) => t + Ends(p) <= r + e
               /\ t <= Gap(k, p, q)
               /\ Ends(p) <= r + e
<1>1. Toll(k, q, 0, 0, <<>>) \in 0 .. 1
  BY TollReturned, TollType
<1>2. Ends(p) \in 0 .. 1 /\ Gap(k, p, q) \in 1 .. k
  BY DEF Ends, Gap
<1> DEFINE t == Toll(k, q, 0, 0, <<>>)
<1> HIDE DEF t
<1>3. t \in 0 .. 1
  BY <1>1 DEF t
<1>4. t + Ends(p) <= r + e /\ t <= Gap(k, p, q) /\ Ends(p) <= r + e
  BY <1>2, <1>3
<1> QED BY <1>4 DEF t

\* PacketMismatches: the run it breaks was already due.
LEMMA TollMismatch ==
    ASSUME NEW k \in {2, 3}, NEW p \in Packet, NEW q \in Packet,
           NEW u \in Nat, u # p.idx, NEW m, NEW buf
    PROVE  LET r == Toll(k, p, u, m, buf)
               t == Toll(k, q, 0, 0, buf)
           IN  /\ Continues(p, q) => t + Ends(p) <= r
               /\ t <= Gap(k, p, q)
               /\ Ends(p) <= r
<1>1. q.idx = 0 => Lines(q) = <<>>
  BY DEF Lines
<1>2. p.idx \in 0 .. N - 1 /\ q.idx \in 0 .. N - 1
  BY DEF Packet
<1> QED BY <1>1, <1>2, NAssumption DEF Toll, Gap, Ends, Continues, After

-----------------------------------------------------------------------------
\* N datagrams have matched and FrameCompletes is the thread's next step: the frame
\* is counted from here on, and the loop's state is that of the next call.
Pending == rst_udp_pkg_num = 0

\* The loop's state as the next datagram will find it: number awaited, matched in a
\* row, kept in the buffer.
Awaited == IF Pending THEN 0 ELSE udp_pkg_idx
InARow  == IF Pending THEN 0 ELSE Matched
Kept    == IF Pending THEN <<>> ELSE temp_line_buf

\* The channel and the datagram the camera sends next.
Line  == Append(net, cam)

\* Frames handed on (k = 2) or whole pictures (k = 3), with k for each disturbance
\* and 1 for the frame joined.
Account(k) ==
    IF k = 2 THEN completed + (IF Pending THEN 1 ELSE 0) + 2 * faults + 1
    ELSE whole + (IF Pending /\ OneFrame(ShownImage) THEN 1 ELSE 0) + 3 * faults + 1

\* The account covers the line. A socket that was never bound receives nothing.
Solvent(k) ==
    bound => Covers(k, Line, Toll(k, Line[1], Awaited, InARow, Kept), Account(k))

\* No datagram is of a frame the camera has not reached; after the last frame it is at
\* the start of the next (a camera that sends no frame may be in the middle of one).
Sent ==
    /\ cam.frame <= Frames
    /\ cam.frame = Frames => cam.idx = 0 \/ Frames = 0
    /\ \A j \in 1 .. Len(net) : net[j].frame <= Frames

-----------------------------------------------------------------------------
\* The line as a sequence.
LEMMA LineFacts ==
    ASSUME TypeOK
    PROVE  /\ Line \in Seq(Packet) /\ Line # <<>>
           /\ Len(Line) = Len(net) + 1 /\ Line[Len(Line)] = cam
           /\ \A j \in 1 .. Len(net) : Line[j] = net[j]
           /\ Line[1] \in Packet
BY DEF TypeOK, Line

\* An account is an integer.
LEMMA AccountType ==
    ASSUME TypeOK, NEW k \in {2, 3} PROVE Account(k) \in Int
BY DEF TypeOK, Account

\* What CameraAdvances sends next continues what it sent.
LEMMA CameraContinues ==
    ASSUME TypeOK, CameraAdvances
    PROVE  /\ cam' \in Packet
           /\ Continues(cam, cam') /\ cam'.frame = cam.frame + Ends(cam)
<1>1. cam' \in Packet
  BY CameraType DEF TypeOK
<1>2. cam \in Packet
  BY DEF TypeOK
<1>3. CASE cam.idx = N - 1
  BY <1>1, <1>2, <1>3, NAssumption DEF CameraAdvances, Continues, After, Ends, Packet
<1>4. CASE cam.idx # N - 1
  <2>1. cam'.idx = cam.idx + 1 /\ cam'.frame = cam.frame
    BY <1>2, <1>4 DEF CameraAdvances, Packet
  <2> QED BY <1>1, <1>2, <1>4, <2>1 DEF Continues, After, Ends, Packet
<1> QED BY <1>3, <1>4

\* Sent is inductive.
LEMMA SentStep == TypeOK /\ Sent /\ [Next]_vars => Sent'
<1> SUFFICES ASSUME TypeOK, Sent, [Next]_vars PROVE Sent'
  OBVIOUS
<1>0. net \in Seq(Packet) /\ cam \in Packet
  BY DEF TypeOK
<1>1. ASSUME CameraAdvances PROVE
          /\ cam'.frame <= Frames
          /\ cam'.frame = Frames => cam'.idx = 0 \/ Frames = 0
  BY <1>0, <1>1, BoundsAssumption, NAssumption DEF CameraAdvances, Packet, Sent
<1>2. CASE CameraSends
  <2>1. \A j \in 1 .. Len(net') : net'[j].frame <= Frames
    BY <1>0, <1>2 DEF CameraSends, Sent
  <2> QED BY <1>1, <1>2, <2>1 DEF CameraSends, Sent
<1>3. CASE CameraPacketLost
  BY <1>1, <1>3 DEF CameraPacketLost, Sent
<1>4. CASE NetDuplicates
  <2>1. \A j \in 1 .. Len(net') : net'[j].frame <= Frames
    BY <1>0, <1>4 DEF NetDuplicates, Sent
  <2> QED BY <1>4, <2>1 DEF NetDuplicates, Sent
<1>5. CASE NetReorders
  <2>1. \A j \in 1 .. Len(net') : net'[j].frame <= Frames
    BY <1>0, <1>5 DEF NetReorders, Sent
  <2> QED BY <1>5, <2>1 DEF NetReorders, Sent
<1>6. CASE Receiving
  <2>1. \A j \in 1 .. Len(net') : net'[j].frame <= Frames
    BY <1>0, <1>6 DEF Receiving, Sent
  <2> QED BY <1>6, <2>1 DEF Receiving, Sent
<1>7. CASE UNCHANGED <<cam, net>>
  BY <1>7 DEF Sent
<1>8. PacketMatches \/ ShortPacketMatches \/ PacketMismatches => Receiving
  BY DEF PacketMatches, ShortPacketMatches, PacketMismatches
<1>9. RecvFails \/ SelectTimesOut \/ SelectFails \/ FrameCompletes \/ UNCHANGED vars
          => UNCHANGED <<cam, net>>
  BY DEF RecvFails, SelectTimesOut, SelectFails, FrameCompletes, socket, vars
<1> QED BY <1>2, <1>3, <1>4, <1>5, <1>6, <1>7, <1>8, <1>9
        DEF Next, Camera, Network, Listen

-----------------------------------------------------------------------------
(* The camera and the network: the thread's part stays as it is.            *)

\* The camera and the network leave the thread's part as it is; a disturbance adds k.
LEMMA ThreadRests ==
    ASSUME NEW k \in {2, 3}, TypeOK,
           UNCHANGED <<udp_pkg_idx, rst_udp_pkg_num, temp_line_buf, completed, whole>>
    PROVE  /\ Awaited' = Awaited /\ InARow' = InARow /\ Kept' = Kept
           /\ faults' = faults => Account(k)' = Account(k)
           /\ Disturb => Account(k)' = Account(k) + k
<1>1. /\ Awaited' = Awaited /\ InARow' = InARow /\ Kept' = Kept
      /\ Pending' = Pending /\ OneFrame(ShownImage)' = OneFrame(ShownImage)
  BY DEF Awaited, InARow, Kept, Matched, Pending, ShownImage, OneFrame
<1>2. faults' = faults => Account(k)' = Account(k)
  BY <1>1, Zenon DEF Account
<1>3. Disturb => Account(k)' = Account(k) + k
  <2> SUFFICES ASSUME faults' = faults + 1 PROVE Account(k)' = Account(k) + k
    BY DEF Disturb
  <2> DEFINE x == IF Pending THEN 1 ELSE 0
             y == IF Pending /\ OneFrame(ShownImage) THEN 1 ELSE 0
  <2>1. x' = x /\ y' = y /\ x \in Int /\ y \in Int
    BY <1>1
  <2>2. /\ Account(k) = IF k = 2 THEN completed + x + 2 * faults + 1
                                  ELSE whole + y + 3 * faults + 1
        /\ Account(k)' = IF k = 2 THEN completed' + x' + 2 * faults' + 1
                                   ELSE whole' + y' + 3 * faults' + 1
    BY DEF Account
  <2> HIDE DEF x, y
  <2>3. completed \in Int /\ whole \in Int /\ faults \in Int
    BY DEF TypeOK
  <2> QED BY <2>1, <2>2, <2>3
<1> QED BY <1>1, <1>2, <1>3

\* CameraSends keeps the account solvent.
LEMMA SendsSolvent ==
    ASSUME NEW k \in {2, 3}, TypeOK, TypeOK', Solvent(k), CameraSends
    PROVE  Solvent(k)'
<1> SUFFICES ASSUME bound'
             PROVE  Covers(k, Line', Toll(k, Line'[1], Awaited', InARow', Kept'), Account(k)')
  BY DEF Solvent
<1>1. /\ bound /\ CameraAdvances /\ net' = Append(net, cam) /\ net \in Seq(Packet)
      /\ UNCHANGED <<udp_pkg_idx, rst_udp_pkg_num, temp_line_buf, completed, whole, faults>>
  BY DEF CameraSends, counters, TypeOK
<1>2. Line' = Append(Line, cam')
  BY <1>1 DEF Line
<1>3. Line'[1] = Line[1]
  BY <1>2, LineFacts
<1>4. Covers(k, Line, Toll(k, Line[1], Awaited, InARow, Kept), Account(k))
  BY <1>1 DEF Solvent
<1>5. Toll(k, Line[1], Awaited, InARow, Kept) \in 0 .. k /\ Account(k) \in Int
  BY TollType, AccountType
<1>6. Covers(k, Append(Line, cam'), Toll(k, Line[1], Awaited, InARow, Kept), Account(k))
  BY <1>1, <1>4, <1>5, LineFacts, CameraContinues, CoversAppend
<1> QED BY <1>1, <1>2, <1>3, <1>6, ThreadRests

\* A sequence with another last datagram.
LEMMA AppendLast ==
    ASSUME NEW s \in Seq(Packet), NEW p \in Packet, NEW q \in Packet
    PROVE  Append(s, q) = [Append(s, p) EXCEPT ![Len(Append(s, p))] = q]
<1> DEFINE n == Len(s) + 1
           y == Append(s, p)
           z == Append(s, q)
<1>1. /\ Len(y) = n /\ y \in Seq(Packet) /\ Len(z) = n /\ z \in Seq(Packet)
      /\ z[n] = q /\ \A j \in 1 .. n : j # n => z[j] = y[j]
  OBVIOUS
<1>3. n \in 1 .. n
  OBVIOUS
<1> HIDE DEF n, y, z
<1>4. y \in [1 .. n -> Packet] /\ z \in [1 .. n -> Packet]
  BY <1>1, LenProperties
<1>2. z = [y EXCEPT ![n] = q]
  BY <1>1, <1>3, <1>4
<1> QED BY <1>1, <1>2 DEF y, z

\* CameraPacketLost keeps the account solvent.
LEMMA LostSolvent ==
    ASSUME NEW k \in {2, 3}, TypeOK, RunInv, TypeOK', Solvent(k), CameraPacketLost
    PROVE  Solvent(k)'
<1> SUFFICES ASSUME bound'
             PROVE  Covers(k, Line', Toll(k, Line'[1], Awaited', InARow', Kept'), Account(k)')
  BY DEF Solvent
<1>1. /\ bound /\ CameraAdvances /\ Disturb /\ net' = net /\ net \in Seq(Packet)
      /\ UNCHANGED <<udp_pkg_idx, rst_udp_pkg_num, temp_line_buf, completed, whole>>
  BY DEF CameraPacketLost, TypeOK
<1> DEFINE r == Toll(k, Line[1], Awaited, InARow, Kept)
           t == Toll(k, Line'[1], Awaited, InARow, Kept)
<1>2. Line' = [Line EXCEPT ![Len(Line)] = cam']
  <2>1. Line' = Append(net, cam')
    BY <1>1 DEF Line
  <2>2. cam \in Packet /\ cam' \in Packet
    BY DEF TypeOK
  <2> QED BY <1>1, <2>1, <2>2, AppendLast DEF Line
<1>3. Covers(k, Line, r, Account(k))
  BY <1>1 DEF Solvent
<1>4. r \in 0 .. k /\ t \in 0 .. k /\ Account(k) \in Int
  BY TollType, AccountType
<1>5. Len(Line) > 1 => t = r
  <2>1. Len(Line) > 1 => Line'[1] = Line[1]
    BY <1>2, LineFacts
  <2> QED BY <2>1
<1>6. Len(Line) = 1 => t + Ends(cam) <= k
  <2>1. SUFFICES ASSUME Len(Line) = 1 PROVE t + Ends(cam) <= k
    OBVIOUS
  <2>2. Line'[1] = cam'
    BY <1>2, <2>1, LineFacts
  <2>3. CASE Ends(cam) = 0
    BY <1>4, <2>3
  <2>4. CASE cam.idx = N - 1 /\ Ends(cam) = 1
    <3>1. cam' \in Packet /\ cam'.idx = 0
      BY <1>1, <2>4, CameraContinues DEF Continues, After
    <3>2. Awaited \in Nat /\ InARow \in 0 .. Awaited
      BY NAssumption DEF Awaited, InARow, Matched, TypeOK, RunInv
    <3>3. t <= k - 1
      BY <2>2, <3>1, <3>2, TollAtZero
    <3> QED BY <1>4, <2>4, <3>3
  <2> QED BY <2>3, <2>4 DEF Ends
<1>7. Covers(k, [Line EXCEPT ![Len(Line)] = cam'], t, Account(k) + k)
  <2> HIDE DEF r, t
  <2> QED BY <1>1, <1>3, <1>4, <1>5, <1>6, LineFacts, CameraContinues, CoversLost
<1> QED BY <1>1, <1>2, <1>7, ThreadRests

\* NetDuplicates keeps the account solvent.
LEMMA TwiceSolvent ==
    ASSUME NEW k \in {2, 3}, TypeOK, TypeOK', Solvent(k), NetDuplicates
    PROVE  Solvent(k)'
<1> SUFFICES ASSUME bound'
             PROVE  Covers(k, Line', Toll(k, Line'[1], Awaited', InARow', Kept'), Account(k)')
  BY DEF Solvent
<1>1. /\ bound /\ Disturb /\ net' = Append(net, net[Len(net)]) /\ net \in Seq(Packet)
      /\ net # <<>> /\ cam' = cam /\ cam \in Packet
      /\ UNCHANGED <<udp_pkg_idx, rst_udp_pkg_num, temp_line_buf, completed, whole>>
  BY DEF NetDuplicates, TypeOK
<1> DEFINE r == Toll(k, Line[1], Awaited, InARow, Kept)
<1>2. Line' = Append(Append(net, net[Len(net)]), cam) /\ Line = Append(net, cam)
  BY <1>1 DEF Line
<1>3. Covers(k, Line, r, Account(k))
  BY <1>1 DEF Solvent
<1>4. r \in 0 .. k /\ Account(k) \in Int
  BY TollType, AccountType
<1>5. Line'[1] = Line[1]
  BY <1>1, <1>2
<1>6. Covers(k, Append(Append(net, net[Len(net)]), cam), r, Account(k) + k)
  <2> HIDE DEF r
  <2> QED BY <1>1, <1>2, <1>3, <1>4, CoversTwice
<1> QED BY <1>1, <1>2, <1>5, <1>6, ThreadRests

\* NetReorders keeps the account solvent.
LEMMA ReorderSolvent ==
    ASSUME NEW k \in {2, 3}, TypeOK, TypeOK', Solvent(k), NetReorders
    PROVE  Solvent(k)'
<1> SUFFICES ASSUME bound'
             PROVE  Covers(k, Line', Toll(k, Line'[1], Awaited', InARow', Kept'), Account(k)')
  BY DEF Solvent
<1>1. /\ bound /\ Disturb /\ net \in Seq(Packet) /\ cam' = cam
      /\ UNCHANGED <<udp_pkg_idx, rst_udp_pkg_num, temp_line_buf, completed, whole>>
  BY DEF NetReorders, TypeOK
<1>2. PICK i \in 1 .. Len(net) - 1 :
          net' = [net EXCEPT ![i] = net[i + 1], ![i + 1] = net[i]]
  BY DEF NetReorders
<1> DEFINE r == Toll(k, Line[1], Awaited, InARow, Kept)
           t == Toll(k, Line'[1], Awaited, InARow, Kept)
<1>3. /\ Line \in Seq(Packet) /\ Len(Line) = Len(net) + 1
      /\ \A j \in 1 .. Len(net) : Line[j] = net[j]
      /\ Line[Len(net) + 1] = cam
  BY LineFacts
<1>4. /\ Line' \in Seq(Packet) /\ Len(Line') = Len(Line)
      /\ \A j \in 1 .. Len(net) : Line'[j] = net'[j]
      /\ Line'[Len(net) + 1] = cam
  <2>1. Len(net') = Len(net) /\ net' \in Seq(Packet)
    BY <1>1, <1>2, SwapType
  <2> QED BY <1>1, <1>3, <2>1 DEF Line, TypeOK
<1>5. /\ i \in 1 .. Len(Line) - 2
      /\ Line'[i] = Line[i + 1] /\ Line'[i + 1] = Line[i]
      /\ \A j \in 1 .. Len(Line) : j # i /\ j # i + 1 => Line'[j] = Line[j]
  <2>0. Len(net) \in Nat
    BY <1>1
  <2>1. i \in 1 .. Len(net) /\ i + 1 \in 1 .. Len(net) /\ i \in 1 .. Len(Line) - 2
    BY <1>3, <2>0
  <2>2. net'[i] = net[i + 1] /\ net'[i + 1] = net[i]
    BY <1>1, <1>2, <2>1
  <2>3. ASSUME NEW j \in 1 .. Len(Line), j # i, j # i + 1
        PROVE  Line'[j] = Line[j]
    <3>1. CASE j = Len(net) + 1
      BY <1>3, <1>4, <3>1
    <3>2. CASE j \in 1 .. Len(net)
      BY <1>1, <1>2, <1>3, <1>4, <2>3, <3>2
    <3> QED BY <1>3, <2>0, <3>1, <3>2
  <2> QED BY <1>3, <1>4, <2>1, <2>2, <2>3
<1>6. Covers(k, Line, r, Account(k))
  BY <1>1 DEF Solvent
<1>7. r \in 0 .. k /\ t \in 0 .. k /\ Account(k) \in Int
  BY TollType, AccountType
<1>8. i > 1 => t = r
  <2>1. i > 1 => Line'[1] = Line[1]
    BY <1>3, <1>5
  <2> QED BY <2>1
<1>9. Covers(k, Line', t, Account(k) + k)
  <2> HIDE DEF r, t
  <2> QED BY <1>3, <1>4, <1>5, <1>6, <1>7, <1>8, CoversSwap
<1> QED BY <1>1, <1>9, ThreadRests

\* A buffer with nothing but the datagrams of one frame shows that frame.
LEMMA LinesWhole ==
    ASSUME NEW p \in Packet, p.idx = N - 1, p.frame <= Frames
    PROVE  OneFrame(SubSeq(Append(Lines(p), Inserted(p, TRUE)), 1, N))
<1> DEFINE entry(j) == [frame |-> p.frame, idx |-> j - 1, full |-> TRUE]
           s == Append(Lines(p), Inserted(p, TRUE))
<1>1. s = [j \in 1 .. N |-> entry(j)]
  <2>1. p.idx + 1 = N
    BY NAssumption
  <2> QED BY <2>1, LinesGrow
<1>0. N \in Nat \ {0}
  BY NAssumption
<1>2. Len(s) = N /\ N \in Nat \ {0}
  <2> HIDE DEF s, entry
  <2> QED BY <1>0, <1>1
<1>3. s \in Seq(Entry)
  <2>1. \A j \in 1 .. N : entry(j) \in Entry
    BY NAssumption DEF Packet, Entry
  <2> HIDE DEF entry, s
  <2> QED BY <1>1, <1>2, <2>1
<1> HIDE DEF s, entry
<1>4. SubSeq(s, 1, N) = [j \in 1 .. N |-> entry(j)]
  <2>1. SubSeq(s, 1, N) = [j \in 1 .. N |-> s[j]]
    BY <1>2, <1>3
  <2> QED BY <1>1, <2>1
<1>5. p.frame \in 0 .. Frames
  BY BoundsAssumption DEF Packet
<1> QED BY <1>4, <1>5, Zenon DEF OneFrame, s, entry

\* Receiving takes the first datagram off the line.
LEMMA ReceiveLine ==
    ASSUME TypeOK, Receiving
    PROVE  /\ Line[1] = Head(net) /\ Line[2] = Line'[1] /\ Tail(Line) = Line'
           /\ Line \in Seq(Packet) /\ Len(Line) > 1
           /\ Line[1] \in Packet /\ Line'[1] \in Packet
           /\ ~ Pending /\ bound /\ bound' = bound
           /\ UNCHANGED <<completed, whole>>
<1>1. /\ net \in Seq(Packet) /\ net # <<>> /\ net' = Tail(net) /\ cam' = cam
      /\ cam \in Packet /\ bound /\ bound' = bound /\ Looping
      /\ UNCHANGED <<completed, whole>>
  BY DEF TypeOK, Receiving
<1>2. ~ Pending
  BY <1>1 DEF Looping, Pending
<1>3. Line' = Append(Tail(net), cam) /\ Line = Append(net, cam)
  BY <1>1 DEF Line
<1>4. Tail(Line) = Line'
  <2> DEFINE y == Tail(Line)
             z == Line'
             n == Len(net)
  <2>1. /\ y \in Seq(Packet) /\ z \in Seq(Packet) /\ Len(y) = n /\ Len(z) = n
        /\ \A j \in 1 .. n : y[j] = z[j]
    BY <1>1, <1>3
  <2> HIDE DEF y, z, n
  <2>2. y \in [1 .. n -> Packet] /\ z \in [1 .. n -> Packet]
    BY <2>1, LenProperties
  <2>3. y = z
    BY <2>1, <2>2
  <2> QED BY <2>3 DEF y, z
<1>5. /\ Line[1] = Head(net) /\ Line[2] = Line'[1]
      /\ Line \in Seq(Packet) /\ Len(Line) > 1
      /\ Line[1] \in Packet /\ Line'[1] \in Packet
  <2> DEFINE y == Append(net, cam)
             z == Append(Tail(net), cam)
  <2>1. y \in Seq(Packet) /\ Len(y) = Len(net) + 1 /\ Len(net) > 0 /\ Len(net) \in Nat
    BY <1>1
  <2>2. y[1] = Head(net) /\ y[1] \in Packet
    BY <1>1, <2>1
  <2>3. z \in Seq(Packet) /\ Len(z) = Len(net)
    BY <1>1
  <2>4. z[1] \in Packet
    BY <2>1, <2>3
  <2>5. Tail(y) = z
    BY <1>3, <1>4
  <2>6. y[2] = z[1]
    <3>1. Tail(y)[1] = y[2]
      BY <2>1
    <3> QED BY <2>5, <3>1
  <2>7. Line = y /\ Line' = z
    BY <1>3
  <2>8. Len(y) > 1
    BY <2>1
  <2> HIDE DEF y, z
  <2> QED BY <2>1, <2>2, <2>4, <2>6, <2>7, <2>8, Zenon
<1> QED BY <1>1, <1>2, <1>4, <1>5, Zenon

\* The account while a frame is being assembled.
LEMMA LoopingAccount ==
    ASSUME TypeOK, ~ Pending
    PROVE  /\ Account(2) = completed + 2 * faults + 1
           /\ Account(3) = whole + 3 * faults + 1
BY DEF Account, TypeOK

\* A datagram taken keeps the account solvent: the completed frame is earned here, a
\* step before FrameCompletes counts it.
LEMMA ReceiveSolvent ==
    ASSUME NEW k \in {2, 3}, TypeOK, RunInv, Sent, TypeOK', Solvent(k),
           PacketMatches \/ ShortPacketMatches \/ PacketMismatches
    PROVE  Solvent(k)'
<1> DEFINE p == Line[1]
           q == Line'[1]
           r == Toll(k, p, Awaited, InARow, Kept)
           t == Toll(k, q, Awaited', InARow', Kept')
<1>0. Receiving
  BY DEF PacketMatches, ShortPacketMatches, PacketMismatches
<1>1. /\ p \in Packet /\ q \in Packet /\ ~ Pending /\ bound
      /\ UNCHANGED <<completed, whole>> /\ p = Head(net)
  BY <1>0, ReceiveLine
<1>2. /\ Awaited = udp_pkg_idx /\ InARow = Matched /\ Kept = temp_line_buf
      /\ udp_pkg_idx \in 0 .. N /\ Matched \in 0 .. N - 1 /\ Matched <= udp_pkg_idx
      /\ temp_line_buf \in Seq(Entry)
  <2>1. /\ Awaited = udp_pkg_idx /\ InARow = Matched /\ Kept = temp_line_buf
    BY <1>1 DEF Awaited, InARow, Kept
  <2>2. rst_udp_pkg_num \in 1 .. N
    BY <1>1 DEF Pending, TypeOK
  <2> QED BY <2>1, <2>2, NAssumption DEF Matched, RunInv, TypeOK
<1>3. \E e \in 0 .. 4 :
          /\ Account(k)' = Account(k) + e
          /\ Continues(p, q) => t + Ends(p) <= r + e
          /\ t <= Gap(k, p, q)
          /\ Ends(p) <= r + e
  <2>1. CASE PacketMatches /\ Matched + 1 < N
    <3>1. /\ udp_pkg_idx = p.idx /\ udp_pkg_idx' = p.idx + 1 /\ Matched' = Matched + 1
          /\ rst_udp_pkg_num' > 0 /\ faults' = faults
          /\ temp_line_buf' = Append(temp_line_buf, Inserted(p, TRUE))
      <4>1. /\ udp_pkg_idx = p.idx /\ udp_pkg_idx' = udp_pkg_idx + 1
            /\ rst_udp_pkg_num' = rst_udp_pkg_num - 1 /\ faults' = faults
            /\ temp_line_buf' = Append(temp_line_buf, Inserted(p, TRUE))
        BY <1>1, <2>1, Zenon DEF PacketMatches, Insert
      <4>2. Matched' = Matched + 1 /\ rst_udp_pkg_num' > 0
        BY <2>1, <4>1, NAssumption DEF Matched, TypeOK
      <4> QED BY <4>1, <4>2, Zenon
    <3>2. /\ Awaited' = p.idx + 1 /\ InARow' = Matched + 1
          /\ Kept' = Append(temp_line_buf, Inserted(p, TRUE)) /\ ~ Pending'
      <4>1. ~ Pending'
        BY <3>1 DEF Pending
      <4> QED BY <3>1, <4>1, Zenon DEF Awaited, InARow, Kept
    <3>3. Account(k)' = Account(k) + 0
      <4>1. Account(k)' = Account(k)
        BY <1>1, <3>1, <3>2, Zenon DEF Account
      <4>2. Account(k) \in Int
        BY AccountType
      <4> QED BY <4>1, <4>2
    <3>4. /\ Continues(p, q) => t + Ends(p) <= r
          /\ t <= Gap(k, p, q)
          /\ Ends(p) <= r
      <4>1. Matched \in 0 .. p.idx /\ Matched + 1 < N
        BY <1>2, <2>1, <3>1
      <4>2. Append(temp_line_buf, Inserted(p, TRUE)) # <<>>
        BY <1>1, <1>2, InsertedType, AppendedNotEmpty
      <4>3. q.idx = p.idx + 1 /\ q.frame = p.frame /\ temp_line_buf = Lines(p)
                => Append(temp_line_buf, Inserted(p, TRUE)) = Lines(q)
        BY <1>1, LinesAppend
      <4> HIDE DEF p, q
      <4> QED BY <1>1, <1>2, <3>1, <3>2, <4>1, <4>2, <4>3, TollMatch
    <3>5. r \in Int
      BY TollType
    <3> HIDE DEF r, t, p, q
    <3>6. r + 0 = r
      BY <3>5
    <3> QED BY <3>3, <3>4, <3>6
  <2>2. CASE PacketMatches /\ Matched + 1 = N
    <3>1. /\ udp_pkg_idx = p.idx /\ p.idx = N - 1 /\ Matched = N - 1
          /\ rst_udp_pkg_num' = 0 /\ faults' = faults
          /\ temp_line_buf' = Append(temp_line_buf, Inserted(p, TRUE))
      <4>1. /\ udp_pkg_idx = p.idx /\ faults' = faults
            /\ temp_line_buf' = Append(temp_line_buf, Inserted(p, TRUE))
            /\ rst_udp_pkg_num' = rst_udp_pkg_num - 1
        BY <1>1, <2>2, Zenon DEF PacketMatches, Insert
      <4>2. p.idx \in 0 .. N - 1
        BY <1>1 DEF Packet
      <4>3. rst_udp_pkg_num \in Int
        BY DEF TypeOK
      <4> HIDE DEF p
      <4> QED BY <1>2, <2>2, <4>1, <4>2, <4>3, NAssumption DEF Matched
    <3>2. Awaited' = 0 /\ InARow' = 0 /\ Kept' = <<>> /\ Pending'
      BY <3>1 DEF Awaited, InARow, Kept, Pending
    <3>3. temp_line_buf = Lines(p) => OneFrame(ShownImage)'
      <4>1. p.frame <= Frames
        BY <1>0, <1>1 DEF Sent, Receiving, TypeOK
      <4>2. temp_line_buf = Lines(p) => OneFrame(SubSeq(temp_line_buf', 1, N))
        BY <1>1, <3>1, <4>1, LinesWhole
      <4> QED BY <4>2 DEF OneFrame, ShownImage
    <3> DEFINE e == IF k = 2 \/ OneFrame(ShownImage)' THEN 1 ELSE 0
    <3>4. Account(k)' = Account(k) + e
      <4>1. completed \in Int /\ whole \in Int /\ faults \in Int
        BY DEF TypeOK
      <4>2. /\ Account(2) = completed + 2 * faults + 1
            /\ Account(3) = whole + 3 * faults + 1
        BY <1>1, LoopingAccount
      <4>3. /\ Account(2)' = completed' + 1 + 2 * faults' + 1
            /\ Account(3)' = whole' + (IF OneFrame(ShownImage)' THEN 1 ELSE 0)
                                 + 3 * faults' + 1
        BY <3>2 DEF Account
      <4> QED BY <1>1, <3>1, <4>1, <4>2, <4>3
    <3>5. /\ Continues(p, q) => t + Ends(p) <= r + e
          /\ t <= Gap(k, p, q)
          /\ Ends(p) <= r + e
      <4>1. e \in 0 .. 1 /\ ((k = 3 /\ temp_line_buf # Lines(p)) \/ e = 1)
        BY <3>3
      <4> HIDE DEF p, q, e
      <4> QED BY <1>1, <1>2, <3>1, <3>2, <4>1, TollComplete
    <3> HIDE DEF r, t, p, q
    <3> QED BY <3>4, <3>5
  <2>3. CASE PacketMismatches
    <3>1. /\ udp_pkg_idx # p.idx /\ udp_pkg_idx' = 0 /\ rst_udp_pkg_num' = N
          /\ temp_line_buf' = temp_line_buf /\ faults' = faults
      BY <1>1, <2>3 DEF PacketMismatches
    <3>2. /\ Awaited' = 0 /\ InARow' = 0 /\ Kept' = temp_line_buf /\ ~ Pending'
      BY <3>1, NAssumption DEF Awaited, InARow, Kept, Pending, Matched
    <3>3. Account(k)' = Account(k) + 0
      <4>1. Account(k)' = Account(k)
        BY <1>1, <3>1, <3>2, Zenon DEF Account
      <4>2. Account(k) \in Int
        BY AccountType
      <4> QED BY <4>1, <4>2
    <3>4. /\ Continues(p, q) => t + Ends(p) <= r
          /\ t <= Gap(k, p, q)
          /\ Ends(p) <= r
      <4> HIDE DEF p, q
      <4>1. udp_pkg_idx \in Nat
        BY <1>2
      <4> QED BY <1>1, <1>2, <3>1, <3>2, <4>1, TollMismatch
    <3>5. r \in Int
      BY TollType
    <3> HIDE DEF r, t, p, q
    <3>6. r + 0 = r
      BY <3>5
    <3> QED BY <3>3, <3>4, <3>6
  <2>4. CASE ShortPacketMatches /\ Matched + 1 < N
    <3>1. /\ udp_pkg_idx = p.idx /\ udp_pkg_idx' = p.idx + 1 /\ Matched' = Matched + 1
          /\ rst_udp_pkg_num' > 0 /\ faults' = faults + 1
          /\ temp_line_buf' = Append(temp_line_buf, Inserted(p, FALSE))
      <4>1. /\ udp_pkg_idx = p.idx /\ udp_pkg_idx' = udp_pkg_idx + 1
            /\ rst_udp_pkg_num' = rst_udp_pkg_num - 1 /\ faults' = faults + 1
            /\ temp_line_buf' = Append(temp_line_buf, Inserted(p, FALSE))
        BY <1>1, <2>4, Zenon DEF ShortPacketMatches, Insert, Disturb
      <4>2. Matched' = Matched + 1 /\ rst_udp_pkg_num' > 0
        BY <2>4, <4>1, NAssumption DEF Matched, TypeOK
      <4> QED BY <4>1, <4>2, Zenon
    <3>2. /\ Awaited' = p.idx + 1 /\ InARow' = Matched + 1
          /\ Kept' = Append(temp_line_buf, Inserted(p, FALSE)) /\ ~ Pending'
      <4>1. ~ Pending'
        BY <3>1 DEF Pending
      <4> QED BY <3>1, <4>1, Zenon DEF Awaited, InARow, Kept
    <3>3. Account(k)' = Account(k) + k
      <4>1. completed \in Int /\ whole \in Int /\ faults \in Int
        BY DEF TypeOK
      <4>2. /\ Account(2) = completed + 2 * faults + 1
            /\ Account(3) = whole + 3 * faults + 1
        BY <1>1, LoopingAccount
      <4>3. /\ Account(2)' = completed' + 0 + 2 * faults' + 1
            /\ Account(3)' = whole' + 0 + 3 * faults' + 1
        BY <3>2 DEF Account
      <4> QED BY <1>1, <3>1, <4>1, <4>2, <4>3
    <3>4. /\ Continues(p, q) => t + Ends(p) <= r + k
          /\ t <= Gap(k, p, q)
          /\ Ends(p) <= r + k
      <4>1. Matched \in 0 .. p.idx /\ Matched + 1 < N
        BY <1>2, <2>4, <3>1
      <4>2. Append(temp_line_buf, Inserted(p, FALSE)) # <<>>
        BY <1>1, <1>2, InsertedType, AppendedNotEmpty
      <4> HIDE DEF p, q
      <4> QED BY <1>1, <1>2, <3>1, <3>2, <4>1, <4>2, TollShort
    <3> HIDE DEF r, t, p, q
    <3> QED BY <3>3, <3>4
  <2>5. CASE ShortPacketMatches /\ Matched + 1 = N
    <3>1. rst_udp_pkg_num' = 0 /\ faults' = faults + 1
      <4>1. faults' = faults + 1 /\ rst_udp_pkg_num' = rst_udp_pkg_num - 1
        BY <2>5 DEF ShortPacketMatches, Insert, Disturb
      <4>2. rst_udp_pkg_num \in Int
        BY DEF TypeOK
      <4> QED BY <2>5, <4>1, <4>2, NAssumption DEF Matched
    <3>2. Awaited' = 0 /\ InARow' = 0 /\ Kept' = <<>> /\ Pending'
      BY <3>1 DEF Awaited, InARow, Kept, Pending
    <3> DEFINE e == k + (IF k = 2 \/ OneFrame(ShownImage)' THEN 1 ELSE 0)
    <3>3. Account(k)' = Account(k) + e
      <4>1. completed \in Int /\ whole \in Int /\ faults \in Int
        BY DEF TypeOK
      <4>2. /\ Account(2) = completed + 2 * faults + 1
            /\ Account(3) = whole + 3 * faults + 1
        BY <1>1, LoopingAccount
      <4>3. /\ Account(2)' = completed' + 1 + 2 * faults' + 1
            /\ Account(3)' = whole' + (IF OneFrame(ShownImage)' THEN 1 ELSE 0)
                                 + 3 * faults' + 1
        BY <3>2 DEF Account
      <4> QED BY <1>1, <3>1, <4>1, <4>2, <4>3
    <3>4. e \in k .. k + 1 /\ e \in 0 .. 4
      OBVIOUS
    <3>5. r \in 0 .. k
      BY TollType
    <3>6. /\ Continues(p, q) => t + Ends(p) <= r + e
          /\ t <= Gap(k, p, q)
          /\ Ends(p) <= r + e
      <4> HIDE DEF p, q, e, r
      <4> QED BY <1>1, <3>2, <3>4, <3>5, TollShortLast
    <3> HIDE DEF r, t, p, q, e
    <3> QED BY <3>3, <3>4, <3>6
  <2>6. Matched + 1 < N \/ Matched + 1 = N
    BY <1>2, NAssumption
  <2> QED BY <2>1, <2>2, <2>3, <2>4, <2>5, <2>6, Zenon
<1>4. Covers(k, Line, r, Account(k))
  BY <1>1 DEF Solvent
<1>5. r \in 0 .. k /\ t \in 0 .. k /\ Account(k) \in Int
  BY TollType, AccountType
<1>6. Covers(k, Line', t, Account(k)')
  <2> HIDE DEF r, t, p, q
  <2>1. PICK e \in 0 .. 4 :
            /\ Account(k)' = Account(k) + e
            /\ Continues(p, q) => t + Ends(p) <= r + e
            /\ t <= Gap(k, p, q)
            /\ Ends(p) <= r + e
    BY <1>3
  <2>2. /\ Line[1] = p /\ Line[2] = q /\ Tail(Line) = Line'
        /\ Line \in Seq(Packet) /\ Len(Line) > 1
    BY <1>0, ReceiveLine DEF p, q
  <2> QED BY <1>4, <1>5, <2>1, <2>2, CoversTail
<1> QED BY <1>6 DEF Solvent

\* An empty channel: only the frames sent are due.
LEMMA CoversOne ==
    ASSUME NEW k \in {2, 3}, NEW c \in Packet, NEW t \in 0 .. k, NEW d \in Int,
           c.frame + t <= d
    PROVE  Covers(k, <<c>>, t, d)
<1> DEFINE s == <<c>>
           h == [j \in 1 .. 1 |-> k]
           v == [j \in 1 .. 1 |-> c.frame]
<1>1. Len(s) = 1 /\ s[1] = c /\ h[1] = k /\ v[1] = c.frame
  OBVIOUS
<1>2. h \in [1 .. 1 -> 0 .. k] /\ v \in [1 .. 1 -> Int]
  BY DEF Packet
<1> HIDE DEF s, h, v
<1>3. Ledger(k, s, h, v)
  BY <1>1 DEF Ledger
<1>4. v[1] + Least(h[1], t) <= d
  <2>1. c.frame \in Int
    BY DEF Packet
  <2> QED BY <1>1, <2>1 DEF Least
<1>5. Covers(k, s, t, d)
  BY <1>1, <1>2, <1>3, <1>4 DEF Covers
<1> QED BY <1>5 DEF s

\* A return from the function: the account changes by the disturbance only.
LEMMA ReturnAccount ==
    ASSUME NEW k \in {2, 3}, TypeOK, Looping, Return, UNCHANGED <<completed, whole>>
    PROVE  /\ Awaited' = udp_pkg_idx' /\ InARow' = 0 /\ Kept' = <<>>
           /\ faults' = faults => Account(k)' = Account(k)
           /\ Disturb => Account(k)' = Account(k) + k
<1>1. ~ Pending /\ ~ Pending' /\ rst_udp_pkg_num' = N
  BY NAssumption DEF Looping, Pending, Return
<1>2. Awaited' = udp_pkg_idx' /\ InARow' = 0 /\ Kept' = <<>>
  BY <1>1, NAssumption DEF Awaited, InARow, Kept, Matched, Return
<1>3. /\ Account(2) = completed + 2 * faults + 1
      /\ Account(3) = whole + 3 * faults + 1
  BY <1>1, LoopingAccount
<1>4. /\ Account(2)' = completed + 2 * faults' + 1
      /\ Account(3)' = whole + 3 * faults' + 1
  <2>1. completed \in Int /\ whole \in Int
    BY DEF TypeOK
  <2>2. /\ Account(2)' = completed' + 0 + 2 * faults' + 1
        /\ Account(3)' = whole' + 0 + 3 * faults' + 1
    BY <1>1 DEF Account
  <2> QED BY <2>1, <2>2
<1>5. completed \in Int /\ whole \in Int /\ faults \in Int
  BY DEF TypeOK
<1>6. faults' = faults => Account(k)' = Account(k)
  BY <1>3, <1>4
<1>7. Disturb => Account(k)' = Account(k) + k
  <2> SUFFICES ASSUME faults' = faults + 1 PROVE Account(k)' = Account(k) + k
    BY DEF Disturb
  <2> QED BY <1>3, <1>4, <1>5
<1> QED BY <1>2, <1>6, <1>7

\* A return that is a disturbance (RecvFails, or SelectTimesOut in mid-frame).
LEMMA DisturbedSolvent ==
    ASSUME NEW k \in {2, 3}, TypeOK, Solvent(k), bound, Looping, Disturb, Return,
           UNCHANGED <<socket, completed, whole>>
    PROVE  Solvent(k)'
<1> DEFINE r == Toll(k, Line[1], Awaited, InARow, Kept)
           t == Toll(k, Line[1], Awaited', InARow', Kept')
<1>1. Line' = Line
  BY DEF Line, socket
<1>2. Covers(k, Line, r, Account(k))
  BY DEF Solvent
<1>3. r \in 0 .. k /\ t \in 0 .. k /\ Account(k) \in Int
  BY TollType, AccountType
<1>4. Covers(k, Line, t, Account(k) + k)
  <2> HIDE DEF r, t
  <2> QED BY <1>2, <1>3, LineFacts, CoversFront
<1>5. Account(k)' = Account(k) + k
  BY ReturnAccount
<1> QED BY <1>1, <1>4, <1>5 DEF Solvent

\* SelectTimesOut, also the one that is no disturbance: between frames, or when the
\* camera has sent all it will.
LEMMA TimeOutSolvent ==
    ASSUME NEW k \in {2, 3}, TypeOK, RunInv, Sent, Solvent(k), SelectTimesOut
    PROVE  Solvent(k)'
<1>0. /\ bound /\ Looping /\ net = <<>> /\ udp_pkg_idx' = 0 /\ Return
      /\ UNCHANGED <<socket, completed, whole>>
  BY DEF SelectTimesOut
<1>1. CASE Disturb
  BY <1>0, <1>1, DisturbedSolvent
<1>2. ASSUME faults' = faults,
             (temp_line_buf = <<>> /\ udp_pkg_idx = 0) \/ cam.frame = Frames
      PROVE  Solvent(k)'
  <2> DEFINE r == Toll(k, Line[1], Awaited, InARow, Kept)
             t == Toll(k, Line[1], Awaited', InARow', Kept')
  <2>1. Line' = Line /\ Line[1] = cam /\ Line = <<cam>> /\ cam \in Packet
    BY <1>0 DEF Line, socket, TypeOK
  <2>2. Covers(k, Line, r, Account(k))
    BY <1>0 DEF Solvent
  <2>3. r \in 0 .. k /\ t \in 0 .. k /\ Account(k) \in Int
    BY TollType, AccountType
  <2>4. Account(k)' = Account(k) /\ Awaited' = 0 /\ InARow' = 0 /\ Kept' = <<>>
    BY <1>0, <1>2, ReturnAccount
  <2>5. CASE temp_line_buf = <<>> /\ udp_pkg_idx = 0
    <3>1. ~ Pending
      BY <1>0 DEF Looping, Pending
    <3>2. Matched = 0
      BY <1>0, <2>5, NAssumption DEF RunInv, Matched, TypeOK
    <3>3. t = r
      BY <2>4, <2>5, <3>1, <3>2 DEF Awaited, InARow, Kept
    <3> QED BY <2>1, <2>2, <2>4, <3>3 DEF Solvent
  <2>6. CASE cam.frame = Frames /\ cam.idx = 0
    <3>1. t = 0
      <4>1. Toll(k, cam, 0, 0, <<>>) \in 0 .. k /\ Toll(k, cam, 0, 0, <<>>) = 0
        BY <2>1, <2>6, TollType, TollReturned
      <4> QED BY <2>1, <2>4, <4>1
    <3>2. t <= r
      BY <2>3, <3>1
    <3>3. Covers(k, Line, t, Account(k))
      <4> HIDE DEF r, t
      <4> QED BY <2>2, <2>3, <3>2, LineFacts, CoversFront
    <3> QED BY <2>1, <2>4, <3>3 DEF Solvent
  <2>7. CASE cam.frame = Frames /\ Frames = 0
    <3>1. t <= 1
      BY <2>1, <2>4, TollReturned
    <3>2. Account(k) >= 1
      <4>1. ~ Pending
        BY <1>0 DEF Looping, Pending
      <4>2. completed \in Nat /\ whole \in Nat /\ faults \in Nat
        BY DEF TypeOK
      <4>3. /\ Account(2) = completed + 2 * faults + 1
            /\ Account(3) = whole + 3 * faults + 1
        BY <4>1, LoopingAccount
      <4> QED BY <4>2, <4>3
    <3>3. Covers(k, <<cam>>, t, Account(k))
      <4>1. cam.frame + t <= Account(k)
        BY <2>3, <2>7, <3>1, <3>2
      <4> HIDE DEF t
      <4> QED BY <2>1, <2>3, <4>1, CoversOne
    <3> QED BY <2>1, <2>4, <3>3 DEF Solvent
  <2>8. cam.frame = Frames => cam.idx = 0 \/ Frames = 0
    BY DEF Sent
  <2> QED BY <1>2, <2>5, <2>6, <2>7, <2>8, Zenon
<1> QED BY <1>1, <1>2 DEF SelectTimesOut

\* FrameCompletes counts what Pending counted already.
LEMMA CompletesSolvent ==
    ASSUME NEW k \in {2, 3}, TypeOK, Solvent(k), FrameCompletes
    PROVE  Solvent(k)'
<1>1. /\ Pending /\ ~ Pending' /\ Return /\ udp_pkg_idx' = 0 /\ rst_udp_pkg_num' = N
      /\ UNCHANGED <<bound, cam, net, faults>> /\ completed' = completed + 1
      /\ whole' = IF OneFrame(ShownImage) THEN whole + 1 ELSE whole
  BY NAssumption DEF FrameCompletes, Pending, Return, socket
<1>2. Awaited' = 0 /\ InARow' = 0 /\ Kept' = <<>>
  BY <1>1, NAssumption DEF Awaited, InARow, Kept, Matched, Return
<1>3. Awaited = 0 /\ InARow = 0 /\ Kept = <<>>
  BY <1>1 DEF Awaited, InARow, Kept
<1>4. Line' = Line
  BY <1>1 DEF Line
<1>5. Account(k)' = Account(k)
  <2>1. completed \in Int /\ whole \in Int /\ faults \in Int
    BY DEF TypeOK
  <2>2. /\ Account(2) = completed + 1 + 2 * faults + 1
        /\ Account(3) = whole + (IF OneFrame(ShownImage) THEN 1 ELSE 0) + 3 * faults + 1
    BY <1>1 DEF Account
  <2>3. /\ Account(2)' = completed' + 0 + 2 * faults' + 1
        /\ Account(3)' = whole' + 0 + 3 * faults' + 1
    BY <1>1 DEF Account
  <2> QED BY <1>1, <2>1, <2>2, <2>3
<1> QED BY <1>1, <1>2, <1>3, <1>4, <1>5 DEF Solvent

\* A stuttering step.
LEMMA StutterSolvent ==
    ASSUME NEW k \in {2, 3}, TypeOK, Solvent(k), UNCHANGED vars
    PROVE  Solvent(k)'
<1>1. /\ UNCHANGED <<bound, net, cam, udp_pkg_idx, rst_udp_pkg_num, temp_line_buf>>
      /\ UNCHANGED <<completed, whole, faults>>
  BY DEF vars, socket, counters
<1>2. Line' = Line
  BY <1>1 DEF Line
<1> QED BY <1>1, <1>2, ThreadRests DEF Solvent

\* Every step keeps the account solvent.
LEMMA SolventStep ==
    ASSUME NEW k \in {2, 3}
    PROVE  TypeOK /\ RunInv /\ Sent /\ Solvent(k) /\ [Next]_vars => Solvent(k)'
<1> SUFFICES ASSUME TypeOK, RunInv, Sent, Solvent(k), [Next]_vars PROVE Solvent(k)'
  OBVIOUS
<1>0. TypeOK'
  BY TypeStep
<1>1. CASE CameraSends
  BY <1>0, <1>1, SendsSolvent
<1>2. CASE CameraPacketLost
  BY <1>0, <1>2, LostSolvent
<1>3. CASE NetDuplicates
  BY <1>0, <1>3, TwiceSolvent
<1>4. CASE NetReorders
  BY <1>0, <1>4, ReorderSolvent
<1>5. CASE PacketMatches \/ ShortPacketMatches \/ PacketMismatches
  BY <1>0, <1>5, ReceiveSolvent
<1>6. CASE RecvFails
  BY <1>6, DisturbedSolvent DEF RecvFails
<1>7. CASE SelectTimesOut
  BY <1>7, TimeOutSolvent
<1>8. CASE SelectFails
  BY <1>8 DEF SelectFails, Solvent, socket
<1>9. CASE FrameCompletes
  BY <1>9, CompletesSolvent
<1>10. CASE UNCHANGED vars
  BY <1>10, StutterSolvent
<1> QED BY <1>1, <1>2, <1>3, <1>4, <1>5, <1>6, <1>7, <1>8, <1>9, <1>10
        DEF Next, Camera, Network, Listen

\* Nothing is in flight at first.
LEMMA SentInit == Init => Sent
BY BoundsAssumption, NAssumption DEF Init, Sent

\* Joining in mid-frame costs that frame only.
LEMMA SolventInit ==
    ASSUME NEW k \in {2, 3}
    PROVE  Init => Solvent(k)
<1> SUFFICES ASSUME Init PROVE Solvent(k)
  OBVIOUS
<1>1. TypeOK
  BY TypeInit
<1>2. ~ Pending /\ Awaited = 0 /\ InARow = 0 /\ Kept = <<>>
  BY NAssumption DEF Init, Pending, Awaited, InARow, Kept, Matched
<1>3. Line = <<cam>> /\ Line[1] = cam /\ cam \in Packet /\ cam.frame = 0
  BY <1>1 DEF Init, Line, TypeOK
<1>4. Account(k) = 1
  <2>1. /\ Account(2) = completed + 2 * faults + 1
        /\ Account(3) = whole + 3 * faults + 1
    BY <1>1, <1>2, LoopingAccount
  <2>2. completed = 0 /\ whole = 0 /\ faults = 0
    BY DEF Init
  <2> QED BY <2>1, <2>2
<1>5. Toll(k, cam, 0, 0, <<>>) \in 0 .. k /\ Toll(k, cam, 0, 0, <<>>) <= 1
  BY <1>3, TollType, TollReturned
<1>6. Covers(k, <<cam>>, Toll(k, cam, 0, 0, <<>>), 1)
  BY <1>3, <1>5, CoversOne
<1> QED BY <1>2, <1>3, <1>4, <1>6 DEF Solvent

\* The inductive invariant behind ImageBudget.
SolventInv == TypeOK /\ RunInv /\ Sent /\ Solvent(2) /\ Solvent(3)

\* It holds in every state.
LEMMA LedgerInvariant == Spec => []SolventInv
<1>1. Init => SolventInv
  BY TypeInit, RunInit, SentInit, SolventInit DEF SolventInv
<1>2. SolventInv /\ [Next]_vars => SolventInv'
  BY TypeStep, RunStep, SentStep, SolventStep DEF SolventInv
<1> QED BY <1>1, <1>2, PTL DEF Spec

\* The other direction: a covered account is at least the frames sent.
LEMMA CoversDrained ==
    ASSUME NEW k \in {2, 3}, NEW c \in Packet, NEW t \in 0 .. k, NEW d \in Int,
           Covers(k, <<c>>, t, d)
    PROVE  c.frame <= d
<1>1. Len(<<c>>) = 1 /\ <<c>>[1] = c
  OBVIOUS
<1>2. PICK h \in [1 .. 1 -> 0 .. k], v \in [1 .. 1 -> Int] :
          Ledger(k, <<c>>, h, v) /\ v[1] + Least(h[1], t) <= d
  BY <1>1 DEF Covers
<1>3. h[1] = k /\ v[1] = c.frame /\ c.frame \in Int
  BY <1>1, <1>2 DEF Ledger, Packet
<1> QED BY <1>2, <1>3 DEF Least

\* When everything sent has been taken, every frame was handed on except two per
\* disturbance and the one joined, and every frame was shown as a whole picture
\* except three per disturbance and the one joined; for every N, every number of
\* frames, every capacity of the channel and every number of disturbances.
THEOREM DisturbancesBounded == Spec => []ImageBudget
<1>1. SolventInv => ImageBudget
  <2> SUFFICES ASSUME SolventInv, Drained
               PROVE  /\ completed + 2 * faults + 1 >= Frames
                      /\ whole + 3 * faults + 1 >= Frames
    BY DEF ImageBudget
  <2>1. TypeOK /\ ~ Pending /\ bound /\ cam \in Packet /\ cam.frame = Frames
    BY DEF SolventInv, Drained, Pending, TypeOK
  <2>2. Line = <<cam>>
    BY <2>1 DEF Drained, Line
  <2>3. ASSUME NEW k \in {2, 3} PROVE Frames <= Account(k)
    <3>1. Toll(k, Line[1], Awaited, InARow, Kept) \in 0 .. k /\ Account(k) \in Int
      BY <2>1, TollType, AccountType
    <3>2. Covers(k, <<cam>>, Toll(k, Line[1], Awaited, InARow, Kept), Account(k))
      BY <2>1, <2>2 DEF SolventInv, Solvent
    <3> QED BY <2>1, <3>1, <3>2, CoversDrained
  <2>4. /\ Account(2) = completed + 2 * faults + 1
        /\ Account(3) = whole + 3 * faults + 1
    BY <2>1, LoopingAccount
  <2> QED BY <2>1, <2>3, <2>4, BoundsAssumption DEF TypeOK
<1> QED BY <1>1, LedgerInvariant, PTL
=============================================================================
