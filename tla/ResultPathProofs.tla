--------------------------- MODULE ResultPathProofs ---------------------------
(***************************************************************************)
(* Proofs about ResultPath, for every number of pictures and duplicates,    *)
(* whatever the server answers and whatever header.flag holds.              *)
(***************************************************************************)
EXTENDS ResultPath, TLAPS

\* An answer comes after a picture, a picture after the Capture button, and
\* the button after OnInitDialog.
AfterCapture ==
    /\ TakesMessages => edit_box
    /\ asked > 0 => ui = "capturing"
    /\ answered <= asked
    /\ indi.n <= answered
    /\ rpc \in {"send", "text", "waiting", "crashed"} => indi.n > 0

\* Results come in the order of their pictures.
InOrder ==
    /\ \A i \in DOMAIN answers : indi.n < answers[i].n /\ answers[i].n <= answered
    /\ \A i, j \in DOMAIN answers : i < j => answers[i].n < answers[j].n
    /\ text <= indi.n

\* Holds of a datagram wherever it is.
Follows(d) == Ahead(d.n) => rpc \in {"text", "waiting"} /\ d.n = indi.n

AllFollow ==
    /\ \A d \in net \cup blocks \cup labels.shows : Follows(d)
    /\ \A i \in DOMAIN mainQueue : Follows(mainQueue[i])

IInv == /\ TypeOK /\ AfterCapture /\ EditBoxReady /\ InOrder /\ AllFollow
        /\ LabelsTogether

-----------------------------------------------------------------------------
LEMMA InitIInv == Init => IInv
<1> SUFFICES ASSUME Init PROVE IInv
  OBVIOUS
<1> USE BoundsAssumption DEF Init
<1>1. TypeOK
  <2>1. labels \in [shows : SUBSET Datagram, gender : Int]
    OBVIOUS
  <2>2. answers \in Seq(Individual) /\ mainQueue \in Seq(Datagram)
    OBVIOUS
  <2>3. text \in 0 .. MaxPictures /\ asked \in 0 .. MaxPictures
        /\ answered \in 0 .. MaxPictures /\ duplicates \in 0 .. MaxDuplicates
    OBVIOUS
  <2>4. net \subseteq Datagram /\ blocks \subseteq Datagram
    OBVIOUS
  <2>5. indi \in Individual \cup {[n |-> 0, is |-> Nobody]}
    OBVIOUS
  <2> QED BY <2>1, <2>2, <2>3, <2>4, <2>5, Zenon DEF TypeOK
<1>2. AfterCapture /\ EditBoxReady /\ InOrder /\ LabelsTogether
  BY DEF AfterCapture, EditBoxReady, InOrder, LabelsTogether, TakesMessages
<1>3. AllFollow
  BY DEF AllFollow
<1> QED BY <1>1, <1>2, <1>3 DEF IInv

\* What happens elsewhere leaves the datagrams where they are.
LEMMA StillFollow ==
    ASSUME TypeOK, AllFollow, UNCHANGED <<net, blocks, mainQueue, labels>>,
           \A d \in Datagram : Follows(d) => Follows(d)'
    PROVE  AllFollow'
<1>1. \A d \in net \cup blocks \cup labels.shows : d \in Datagram
  BY DEF TypeOK
<1>2. \A i \in DOMAIN mainQueue : mainQueue[i] \in Datagram
  BY DEF TypeOK
<1>3. \A d \in net' \cup blocks' \cup labels.shows' : Follows(d)'
  BY <1>1 DEF AllFollow
<1>4. \A i \in DOMAIN mainQueue' : Follows(mainQueue[i])'
  BY <1>2 DEF AllFollow, Follows, Ahead
<1> QED BY <1>3, <1>4 DEF AllFollow

LEMMA Numbers ==
    ASSUME TypeOK
    PROVE  /\ text \in Nat /\ indi.n \in Nat /\ answered \in Nat /\ asked \in Nat
           /\ \A i \in DOMAIN answers : answers[i].n \in Nat
<1>1. text \in Nat /\ answered \in Nat /\ asked \in Nat
  BY BoundsAssumption DEF TypeOK
<1>2. indi.n \in Nat
  <2>1. CASE indi \in Individual
    BY <2>1 DEF Individual, Picture
  <2>2. CASE indi = [n |-> 0, is |-> Nobody]
    BY <2>2
  <2> QED BY <2>1, <2>2 DEF TypeOK
<1>3. ASSUME NEW i \in DOMAIN answers PROVE answers[i].n \in Nat
  <2>1. answers[i] \in Individual
    BY DEF TypeOK
  <2> QED BY <2>1 DEF Individual, Picture
<1> QED BY <1>1, <1>2, <1>3

-----------------------------------------------------------------------------
(* The dialog's thread.                                                     *)

LEMMA DialogStep == IInv /\ (Dialog \/ Capture) => IInv'
<1> SUFFICES ASSUME IInv, Dialog \/ Capture PROVE IInv'
  OBVIOUS
<1> USE BoundsAssumption DEF IInv, TakesMessages, server, udp, app, receiver, dialog
<1>1. CASE Construct
  <2>1. TypeOK' /\ AfterCapture' /\ EditBoxReady' /\ InOrder' /\ LabelsTogether'
    BY <1>1 DEF Construct, TypeOK, AfterCapture, EditBoxReady, InOrder, LabelsTogether
  <2>2. indi.n = 0 /\ text = 0
    BY <1>1 DEF Construct, TypeOK, AfterCapture, InOrder, Individual, Picture
  <2>3. ASSUME NEW d \in Datagram, Follows(d) PROVE Follows(d)'
    BY <1>1, <2>2, <2>3 DEF Construct, Follows, Ahead, Datagram, Picture
  <2>4. AllFollow'
    BY <1>1, <2>3, StillFollow DEF Construct
  <2> QED BY <2>1, <2>4
<1>2. CASE AssignEditBox \/ Capture
  <2>1. TypeOK' /\ AfterCapture' /\ EditBoxReady' /\ InOrder' /\ LabelsTogether'
    BY <1>2 DEF AssignEditBox, Capture, TypeOK, AfterCapture, EditBoxReady, InOrder,
                LabelsTogether
  <2>2. AllFollow'
    BY <1>2 DEF AssignEditBox, Capture, AllFollow, Follows, Ahead
  <2> QED BY <2>1, <2>2
<1>3. CASE TakeSetText
  <2>0. indi.n \in Picture
    BY <1>3 DEF TakeSetText, TypeOK, AfterCapture, Individual, Picture
  <2>1. TypeOK' /\ AfterCapture' /\ EditBoxReady' /\ InOrder' /\ LabelsTogether'
    BY <1>3, <2>0 DEF TakeSetText, TypeOK, AfterCapture, EditBoxReady, InOrder,
                LabelsTogether, Picture
  <2>2. ASSUME NEW d \in Datagram, Follows(d) PROVE Follows(d)'
    BY <1>3, <2>0, <2>2, Numbers DEF TakeSetText, InOrder, Follows, Ahead, Datagram, Picture
  <2>3. AllFollow'
    BY <1>3, <2>2, StillFollow DEF TakeSetText
  <2> QED BY <2>1, <2>3
<1> QED BY <1>1, <1>2, <1>3 DEF Dialog

-----------------------------------------------------------------------------
(* Pictures and answers.                                                    *)

LEMMA ServerStep == IInv /\ (SendPicture \/ Answer \/ ConnectionDies) => IInv'
<1> SUFFICES ASSUME IInv, SendPicture \/ Answer \/ ConnectionDies PROVE IInv'
  OBVIOUS
<1> USE BoundsAssumption DEF IInv, TakesMessages, udp, app, receiver, dialog
<1>0. UNCHANGED <<dialog, receiver, udp, app>>
  BY DEF SendPicture, Answer, ConnectionDies
<1>1. EditBoxReady' /\ LabelsTogether' /\ AllFollow'
  BY <1>0 DEF EditBoxReady, LabelsTogether, AllFollow, Follows, Ahead
<1>2. CASE SendPicture
  <2>1. TypeOK' /\ AfterCapture' /\ InOrder'
    BY <1>2 DEF SendPicture, TypeOK, AfterCapture, InOrder
  <2> QED BY <1>1, <2>1
<1>3. CASE Answer
  <2> PICK a \in Answers : answers' = Append(answers, [n |-> answered', is |-> a])
    BY <1>3 DEF Answer
  <2>1. /\ answered' \in Picture /\ answered' > answered /\ answered' <= asked
        /\ asked' = asked
    BY <1>3 DEF Answer, TypeOK, Picture
  <2>2. TypeOK'
    BY <1>3, <2>1 DEF Answer, TypeOK, Individual, Picture
  <2>3. AfterCapture'
    BY <1>3, <2>1 DEF Answer, TypeOK, AfterCapture, Individual, Picture
  <2>4. \A i \in DOMAIN answers' :
            answers'[i].n = IF i <= Len(answers) THEN answers[i].n ELSE answered'
    BY DEF TypeOK
  <2>5. indi.n \in Nat /\ \A i \in DOMAIN answers : answers[i].n \in Nat
    BY Numbers
  <2>6. /\ Len(answers') = Len(answers) + 1 /\ DOMAIN answers' = 1 .. Len(answers')
        /\ DOMAIN answers = 1 .. Len(answers) /\ Len(answers) \in Nat
    BY DEF TypeOK
  <2>7. InOrder'
    <3>1. ASSUME NEW i \in DOMAIN answers'
          PROVE  indi.n < answers'[i].n /\ answers'[i].n <= answered'
      <4>1. CASE i <= Len(answers)
        BY <2>1, <2>4, <2>5, <2>6, <4>1, Numbers DEF InOrder, Picture
      <4>2. CASE ~(i <= Len(answers))
        BY <2>1, <2>4, <2>5, <2>6, <4>2, Numbers DEF AfterCapture, Picture
      <4> QED BY <4>1, <4>2
    <3>2. ASSUME NEW i \in DOMAIN answers', NEW j \in DOMAIN answers', i < j
          PROVE  answers'[i].n < answers'[j].n
      <4>1. i \in DOMAIN answers /\ answers'[i].n = answers[i].n
        BY <2>4, <2>6, <3>2
      <4>2. CASE j <= Len(answers)
        BY <2>4, <2>6, <3>2, <4>1, <4>2 DEF InOrder
      <4>3. CASE ~(j <= Len(answers))
        BY <2>1, <2>4, <2>5, <2>6, <4>1, <4>3, Numbers DEF InOrder, Picture
      <4> QED BY <4>2, <4>3
    <3> QED BY <1>0, <3>1, <3>2, Numbers DEF InOrder
  <2> QED BY <1>1, <2>2, <2>3, <2>7
<1>4. CASE ConnectionDies
  <2>1. TypeOK' /\ AfterCapture' /\ InOrder'
    BY <1>4 DEF ConnectionDies, TypeOK, AfterCapture, InOrder
  <2> QED BY <1>1, <2>1
<1> QED BY <1>2, <1>3, <1>4

-----------------------------------------------------------------------------
(* The receiver.                                                            *)

LEMMA ReceiverStep == IInv /\ Receiver => IInv'
<1> SUFFICES ASSUME IInv, Receiver PROVE IInv'
  OBVIOUS
<1> USE BoundsAssumption, AnswersAssumption
        DEF IInv, TakesMessages, server, udp, app, receiver, dialog
<1>1. CASE Receive
  <2>1. /\ answers \in Seq(Individual) /\ answers # <<>> /\ answers' = Tail(answers)
        /\ indi' = answers[1] /\ indi' \in Individual
        /\ UNCHANGED <<asked, answered, dialog, udp, app>>
    BY <1>1 DEF Receive, TypeOK
  <2>2. /\ rpc' \in {"receive", "text", "send"} /\ rpc = "receive"
        /\ indi'.n \in Picture
    BY <1>1, <2>1 DEF Receive, Individual
  <2>3. TypeOK'
    BY <2>1, <2>2 DEF TypeOK
  <2>4. AfterCapture' /\ EditBoxReady' /\ LabelsTogether'
    BY <2>1, <2>2
       DEF AfterCapture, InOrder, EditBoxReady, LabelsTogether, Picture
  <2>5. /\ Len(answers') = Len(answers) - 1 /\ Len(answers) > 0
        /\ DOMAIN answers' = 1 .. Len(answers') /\ DOMAIN answers = 1 .. Len(answers)
        /\ \A i \in DOMAIN answers' : answers'[i] = answers[i + 1]
    BY <2>1
  <2>6. /\ text \in Nat /\ indi.n \in Nat
        /\ \A i \in DOMAIN answers : answers[i].n \in Nat
    BY Numbers
  <2>7. InOrder'
    <3>1. /\ indi'.n = answers[1].n /\ 1 \in DOMAIN answers
          /\ text' = text /\ answered' = answered
      BY <2>1, <2>5
    <3>2. text' <= indi'.n
      BY <2>6, <3>1 DEF InOrder
    <3>3. ASSUME NEW i \in DOMAIN answers'
          PROVE  i + 1 \in DOMAIN answers /\ 1 < i + 1 /\ answers'[i] = answers[i + 1]
      BY <2>5, <3>3
    <3>4. ASSUME NEW i \in DOMAIN answers'
          PROVE  indi'.n < answers'[i].n /\ answers'[i].n <= answered'
      BY <3>1, <3>3, <3>4 DEF InOrder
    <3>5. ASSUME NEW i \in DOMAIN answers', NEW j \in DOMAIN answers', i < j
          PROVE  answers'[i].n < answers'[j].n
      <4>1. i + 1 < j + 1
        BY <2>5, <3>5
      <4> QED BY <3>3, <4>1 DEF InOrder
    <3> QED BY <3>2, <3>4, <3>5 DEF InOrder
  <2>8. ASSUME NEW d \in Datagram, Follows(d) PROVE Follows(d)'
    BY <2>1, <2>2, <2>8 DEF Follows, Ahead
  <2>9. AllFollow'
    BY <2>1, <2>8, StillFollow
  <2> QED BY <2>3, <2>4, <2>7, <2>9
<1>2. CASE SendMsg
  <2>0. indi \in Individual
    BY <1>2 DEF SendMsg, TypeOK, AfterCapture
  <2>1. TypeOK'
    BY <1>2, <2>0 DEF SendMsg, TypeOK, Individual, Datagram
  <2>2. AfterCapture' /\ EditBoxReady' /\ LabelsTogether' /\ InOrder'
    BY <1>2 DEF SendMsg, AfterCapture, EditBoxReady, LabelsTogether, InOrder
  <2>3. ASSUME NEW d \in Datagram, Follows(d) PROVE Follows(d)'
    BY <1>2, <2>3 DEF SendMsg, Follows, Ahead
  <2>4. \A d \in net' : d \in net \/ d.n = indi.n
    BY <1>2 DEF SendMsg
  <2>5. \A d \in net' : Follows(d)'
    <3>1. \A d \in net : d \in Datagram /\ Follows(d)
      BY DEF TypeOK, AllFollow
    <3>2. \A d : d.n = indi.n => Follows(d)'
      BY <1>2 DEF SendMsg, Follows
    <3> QED BY <2>3, <2>4, <3>1, <3>2
  <2>6. AllFollow'
    <3>1. \A d \in blocks \cup labels.shows : d \in Datagram /\ Follows(d)
      BY DEF TypeOK, AllFollow
    <3>2. \A i \in DOMAIN mainQueue : mainQueue[i] \in Datagram /\ Follows(mainQueue[i])
      BY DEF TypeOK, AllFollow
    <3>3. UNCHANGED <<blocks, mainQueue, labels, text>>
      BY <1>2 DEF SendMsg
    <3>4. \A i \in DOMAIN mainQueue : Follows(mainQueue[i])'
      BY <1>2, <3>2 DEF SendMsg, Follows, Ahead
    <3> QED BY <2>3, <2>5, <3>1, <3>3, <3>4 DEF AllFollow
  <2> QED BY <2>1, <2>2, <2>6
<1>3. CASE SetWindowText
  <2>1. edit_box /\ rpc = "text" /\ rpc' = "waiting"
    BY <1>3 DEF SetWindowText, TypeOK, AfterCapture, Individual, Picture
  <2>2. TypeOK' /\ AfterCapture' /\ EditBoxReady' /\ LabelsTogether' /\ InOrder'
    BY <1>3, <2>1
       DEF SetWindowText, TypeOK, AfterCapture, EditBoxReady, LabelsTogether, InOrder
  <2>3. AllFollow'
    BY <1>3, <2>1 DEF SetWindowText, AllFollow, Follows, Ahead
  <2> QED BY <2>2, <2>3
<1> QED BY <1>1, <1>2, <1>3 DEF Receiver, ReceiveRst

-----------------------------------------------------------------------------
(* The network and the phone.                                               *)

Phone == Deliver \/ Lose \/ SetLabels \/ \E d \in blocks : DidReceive(d)

LEMMA PhoneStep == IInv /\ Phone => IInv'
<1> SUFFICES ASSUME IInv, Phone PROVE IInv'
  OBVIOUS
<1> USE BoundsAssumption DEF IInv, TakesMessages, server, udp, app, receiver, dialog
<1>0. UNCHANGED <<dialog, server, receiver>>
  BY DEF Phone, Deliver, Lose, SetLabels, DidReceive
<1>1. AfterCapture' /\ EditBoxReady' /\ InOrder'
  BY <1>0 DEF AfterCapture, EditBoxReady, InOrder
<1>2. \A d : Follows(d)' <=> Follows(d)
  BY <1>0 DEF Follows, Ahead
<1>3. CASE Deliver \/ Lose
  <2>1. net' \subseteq net /\ blocks' \subseteq net \cup blocks /\ UNCHANGED <<mainQueue, phone, labels>>
    BY <1>3 DEF Deliver, Lose
  <2>2. duplicates' \in 0 .. MaxDuplicates
    BY <1>3 DEF Deliver, Lose, TypeOK
  <2>3. TypeOK' /\ LabelsTogether'
    BY <1>0, <2>1, <2>2 DEF TypeOK, LabelsTogether
  <2>4. AllFollow'
    BY <1>2, <2>1 DEF AllFollow
  <2> QED BY <1>1, <2>3, <2>4
<1>4. CASE \E d \in blocks : DidReceive(d)
  <2> PICK d \in blocks : DidReceive(d)
    BY <1>4
  <2>1. /\ UNCHANGED <<net, duplicates, labels>> /\ blocks' \subseteq blocks
        /\ mainQueue' = mainQueue \/ mainQueue' = Append(mainQueue, d)
        /\ phone' \in {"up", "trapped"}
    BY DEF DidReceive
  <2>2. d \in Datagram /\ Follows(d) /\ mainQueue \in Seq(Datagram)
    BY DEF TypeOK, AllFollow
  <2>3. TypeOK' /\ LabelsTogether'
    <3>1. mainQueue' \in Seq(Datagram)
      BY <2>1, <2>2
    <3>2. net' \subseteq Datagram /\ blocks' \subseteq Datagram
      BY <2>1 DEF TypeOK
    <3>3. LabelsTogether'
      BY <2>1 DEF LabelsTogether
    <3> QED BY <1>0, <2>1, <3>1, <3>2, <3>3 DEF TypeOK
  <2>4. \A i \in DOMAIN mainQueue' :
            \/ i \in DOMAIN mainQueue /\ mainQueue'[i] = mainQueue[i]
            \/ mainQueue'[i] = d
    BY <2>1, <2>2
  <2>5. AllFollow'
    BY <1>2, <2>1, <2>2, <2>4 DEF AllFollow
  <2> QED BY <1>1, <2>3, <2>5
<1>5. CASE SetLabels
  <2> DEFINE d == Head(mainQueue)
  <2>1. /\ mainQueue \in Seq(Datagram) /\ mainQueue # <<>> /\ mainQueue' = Tail(mainQueue)
        /\ UNCHANGED <<net, duplicates, blocks, phone>>
    BY <1>5 DEF SetLabels, TypeOK
  <2>2. d \in Datagram /\ d = mainQueue[1] /\ 1 \in DOMAIN mainQueue
    BY <2>1
  <2>3. labels' = [shows |-> {d},
                   gender |-> IF d.is.gender \in {1, 2} THEN d.is.gender ELSE labels.gender]
    BY <1>5 DEF SetLabels
  <2> HIDE DEF d
  <2>4. d.is.gender \in Int /\ labels.gender \in Int
    BY <2>2, AnswersAssumption DEF Datagram, TypeOK
  <2>5. TypeOK'
    <3>1. labels' \in [shows : SUBSET Datagram, gender : Int]
      BY <2>2, <2>3, <2>4
    <3>2. mainQueue' \in Seq(Datagram)
      BY <2>1
    <3> QED BY <1>0, <2>1, <3>1, <3>2 DEF TypeOK
  <2>6. LabelsTogether'
    BY <2>3 DEF LabelsTogether
  <2>7. \A i \in DOMAIN mainQueue' : i + 1 \in DOMAIN mainQueue /\ mainQueue'[i] = mainQueue[i + 1]
    BY <2>1
  <2>8. labels'.shows = {d}
    BY <2>3
  <2>9. AllFollow'
    BY <1>2, <2>1, <2>2, <2>7, <2>8 DEF AllFollow
  <2> QED BY <1>1, <2>5, <2>6, <2>9
<1> QED BY <1>3, <1>4, <1>5 DEF Phone

-----------------------------------------------------------------------------
THEOREM Invariance == Spec => []IInv
<1>1. IInv /\ [Next]_vars => IInv'
  <2> SUFFICES ASSUME IInv, [Next]_vars PROVE IInv'
    OBVIOUS
  <2>1. CASE Next
    BY <2>1, DialogStep, ServerStep, ReceiverStep, PhoneStep DEF Next, Phone
  <2>2. CASE UNCHANGED vars
    <3>1. UNCHANGED <<dialog, server, receiver, udp, app>>
      BY <2>2 DEF vars
    <3> QED
      BY <3>1 DEF dialog, server, receiver, udp, app, IInv, TypeOK, AfterCapture,
                  EditBoxReady, InOrder, AllFollow, Follows, Ahead, LabelsTogether,
                  TakesMessages
  <2> QED BY <2>1, <2>2
<1> QED BY <1>1, InitIInv, PTL DEF Spec

\* The variables of the result path keep their types.
THEOREM TypeCorrect == Spec => []TypeOK
<1>1. IInv => TypeOK
  BY DEF IInv
<1> QED BY <1>1, Invariance, PTL

\* ReceiveRst never uses an edit box that OnInitDialog has not assigned yet
\* (faceDlgDlg.cpp:109, ContentRendering.cpp:489).
THEOREM EditBoxAssigned == Spec => []EditBoxReady
<1>1. IInv => EditBoxReady
  BY DEF IInv
<1> QED BY <1>1, Invariance, PTL

\* The phone is one result ahead of the dialog at most
\* (ContentRendering.cpp:486, 489).
THEOREM PhoneNearDialog == Spec => []PhoneFollows
<1>1. IInv => PhoneFollows
  BY DEF IInv, AllFollow, Follows, PhoneFollows
<1> QED BY <1>1, Invariance, PTL

\* No person with a gender is shown with another one's
\* (ViewController.swift:53-73).
THEOREM LabelsOfOne == Spec => []LabelsTogether
<1>1. IInv => LabelsTogether
  BY DEF IInv
<1> QED BY <1>1, Invariance, PTL

\* Whenever SetWindowText waits, the dialog's thread is past OnInitDialog and takes
\* its message (faceDlgDlg.cpp:108, ContentRendering.cpp:489).
THEOREM NoMutualWait == Spec => []NeverStuck
<1>1. IInv => NeverStuck
  <2> SUFFICES ASSUME IInv, rpc = "waiting" PROVE ui = "capturing"
    BY DEF NeverStuck, TakesMessages
  <2>1. indi.n > 0 /\ indi.n <= answered /\ answered <= asked
    BY DEF IInv, AfterCapture
  <2>2. asked > 0
    BY <2>1, Numbers DEF IInv
  <2> QED BY <2>2 DEF IInv, AfterCapture
<1> QED BY <1>1, Invariance, PTL

\* Whatever answers are lost with their connections, a result that is written is
\* newer than the one it replaces (ContentRendering.cpp:489).
THEOREM TextNeverAges == Spec => NewerText
<1>1. IInv /\ [Next]_vars => [text' # text => text' > text]_vars
  <2> SUFFICES ASSUME IInv, Next, text' # text PROVE text' > text
    BY DEF vars, dialog
  <2>1. TakeSetText
    BY DEF Next, Dialog, Receiver, ReceiveRst, Construct, AssignEditBox, Capture,
           SendPicture, Answer, ConnectionDies, Receive, SendMsg, SetWindowText,
           Deliver, Lose, SetLabels, DidReceive, dialog
  <2>2. text' = indi.n /\ text <= indi.n
    BY <2>1 DEF TakeSetText, IInv, InOrder
  <2> QED BY <2>2, Numbers DEF IInv
<1> QED BY <1>1, Invariance, PTL DEF Spec, NewerText
=============================================================================
