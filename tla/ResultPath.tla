------------------------------ MODULE ResultPath ------------------------------
(***************************************************************************)
(* What becomes of the server's answer to a picture: cmd_process hands it   *)
(* to ContentRendering::ReceiveRst on the receiver thread, which sends a    *)
(* datagram to the phone and writes the dialog's edit box. SetWindowText    *)
(* from another thread waits until the dialog's thread takes the message.   *)
(* The phone handles datagrams on a concurrent queue and sets its labels on *)
(* the main queue. CloudSession has the connection the answers come over.   *)
(***************************************************************************)
EXTENDS Integers, Sequences, FiniteSets

CONSTANTS
    MaxPictures,   \* bound: pictures sent to the server
    MaxDuplicates, \* bound: datagrams the network repeats
    Answers,       \* what the server may say of a picture
    Flags          \* what the uninitialised header.flag may hold

\* An id of -1 is "none" and -2 is "unknown".
ASSUME BoundsAssumption == MaxPictures \in Nat /\ MaxDuplicates \in Nat
ASSUME AnswersAssumption ==
    Answers \subseteq [kind : {"none", "unknown", "person"}, gender : Int, age : Int]
ASSUME FlagsAssumption == Flags \subseteq Int

Picture    == 1 .. MaxPictures
Nobody     == [kind |-> "none", gender |-> -1, age |-> -1]
Individual == [n : Picture, is : Answers]
Datagram   == [n : Picture, is : Answers, flag : Flags]

VARIABLES
    ui,         \* where the dialog's thread is
    edit_box,   \* has _edit_box been assigned?
    text,       \* the result the edit box shows, 0 for the initial text
    asked,      \* pictures sent
    answered,   \* pictures the server is done with
    answers,    \* answers on the way to the client
    rpc,        \* where the receiver is
    indi,       \* the result it has in hand, or had last
    net,        \* datagrams on their way to the phone
    duplicates, \* datagrams repeated so far
    blocks,     \* calls of didReceive waiting on the concurrent queue
    mainQueue,  \* blocks waiting on the phone's main queue
    phone,      \* "up", or "trapped" by an arithmetic overflow
    labels      \* whom the name label shows, if anybody, and the gender label

dialog   == <<ui, edit_box, text>>
server   == <<asked, answered, answers>>
receiver == <<rpc, indi>>
udp      == <<net, duplicates>>
app      == <<blocks, mainQueue, phone, labels>>
vars     == <<dialog, server, receiver, udp, app>>

Init ==
    /\ ui = "constructing" /\ edit_box = FALSE /\ text = 0
    /\ asked = 0 /\ answered = 0 /\ answers = <<>>
    /\ rpc = "none" /\ indi = [n |-> 0, is |-> Nobody]
    /\ net = {} /\ duplicates = 0
    /\ blocks = {} /\ mainQueue = <<>> /\ phone = "up"
    /\ labels = [shows |-> {}, gender |-> 1]

-----------------------------------------------------------------------------
(* The dialog. OnInitDialog takes no messages; afterwards its thread does.  *)

\* The constructor of ContentRendering, which makes the CloudClient and so
\* starts the receiver.
Construct ==
    /\ ui = "constructing" /\ ui' = "initialising"
    /\ rpc' = "receive"
    /\ UNCHANGED <<edit_box, text, server, indi, udp, app>>

\* Mutant: the edit box is looked up when it is first needed by the dialog.
AssignEditBox_Later ==
    /\ ui = "initialising" /\ ui' = "idle"
    /\ UNCHANGED <<edit_box, text, server, receiver, udp, app>>

\* The rest of OnInitDialog.
AssignEditBox ==
    /\ ui = "initialising" /\ ui' = "idle"
    /\ edit_box' = TRUE
    /\ UNCHANGED <<text, server, receiver, udp, app>>

\* The Capture button. Pictures are sent from here on.
Capture ==
    /\ ui = "idle" /\ ui' = "capturing"
    /\ UNCHANGED <<edit_box, text, server, receiver, udp, app>>

TakesMessages == ui \in {"idle", "capturing"}

\* Mutant: capturing keeps the dialog's thread busy.
TakeSetText_Busy ==
    /\ rpc = "waiting" /\ rpc' = "receive"
    /\ ui = "idle"
    /\ text' = indi.n
    /\ UNCHANGED <<ui, edit_box, server, indi, udp, app>>

\* The dialog's thread takes WM_SETTEXT, and SetWindowText returns. Invalidate
\* and _img_sent have no effect on what follows.
TakeSetText ==
    /\ rpc = "waiting" /\ rpc' = "receive"
    /\ TakesMessages
    /\ text' = indi.n
    /\ UNCHANGED <<ui, edit_box, server, indi, udp, app>>

-----------------------------------------------------------------------------
(* Pictures and answers. The server answers each picture once at most, in   *)
(* order; a connection that dies takes its answers with it.                 *)

\* Mutant: sends once more than it may.
SendPicture_OnceMore ==
    /\ ui = "capturing" /\ asked <= MaxPictures
    /\ asked' = asked + 1
    /\ UNCHANGED <<answered, answers, dialog, receiver, udp, app>>

SendPicture ==
    /\ ui = "capturing" /\ asked < MaxPictures
    /\ asked' = asked + 1
    /\ UNCHANGED <<answered, answers, dialog, receiver, udp, app>>

Answer ==
    /\ answered < asked
    /\ answered' \in answered + 1 .. asked
    /\ \E a \in Answers : answers' = Append(answers, [n |-> answered', is |-> a])
    /\ UNCHANGED <<asked, dialog, receiver, udp, app>>

ConnectionDies ==
    /\ answers # <<>> /\ answers' = <<>>
    /\ UNCHANGED <<asked, answered, dialog, receiver, udp, app>>

-----------------------------------------------------------------------------
(* The receiver.                                                            *)

\* Receive and the first tests of ReceiveRst.
Receive ==
    /\ rpc = "receive" /\ answers # <<>>
    /\ answers' = Tail(answers)
    /\ indi' = Head(answers)
    /\ rpc' = CASE Head(answers).is.kind = "none"    -> "receive"
                  [] Head(answers).is.kind = "unknown" -> "text"
                  [] Head(answers).is.kind = "person"  -> "send"
    /\ UNCHANGED <<asked, answered, dialog, udp, app>>

\* SendMsg, whose failure ReceiveRst ignores. Nothing has set header.flag.
SendMsg ==
    /\ rpc = "send" /\ rpc' = "text"
    /\ \/ \E f \in Flags :
             net' = net \cup {[n |-> indi.n, is |-> indi.is, flag |-> f]}
       \/ UNCHANGED net
    /\ UNCHANGED <<indi, duplicates, dialog, server, app>>

\* Mutant: the message is posted and not waited for, and a full queue drops it.
SetWindowText_Posts ==
    /\ rpc = "text" /\ rpc' = "receive"
    /\ text' \in {text, indi.n}
    /\ UNCHANGED <<ui, edit_box, indi, server, udp, app>>

\* SetWindowText through a pointer nobody has assigned ends the program.
SetWindowText ==
    /\ rpc = "text" /\ rpc' = IF edit_box THEN "waiting" ELSE "crashed"
    /\ UNCHANGED <<indi, dialog, server, udp, app>>

ReceiveRst == SendMsg \/ SetWindowText

-----------------------------------------------------------------------------
(* The network, and the phone: GCDAsyncUdpSocket makes a block of each      *)
(* datagram, and the blocks of a concurrent queue finish in any order.      *)

Deliver ==
    /\ \E d \in net :
          /\ blocks' = blocks \cup {d}
          /\ \/ net' = net \ {d} /\ UNCHANGED duplicates
             \/ /\ duplicates < MaxDuplicates /\ duplicates' = duplicates + 1
                /\ UNCHANGED net
    /\ UNCHANGED <<mainQueue, phone, labels, dialog, server, receiver>>

Lose ==
    /\ \E d \in net : net' = net \ {d}
    /\ UNCHANGED <<duplicates, dialog, server, receiver, app>>

\* toInt32 adds up bytes in an Int32: the top byte of a negative number
\* overflows it.
Overflows(d) == d.flag < 0 \/ d.is.age < 0 \/ d.is.gender < 0

\* Mutant: the delegate's own thread sets the gender.
DidReceive_SetsGender(d) ==
    /\ phone = "up"
    /\ d \in blocks /\ blocks' = blocks \ {d}
    /\ \/ Overflows(d) /\ phone' = "trapped" /\ UNCHANGED <<mainQueue, labels>>
       \/ /\ ~Overflows(d)
          /\ mainQueue' = Append(mainQueue, d)
          /\ labels' = [labels EXCEPT !.gender =
                           IF d.is.gender \in {1, 2} THEN d.is.gender ELSE @]
          /\ UNCHANGED phone
    /\ UNCHANGED <<dialog, server, receiver, udp>>

\* Mutant: waits for the main queue to be empty, and gives up if it is not.
DidReceive_GivesUp(d) ==
    /\ phone = "up"
    /\ d \in blocks /\ blocks' = blocks \ {d}
    /\ \/ Overflows(d) /\ phone' = "trapped" /\ UNCHANGED mainQueue
       \/ /\ ~Overflows(d) /\ UNCHANGED phone
          /\ mainQueue' = IF mainQueue = <<>> THEN <<d>> ELSE mainQueue
    /\ UNCHANGED <<labels, dialog, server, receiver, udp>>

DidReceive(d) ==
    /\ phone = "up"
    /\ d \in blocks /\ blocks' = blocks \ {d}
    /\ \/ Overflows(d) /\ phone' = "trapped" /\ UNCHANGED mainQueue
       \/ ~Overflows(d) /\ mainQueue' = Append(mainQueue, d) /\ UNCHANGED phone
    /\ UNCHANGED <<labels, dialog, server, receiver, udp>>

\* The block on the main queue: another gender than 1 and 2 leaves the label.
SetLabels ==
    /\ phone = "up" /\ mainQueue # <<>>
    /\ mainQueue' = Tail(mainQueue)
    /\ LET d == Head(mainQueue)
       IN  labels' = [shows |-> {d},
                      gender |-> IF d.is.gender \in {1, 2} THEN d.is.gender
                                                           ELSE labels.gender]
    /\ UNCHANGED <<blocks, phone, dialog, server, receiver, udp>>

-----------------------------------------------------------------------------
Dialog   == Construct \/ AssignEditBox \/ TakeSetText
Receiver == Receive \/ ReceiveRst

Next == \/ Dialog \/ Capture
        \/ SendPicture \/ Answer \/ ConnectionDies
        \/ Receiver
        \/ Deliver \/ Lose \/ SetLabels
        \/ \E d \in blocks : DidReceive(d)

\* Both threads and the phone's queues run. Nothing makes the user press the
\* button, the server answer or the network deliver.
Fairness ==
    /\ WF_vars(Dialog)
    /\ WF_vars(Receiver)
    /\ WF_vars(SetLabels)
    /\ \A n \in Picture : WF_vars(\E d \in blocks : d.n = n /\ DidReceive(d))

Spec     == Init /\ [][Next]_vars
FairSpec == Spec /\ Fairness

-----------------------------------------------------------------------------
TypeOK ==
    /\ ui \in {"constructing", "initialising", "idle", "capturing"}
    /\ edit_box \in BOOLEAN
    /\ text \in 0 .. MaxPictures
    /\ asked \in 0 .. MaxPictures
    /\ answered \in 0 .. MaxPictures
    /\ answers \in Seq(Individual)
    /\ rpc \in {"none", "receive", "send", "text", "waiting", "crashed"}
    /\ indi \in Individual \cup {[n |-> 0, is |-> Nobody]}
    /\ net \subseteq Datagram
    /\ duplicates \in 0 .. MaxDuplicates
    /\ blocks \subseteq Datagram
    /\ mainQueue \in Seq(Datagram)
    /\ phone \in {"up", "trapped"}
    /\ labels \in [shows : SUBSET Datagram, gender : Int]

\* The receiver never writes to an edit box that has not been assigned,
\* although the constructor has started it before (faceDlgDlg.cpp:108, 109):
\* the answer belongs to a picture, the picture to a capture, and the capture
\* to a button that works only after OnInitDialog.
EditBoxReady == rpc # "crashed"

\* The phone is never ahead of the dialog by more than the one result that
\* ReceiveRst is working on, for SetWindowText waits for the dialog
\* (ContentRendering.cpp:486, 489).
Ahead(n) == n > text

PhoneFollows ==
    \A d \in labels.shows : Ahead(d.n) => rpc \in {"text", "waiting"} /\ d.n = indi.n

\* The labels are of one person: whoever has a gender is not shown with the
\* gender of the one before, whatever order datagrams and blocks come in
\* (ViewController.swift:53-73).
LabelsTogether ==
    \A d \in labels.shows : d.is.gender \in {1, 2} => labels.gender = d.is.gender

\* Protocols.h:46-51 gives flag the values 0, 1 and 2.
FlagAsDocumented == \A d \in net : d.flag \in 0 .. 2

\* While the receiver waits in SetWindowText the dialog's thread takes messages:
\* the two never wait for each other (faceDlgDlg.cpp:108, ContentRendering.cpp:489).
NeverStuck == rpc = "waiting" => TakesMessages

\* The edit box never goes back to an older result.
NewerText == [][text' # text => text' > text]_vars

\* A result that says something reaches the edit box: the receiver and the
\* dialog's thread never wait for each other (ContentRendering.cpp:489).
ResultShown ==
    \A n \in Picture : rpc \in {"send", "text"} /\ indi.n = n ~> text = n

\* A datagram that reaches the phone gets on its labels, unless an overflow has
\* ended the phone's program (ViewController.swift:43-53).
PhoneShows ==
    \A n \in Picture :
        (\E d \in blocks : d.n = n)
            ~> phone = "trapped" \/ \E d \in labels.shows : d.n = n
=============================================================================
