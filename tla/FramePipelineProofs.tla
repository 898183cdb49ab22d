------------------------- MODULE FramePipelineProofs -------------------------
(***************************************************************************)
(* Proofs about FramePipeline, for every number of frames and whether or   *)
(* not a wait of the listen thread runs out, and about FaceCrop, the       *)
(* arithmetic of its processing thread, for pictures and detections of     *)
(* every size.                                                             *)
(***************************************************************************)
EXTENDS FramePipeline, FaceCrop, WellFoundedInduction, TLAPS

\* The pieces of the inductive invariant.

\* _img_processed is a lock: the listen thread writes _img_dis only while it
\* is TRUE, the processing thread works only while it is FALSE.
Lock ==
    /\ lpc \in {"header", "post"} => img_processed
    /\ Analysing => ~img_processed

\* _face_detected_cnt reaches 2 only on the way to send_pic.
Count == ppc = "send" <=> face_detected_cnt = 2

\* A picture's way through the pipeline: who is behind has the older frame.
Ages ==
    /\ fact_detected <= face_rect
    /\ overlay <= face_rect
    /\ face_rect <= img_dis
    /\ img_dis <= frame
    /\ ppc = "flag" => face_rect = src
    /\ ppc \in {"detect", "send", "rect", "flag"} => img_dis = src

\* What is in the mailbox is newer than what was analysed before, and that is
\* newer than what was sent before.
Newer ==
    /\ lpc \in {"mailbox", "header"} => img_dis < frame
    /\ src <= img_dis
    /\ lpc = "post" => src < img_dis
    /\ ~img_processed /\ ppc \in {"off", "poll", "clone"} => src < img_dis
    /\ sent <= src
    /\ ppc \in {"detect", "send"} => sent < src

IInv == TypeOK /\ Lock /\ Count /\ Ages /\ Newer

-----------------------------------------------------------------------------
LEMMA InitIInv == Init => IInv
<1> SUFFICES ASSUME Init PROVE IInv
  OBVIOUS
<1>1. 0 \in Frame /\ NoPicture \in [Halves -> Frame]
  BY MaxFramesAssumption DEF Frame, NoPicture
<1>2. 0 \in 0 .. 2 /\ 0 \in Nat
  OBVIOUS
<1>3. TypeOK
  BY <1>1, <1>2, ZenonT(60) DEF Init, TypeOK
<1>4. Lock /\ Count /\ Ages /\ Newer
  BY DEF Init, Lock, Count, Ages, Newer, Analysing
<1> QED BY <1>3, <1>4 DEF IInv

\* The user's thread starts the others and touches none of their data.
LEMMA CaptureStep == IInv /\ CaptureImage => IInv'
<1> USE MaxFramesAssumption
        DEF IInv, TypeOK, Lock, Count, Ages, Newer, Analysing, UIGoes, LGoes, PGoes,
            DGoes, listening, mailbox, pacing, processing, face, display
<1>1. IInv /\ StartListening => IInv'
  BY DEF StartListening
<1>2. IInv /\ StartProcessing => IInv'
  BY DEF StartProcessing
<1>3. IInv /\ CreateEvent => IInv'
  BY DEF CreateEvent
<1>4. IInv /\ StartDisplay => IInv'
  BY DEF StartDisplay
<1>5. IInv /\ CreateThreadFails => IInv'
  <2> SUFFICES ASSUME IInv, CreateThreadFails PROVE IInv'
    OBVIOUS
  <2>1. /\ ui' = "done"
        /\ UNCHANGED <<listening, mailbox, pacing, rgbDis, processing, face, display>>
    BY DEF CreateThreadFails
  <2> QED BY <2>1
<1> QED BY <1>1, <1>2, <1>3, <1>4, <1>5 DEF CaptureImage

LEMMA ListenStep == IInv /\ (FrameArrives \/ HandOver \/ WaitRunsOut) => IInv'
<1> USE MaxFramesAssumption
        DEF IInv, TypeOK, Lock, Count, Ages, Newer, Analysing, Frame, Halves, LGoes,
            listening, mailbox, pacing, processing, face, display
<1>1. IInv /\ FrameArrives => IInv'
  BY DEF FrameArrives
<1>2. IInv /\ TestProcessed => IInv'
  BY DEF TestProcessed
<1>3. IInv /\ SetImgDis => IInv'
  BY DEF SetImgDis
<1>4. IInv /\ PostImgDis => IInv'
  <2> SUFFICES ASSUME IInv, PostImgDis PROVE IInv'
    OBVIOUS
  <2> USE DEF PostImgDis
  <2>1. TypeOK'
    BY ZenonT(40)
  <2>2. Lock' /\ Count'
    OBVIOUS
  <2>3. Ages' /\ Newer'
    OBVIOUS
  <2> QED BY <2>1, <2>2, <2>3, Zenon
<1>5. IInv /\ CopyLines("top", "top", "bottom") => IInv'
  BY DEF CopyLines
<1>6. IInv /\ CopyLines("bottom", "bottom", "updated") => IInv'
  BY DEF CopyLines
<1>7. IInv /\ SetUpdated("wait") => IInv'
  BY DEF SetUpdated
<1>8. IInv /\ WaitRefreshed("reset") => IInv'
  BY DEF WaitRefreshed
<1>9. IInv /\ ResetRefreshed("receive") => IInv'
  BY DEF ResetRefreshed
<1>10. IInv /\ WaitRunsOut => IInv'
  BY DEF WaitRunsOut
<1> QED BY <1>1, <1>2, <1>3, <1>4, <1>5, <1>6, <1>7, <1>8, <1>9, <1>10
        DEF HandOver

LEMMA ProcessingStep == IInv /\ ImgProcessing => IInv'
<1> USE MaxFramesAssumption
        DEF IInv, TypeOK, Lock, Count, Ages, Newer, Analysing, Frame, PGoes,
            listening, mailbox, pacing, processing, face, display
<1>1. IInv /\ PollMailbox => IInv'
  BY DEF PollMailbox
<1>2. IInv /\ CloneImage => IInv'
  BY DEF CloneImage
<1>3. IInv /\ FaceFound => IInv'
  BY DEF FaceFound
<1>4. IInv /\ NoFaceFound => IInv'
  BY DEF NoFaceFound
<1>5. IInv /\ SendPicture => IInv'
  BY DEF SendPicture
<1>6. IInv /\ SetFaceRect("rect", "flag") => IInv'
  BY DEF SetFaceRect
<1>7. IInv /\ SetFaceDetected("flag", "done") => IInv'
  BY DEF SetFaceDetected
<1>8. IInv /\ SetProcessed => IInv'
  BY DEF SetProcessed
<1> QED BY <1>1, <1>2, <1>3, <1>4, <1>5, <1>6, <1>7, <1>8 DEF ImgProcessing

\* Whatever value the flag _img_updated is given, it stays a flag.
LEMMA UpdatedType ==
    ASSUME TypeOK, ClearUpdated("signal")
    PROVE  TypeOK'
<1>1. /\ img_updated' \in BOOLEAN
      /\ dpc' = "signal"
      /\ UNCHANGED <<ui, listening, mailbox, img_refreshed, rgbDis, processing,
                     face, overlay, drawn, missed>>
  BY DEF ClearUpdated, DGoes
<1> QED BY <1>1 DEF TypeOK, listening, mailbox, processing, face

LEMMA DisplayStep == IInv /\ UpdataScreen => IInv'
<1> USE MaxFramesAssumption
        DEF IInv, TypeOK, Lock, Count, Ages, Newer, Analysing, Frame, Halves, DGoes,
            listening, mailbox, pacing, processing, face, display
<1>1. IInv /\ PollUpdated("clear") => IInv'
  BY DEF PollUpdated
<1>2. IInv /\ ClearUpdated("signal") => IInv'
  <2> SUFFICES ASSUME IInv, ClearUpdated("signal") PROVE IInv'
    OBVIOUS
  <2> USE DEF ClearUpdated
  <2>1. TypeOK'
    BY UpdatedType
  <2>2. Lock' /\ Count'
    OBVIOUS
  <2>3. Ages' /\ Newer'
    OBVIOUS
  <2> QED BY <2>1, <2>2, <2>3, Zenon
<1>3. IInv /\ SignalRefreshed => IInv'
  BY DEF SignalRefreshed
<1>4. IInv /\ DrawLines("top", "top", "bottom") => IInv'
  BY DEF DrawLines
<1>5. IInv /\ DrawLines("bottom", "bottom", "overlay") => IInv'
  BY DEF DrawLines
<1>6. IInv /\ TestFaceDetected => IInv'
  BY DEF TestFaceDetected, EndDraw
<1>7. IInv /\ DrawFaceRect => IInv'
  BY DEF DrawFaceRect, EndDraw
<1>8. IInv /\ DrawFails => IInv'
  BY DEF DrawFails
<1> QED BY <1>1, <1>2, <1>3, <1>4, <1>5, <1>6, <1>7, <1>8 DEF UpdataScreen

LEMMA Inductive == Spec => []IInv
<1>1. IInv /\ [Next]_vars => IInv'
  <2>1. IInv /\ UNCHANGED vars => IInv'
    BY DEF IInv, TypeOK, Lock, Count, Ages, Newer, Analysing, vars, listening,
           mailbox, pacing, processing, face, display
  <2> QED BY <2>1, CaptureStep, ListenStep, ProcessingStep, DisplayStep DEF Next
<1> QED BY InitIInv, <1>1, PTL DEF Spec

-----------------------------------------------------------------------------
\* Every state of the pipeline is well typed; _face_detected_cnt never
\* passes 2, which the test == 2 of line 365 relies on.
THEOREM TypeCorrect == Spec => []TypeOK
BY Inductive, PTL DEF IInv

\* The two threads never meet at _img_dis.
THEOREM MailboxSafe == Spec => []MailboxExclusive
<1>1. IInv => MailboxExclusive
  BY DEF IInv, Lock, MailboxExclusive
<1> QED BY <1>1, Inductive, PTL

\* Both clones of one analysis are of one picture.
THEOREM OnePicturePerAnalysis == Spec => []SamePicture
<1>1. IInv => SamePicture
  BY DEF IInv, Ages, SamePicture
<1> QED BY <1>1, Inductive, PTL

\* The rectangle drawn is at least as new as the detection it is drawn for.
THEOREM OverlayFresh == Spec => []OverlayNotStale
<1>1. IInv => OverlayNotStale
  BY DEF IInv, TypeOK, Frame, Ages, OverlayNotStale
<1> QED BY <1>1, Inductive, PTL

\* The pipeline implements LatestPicture: each of its steps is one of that
\* module's or changes nothing there.
THEOREM AnalysisTakesNewer == Spec => TakesNewer
<1> USE DEF Latest!vars
<1>1. Init => Latest!Init
  BY DEF Init, Latest!Init
<1>2. IInv /\ [Next]_vars => [Latest!Next]_Latest!vars
  <2> SUFFICES ASSUME IInv, [Next]_vars PROVE [Latest!Next]_Latest!vars
    OBVIOUS
  <2> USE DEF IInv, TypeOK, Frame
  <2>1. CASE FrameArrives
    BY <2>1 DEF FrameArrives, processing, Latest!Next, Latest!Make
  <2>2. CASE CaptureImage \/ HandOver \/ WaitRunsOut \/ UpdataScreen
             \/ UNCHANGED vars
    <3>1. UNCHANGED <<frame, src, sent>>
          /\ (ppc' = ppc \/ (ppc = "off" /\ ppc' = "poll"))
      BY <2>2
         DEF CaptureImage, StartListening, StartProcessing, CreateEvent,
             StartDisplay, CreateThreadFails, HandOver, TestProcessed, SetImgDis, PostImgDis,
             CopyLines, SetUpdated, WaitRefreshed, ResetRefreshed,
             WaitRunsOut, UpdataScreen, PollUpdated, ClearUpdated,
             SignalRefreshed, DrawFails, DrawLines, TestFaceDetected,
             DrawFaceRect,
             PGoes, listening, processing, vars
    <3> QED BY <3>1
  <2>3. CASE CloneImage
    <3>1. src < img_dis /\ img_dis <= frame
      BY <2>3 DEF CloneImage, PGoes, Lock, Analysing, Ages, Newer
    <3> QED
      BY <2>3, <3>1, MaxFramesAssumption
         DEF CloneImage, PGoes, listening, Latest!Next, Latest!Take
  <2>4. CASE SendPicture
    <3>1. sent < src
      BY <2>4 DEF SendPicture, PGoes, Newer
    <3> QED
      BY <2>4, <3>1 DEF SendPicture, PGoes, listening, Latest!Next, Latest!Send
  <2>5. CASE SetProcessed
    BY <2>5 DEF SetProcessed, PGoes, listening, Latest!Next, Latest!Finish
  <2>6. CASE PollMailbox \/ FaceFound \/ NoFaceFound
             \/ SetFaceRect("rect", "flag") \/ SetFaceDetected("flag", "done")
    BY <2>6
       DEF PollMailbox, FaceFound, NoFaceFound, SetFaceRect, SetFaceDetected,
           PGoes, listening
  <2> QED BY <2>1, <2>2, <2>3, <2>4, <2>5, <2>6 DEF Next, ImgProcessing
<1> QED BY <1>1, <1>2, Inductive, PTL DEF Spec, TakesNewer, Latest!Spec

-----------------------------------------------------------------------------
(* The pictures with a face that were analysed since the last one without a *)
(* face are counted twice: by the code, which starts again after every      *)
(* second one, and by streak.                                               *)

Streaks ==
    /\ streak >= face_detected_cnt
    /\ \E pairs \in Nat : streak = 2 * pairs + face_detected_cnt

LEMMA StreakStep == IInv /\ Streaks /\ [Next]_vars => Streaks'
<1> SUFFICES ASSUME IInv, Streaks, [Next]_vars PROVE Streaks'
  OBVIOUS
<1>1. /\ streak \in Nat
      /\ face_detected_cnt \in 0 .. 2
      /\ ppc = "send" => face_detected_cnt = 2
  BY DEF IInv, TypeOK, Count
<1>2. PICK pairs \in Nat : streak = 2 * pairs + face_detected_cnt
  BY DEF Streaks
<1>3. CASE UNCHANGED <<streak, face_detected_cnt>>
  BY <1>3 DEF Streaks
<1>4. CASE FaceFound
  <2>1. streak' = streak + 1 /\ face_detected_cnt' = face_detected_cnt + 1
    BY <1>4 DEF FaceFound
  <2> QED BY <1>1, <1>2, <2>1 DEF Streaks
<1>5. CASE NoFaceFound
  <2>1. streak' = 0 /\ face_detected_cnt' = 0
    BY <1>5 DEF NoFaceFound
  <2>2. streak' = 2 * 0 + face_detected_cnt'
    BY <2>1
  <2> QED BY <2>1, <2>2 DEF Streaks
<1>6. CASE SendPicture
  <2>1. streak' = streak /\ face_detected_cnt' = 0 /\ face_detected_cnt = 2
    BY <1>1, <1>6 DEF SendPicture, PGoes
  <2>2. streak' = 2 * (pairs + 1) + face_detected_cnt' /\ pairs + 1 \in Nat
    BY <1>1, <1>2, <2>1
  <2> QED BY <1>1, <2>1, <2>2 DEF Streaks
<1>7. CASE CaptureImage \/ FrameArrives \/ HandOver \/ WaitRunsOut \/ UpdataScreen
           \/ UNCHANGED vars
  <2>1. UNCHANGED <<streak, face_detected_cnt>>
    BY <1>7
       DEF CaptureImage, StartListening, StartProcessing, CreateEvent,
           StartDisplay, CreateThreadFails, FrameArrives, HandOver, TestProcessed, SetImgDis,
           PostImgDis, CopyLines, SetUpdated, WaitRefreshed, ResetRefreshed,
           WaitRunsOut, UpdataScreen, PollUpdated, ClearUpdated,
           SignalRefreshed, DrawFails, DrawLines, TestFaceDetected,
           DrawFaceRect,
           processing, vars
  <2> QED BY <1>3, <2>1
<1>8. CASE ImgProcessing
  <2>1. FaceFound \/ NoFaceFound \/ SendPicture
            \/ UNCHANGED <<streak, face_detected_cnt>>
    BY <1>8
       DEF ImgProcessing, PollMailbox, CloneImage, SetFaceRect,
           SetFaceDetected, SetProcessed
  <2> QED BY <1>3, <1>4, <1>5, <1>6, <2>1
<1> QED BY <1>7, <1>8 DEF Next

\* A picture is sent only for the second, fourth, ... face in a row.
THEOREM SendsConfirmed == Spec => ConfirmedFaces
<1>1. Init => Streaks
  <2> SUFFICES ASSUME Init PROVE Streaks
    OBVIOUS
  <2>1. streak = 0 /\ face_detected_cnt = 0 /\ streak = 2 * 0 + face_detected_cnt
    BY DEF Init
  <2> QED BY <2>1 DEF Streaks
<1>2. IInv /\ Streaks /\ [Next]_vars
          => [sent' # sent => streak >= 2 /\ streak % 2 = 0]_vars
  <2> SUFFICES ASSUME IInv, Streaks, [Next]_vars, sent' # sent
               PROVE  streak >= 2 /\ streak % 2 = 0
    OBVIOUS
  <2>1. SendPicture
    BY DEF Next, CaptureImage, StartListening, StartProcessing, CreateEvent,
           StartDisplay, CreateThreadFails, FrameArrives, HandOver, TestProcessed, SetImgDis,
           PostImgDis, CopyLines, SetUpdated, WaitRefreshed, ResetRefreshed,
           WaitRunsOut, UpdataScreen, PollUpdated, ClearUpdated,
           SignalRefreshed, DrawFails, DrawLines, TestFaceDetected,
           DrawFaceRect,
           ImgProcessing, PollMailbox, CloneImage, FaceFound, NoFaceFound,
           SetFaceRect, SetFaceDetected, SetProcessed, processing, vars
  <2>2. ppc = "send"
    BY <2>1 DEF SendPicture, PGoes
  <2>3. face_detected_cnt = 2 /\ streak \in Nat
    BY <2>2 DEF IInv, TypeOK, Count
  <2>4. PICK pairs \in Nat : streak = 2 * pairs + face_detected_cnt
    BY DEF Streaks
  <2> QED BY <2>3, <2>4
<1>3. Spec => []Streaks
  BY <1>1, StreakStep, Inductive, PTL DEF Spec
<1> QED BY <1>2, <1>3, Inductive, PTL DEF Spec, ConfirmedFaces

-----------------------------------------------------------------------------
(* How torn a picture can be. While the display thread is between the two   *)
(* halves of a picture, the listen thread may finish frames under it, but    *)
(* only as many as it has signals for: the one it is being given and the one *)
(* that was standing.                                                        *)

\* The threads start in CaptureImage's order, the event before the display.
Stages ==
    /\ ui \notin {"idle", "done"} => lpc # "off"
    /\ ui = "display" => img_refreshed # "null"
    /\ dpc # "off" => ui = "done" /\ lpc # "off" /\ img_refreshed # "null"

\* Each half of _rgbDis holds the frame in temp_line_buf, or the one before it
\* until copyToBuffer gets there.
Copied ==
    /\ rgbDis["top"] =
          IF lpc \in {"mailbox", "header", "post", "top"} THEN frame - 1 ELSE frame
    /\ rgbDis["bottom"] =
          IF lpc \in {"mailbox", "header", "post", "top", "bottom"}
          THEN frame - 1 ELSE frame

\* The newest frame the listen thread can get into _rgbDis before the display
\* signals again, unless a wait runs out: one for a signal that stands or was
\* just taken, and the one a call of ReceiveData_RaspPi is about to deliver.
Reach ==
    frame + (IF lpc = "reset" \/ img_refreshed = "set" THEN 1 ELSE 0)
          + (IF lpc = "receive" THEN 1 ELSE 0)

\* Between the halves: the top half is no newer than _rgbDis', and the bottom
\* half cannot get more than two frames newer than it.
HalfDrawn ==
    dpc = "bottom" =>
        /\ drawn["top"] <= rgbDis["top"]
        /\ ~ran_out => Reach <= drawn["top"] + 2

Tearing == Stages /\ Copied /\ HalfDrawn /\ TornByTwo

LEMMA TearingInit == Init => Tearing
BY DEF Init, NoPicture, Halves, Tearing, Stages, Copied, HalfDrawn, TornByTwo

\* What Tearing reads, as numbers.
LEMMA HalvesType ==
    ASSUME TypeOK
    PROVE  /\ frame \in Int /\ rgbDis["top"] \in Int /\ rgbDis["bottom"] \in Int
           /\ drawn["top"] \in Int /\ drawn["bottom"] \in Int
BY DEF TypeOK, Frame, Halves

\* Nothing Tearing reads of the listen thread and the display changes.
LEMMA TearingRests ==
    ASSUME Tearing,
           UNCHANGED <<lpc, frame, ran_out, img_refreshed, rgbDis, dpc, drawn>>,
           Stages'
    PROVE  Tearing'
BY DEF Tearing, Copied, HalfDrawn, Reach, TornByTwo

LEMMA TearingCapture == IInv /\ Tearing /\ CaptureImage => Tearing'
<1> SUFFICES ASSUME IInv, Tearing, CaptureImage PROVE Tearing'
  OBVIOUS
<1> USE DEF UIGoes, LGoes, PGoes, DGoes, listening, mailbox, pacing, processing, face,
            display
<1>1. CASE StartListening
  <2>1. Stages' /\ dpc = "off" /\ dpc' = "off"
    BY <1>1 DEF StartListening, Tearing, Stages
  <2>2. Copied'
    BY <1>1 DEF StartListening, Tearing, Copied
  <2> QED BY <2>1, <2>2 DEF Tearing, HalfDrawn, TornByTwo
<1>2. CASE StartProcessing
  <2>1. Stages' /\ UNCHANGED <<lpc, frame, ran_out, img_refreshed, rgbDis, dpc, drawn>>
    BY <1>2 DEF StartProcessing, Tearing, Stages
  <2> QED BY <2>1, TearingRests
<1>3. CASE CreateEvent
  <2>1. Stages' /\ dpc = "off" /\ dpc' = "off"
    BY <1>3 DEF CreateEvent, Tearing, Stages
  <2>2. Copied'
    BY <1>3 DEF CreateEvent, Tearing, Copied
  <2> QED BY <2>1, <2>2 DEF Tearing, HalfDrawn, TornByTwo
<1>4. CASE StartDisplay
  <2>1. Stages' /\ dpc' = "poll"
    BY <1>4 DEF StartDisplay, Tearing, Stages
  <2>2. Copied'
    BY <1>4 DEF StartDisplay, Tearing, Copied
  <2> QED BY <2>1, <2>2 DEF Tearing, HalfDrawn, TornByTwo
<1>5. CASE CreateThreadFails
  <2>1. /\ ui \in {"idle", "processing", "display"} /\ ui' = "done"
        /\ UNCHANGED <<lpc, frame, ran_out, img_refreshed, rgbDis, dpc, drawn>>
    BY <1>5 DEF CreateThreadFails
  <2>2. Stages'
    BY <2>1 DEF Tearing, Stages
  <2> QED BY <2>1, <2>2, TearingRests
<1> QED BY <1>1, <1>2, <1>3, <1>4, <1>5 DEF CaptureImage

\* The listen thread: a frame it finishes uses up what Reach allowed it.
LEMMA TearingListen ==
    IInv /\ Tearing /\ (FrameArrives \/ HandOver \/ WaitRunsOut) => Tearing'
<1> SUFFICES ASSUME IInv, Tearing, FrameArrives \/ HandOver \/ WaitRunsOut
             PROVE  Tearing'
  OBVIOUS
<1> USE DEF LGoes, listening, mailbox, pacing, processing, face, display
<1>0. /\ frame \in Int /\ rgbDis["top"] \in Int /\ rgbDis["bottom"] \in Int
      /\ drawn["top"] \in Int /\ drawn["bottom"] \in Int
  BY HalvesType DEF IInv
<1>1. /\ UNCHANGED <<ui, dpc, drawn>> /\ lpc # "off" /\ lpc' # "off"
      /\ ran_out => ran_out'
      /\ img_refreshed' = "null" <=> img_refreshed = "null"
  BY DEF FrameArrives, HandOver, TestProcessed, SetImgDis, PostImgDis, CopyLines,
         SetUpdated, WaitRefreshed, ResetRefreshed, WaitRunsOut
<1>2. Stages'
  BY <1>1 DEF Tearing, Stages
<1>3. TornByTwo'
  BY <1>1 DEF Tearing, TornByTwo
<1>4. Copied' /\ rgbDis'["top"] >= rgbDis["top"]
  <2>1. CASE FrameArrives
    BY <1>0, <2>1 DEF FrameArrives, Tearing, Copied
  <2>2. CASE CopyLines("top", "top", "bottom")
    BY <1>0, <2>2 DEF CopyLines, Tearing, Copied, IInv, TypeOK, Halves
  <2>3. CASE CopyLines("bottom", "bottom", "updated")
    BY <1>0, <2>3 DEF CopyLines, Tearing, Copied, IInv, TypeOK, Halves
  <2>4. CASE TestProcessed \/ SetImgDis \/ PostImgDis \/ SetUpdated("wait")
             \/ WaitRefreshed("reset") \/ ResetRefreshed("receive") \/ WaitRunsOut
    BY <1>0, <2>4 DEF TestProcessed, SetImgDis, PostImgDis, SetUpdated, WaitRefreshed,
                      ResetRefreshed, WaitRunsOut, Tearing, Copied
  <2> QED BY <2>1, <2>2, <2>3, <2>4 DEF HandOver
<1>5. ASSUME dpc = "bottom", ~ ran_out' PROVE Reach' <= Reach
  <2>1. img_refreshed # "null"
    BY <1>5 DEF Tearing, Stages
  <2>2. CASE FrameArrives
    BY <1>0, <2>2 DEF FrameArrives, Reach
  <2>3. CASE WaitRefreshed("reset")
    BY <1>0, <2>1, <2>3 DEF WaitRefreshed, Reach, IInv, TypeOK
  <2>4. CASE ResetRefreshed("receive")
    BY <1>0, <2>1, <2>4 DEF ResetRefreshed, Reach
  <2>5. CASE WaitRunsOut
    BY <1>5, <2>5 DEF WaitRunsOut
  <2>6. CASE TestProcessed \/ SetImgDis \/ PostImgDis \/ SetUpdated("wait")
             \/ CopyLines("top", "top", "bottom")
             \/ CopyLines("bottom", "bottom", "updated")
    BY <1>0, <2>6 DEF TestProcessed, SetImgDis, PostImgDis, SetUpdated, CopyLines, Reach
  <2> QED BY <2>2, <2>3, <2>4, <2>5, <2>6 DEF HandOver
<1>6. HalfDrawn'
  <2>1. Reach \in Int /\ Reach' \in Int /\ rgbDis'["top"] \in Int
    <3>1. frame' \in Int /\ rgbDis'["top"] \in Int
      <4>1. TypeOK'
        BY ListenStep DEF IInv
      <4> QED BY <4>1 DEF TypeOK, Frame, Halves
    <3> QED BY <1>0, <3>1 DEF Reach
  <2>2. HalfDrawn /\ UNCHANGED <<dpc, drawn>> /\ (ran_out => ran_out')
    BY <1>1 DEF Tearing
  <2> HIDE DEF display, listening
  <2> QED BY <1>0, <1>4, <1>5, <2>1, <2>2 DEF HalfDrawn
<1> QED BY <1>2, <1>3, <1>4, <1>6 DEF Tearing

\* The display thread: the halves it takes are what Copied says.
LEMMA TearingDisplay == IInv /\ Tearing /\ UpdataScreen => Tearing'
<1> SUFFICES ASSUME IInv, Tearing, UpdataScreen PROVE Tearing'
  OBVIOUS
<1> USE DEF DGoes, listening, mailbox, pacing, processing, face
<1>0. /\ frame \in Int /\ rgbDis["top"] \in Int /\ rgbDis["bottom"] \in Int
      /\ drawn["top"] \in Int /\ drawn["bottom"] \in Int
  BY HalvesType DEF IInv
<1>1. UNCHANGED <<ui, lpc, frame, ran_out, rgbDis>> /\ dpc # "off"
      /\ (img_refreshed' = img_refreshed \/ img_refreshed' = "set")
  BY DEF UpdataScreen, PollUpdated, ClearUpdated, SignalRefreshed, DrawFails,
         DrawLines, TestFaceDetected, DrawFaceRect
<1>2. Stages' /\ Copied'
  BY <1>1 DEF Tearing, Stages, Copied
<1>3. CASE DrawLines("top", "top", "bottom")
  <2>1. drawn'["top"] = rgbDis["top"] /\ dpc' = "bottom" /\ img_refreshed' = img_refreshed
    BY <1>3 DEF DrawLines, IInv, TypeOK, Halves
  <2>2. Reach <= rgbDis["top"] + 2
    BY <1>0 DEF Tearing, Copied, Reach
  <2>3. Reach' = Reach
    BY <1>1, <2>1 DEF Reach
  <2>4. HalfDrawn'
    BY <1>0, <1>1, <2>1, <2>2, <2>3 DEF HalfDrawn
  <2> QED BY <1>2, <2>1, <2>4 DEF Tearing, TornByTwo
<1>4. CASE DrawLines("bottom", "bottom", "overlay")
  <2>1. /\ drawn'["bottom"] = rgbDis["bottom"] /\ drawn'["top"] = drawn["top"]
        /\ dpc = "bottom" /\ dpc' = "overlay"
    BY <1>4 DEF DrawLines, IInv, TypeOK, Halves
  <2>2. drawn["top"] <= rgbDis["top"] /\ (~ ran_out => Reach <= drawn["top"] + 2)
    BY <2>1 DEF Tearing, HalfDrawn
  <2>3. /\ rgbDis["top"] <= frame /\ rgbDis["bottom"] \in frame - 1 .. frame
        /\ frame <= Reach /\ Reach \in Int
    BY <1>0 DEF Tearing, Copied, Reach
  <2>4. TornByTwo'
    BY <1>0, <1>1, <2>1, <2>2, <2>3 DEF TornByTwo
  <2> QED BY <1>2, <2>1, <2>4 DEF Tearing, HalfDrawn
<1>5. CASE PollUpdated("clear") \/ ClearUpdated("signal") \/ SignalRefreshed
           \/ DrawFails \/ TestFaceDetected \/ DrawFaceRect
  <2>1. dpc' # "bottom" /\ dpc' # "overlay"
    BY <1>5 DEF PollUpdated, ClearUpdated, SignalRefreshed, DrawFails,
                TestFaceDetected, DrawFaceRect, EndDraw
  <2> QED BY <1>2, <2>1 DEF Tearing, HalfDrawn, TornByTwo
<1> QED BY <1>3, <1>4, <1>5 DEF UpdataScreen

LEMMA TearingStep == IInv /\ Tearing /\ [Next]_vars => Tearing'
<1> SUFFICES ASSUME IInv, Tearing, [Next]_vars PROVE Tearing'
  OBVIOUS
<1>1. CASE ImgProcessing
  <2>1. UNCHANGED <<ui, lpc, frame, ran_out, img_refreshed, rgbDis, dpc, drawn>>
    BY <1>1 DEF ImgProcessing, PollMailbox, CloneImage, FaceFound, NoFaceFound,
                SendPicture, SetFaceRect, SetFaceDetected, SetProcessed, listening,
                mailbox, pacing, face, display
  <2>2. Stages'
    BY <2>1 DEF Tearing, Stages
  <2> QED BY <2>1, <2>2, TearingRests
<1>2. CASE UNCHANGED vars
  <2>1. UNCHANGED <<ui, lpc, frame, ran_out, img_refreshed, rgbDis, dpc, drawn>>
    BY <1>2 DEF vars, listening, pacing, display
  <2>2. Stages'
    BY <2>1 DEF Tearing, Stages
  <2> QED BY <2>1, <2>2, TearingRests
<1> QED BY <1>1, <1>2, TearingCapture, TearingListen, TearingDisplay DEF Next

\* Until a wait of the listen thread runs out, a picture drawn is torn by two
\* frames at most, though SetEvent comes before Draw.
THEOREM TornByTwoAtMost == Spec => []TornByTwo
<1>1. Spec => []Tearing
  BY TearingInit, TearingStep, Inductive, PTL DEF Spec
<1>2. Tearing => TornByTwo
  BY DEF Tearing
<1> QED BY <1>1, <1>2, PTL

-----------------------------------------------------------------------------
(* The pacing of the listen thread by the display, and what a cleared flag  *)
(* means: the safety half of ListensAgain and of ShowsLatest.                *)

\* The calls of ReceiveData_RaspPi are past the frame they announced last.
HandedOver == lpc \in {"wait", "reset", "receive"}

\* Once the flag of the newest picture is down, the display thread has taken it,
\* half by half, or is about to, and in the end it shows it or fails on it.
Caught ==
    HandedOver /\ ~img_updated =>
        /\ dpc = "bottom" => drawn["top"] = frame
        /\ dpc \in {"overlay", "rect"} => \A h \in Halves : drawn[h] = frame
        /\ dpc \in {"off", "poll"} => ShowsNewest \/ missed = frame

\* The flag is taken down between the test that found it up and SetEvent, so a wait
\* begun after it went up ends.
Paced ==
    /\ dpc = "off" => drawn = NoPicture /\ missed = 0 /\ img_refreshed # "set"
    /\ lpc = "off" => frame = 0
    /\ dpc = "clear" => img_updated
    /\ lpc = "wait" => img_refreshed = "set" \/ img_updated \/ dpc = "signal"

Behind == \A h \in Halves : drawn[h] <= rgbDis[h]

Pacing == Caught /\ Paced /\ Behind

LEMMA PacingInit == Init => Pacing
BY DEF Init, NoPicture, Halves, Pacing, Caught, Paced, Behind, HandedOver,
       ShowsNewest

\* Nothing Pacing reads changes.
LEMMA PacingRests ==
    ASSUME Pacing,
           UNCHANGED <<lpc, frame, img_updated, img_refreshed, rgbDis, dpc, drawn,
                       missed>>
    PROVE  Pacing'
BY DEF Pacing, Caught, Paced, Behind, HandedOver, ShowsNewest

LEMMA PacingCapture == IInv /\ Tearing /\ Pacing /\ CaptureImage => Pacing'
<1> SUFFICES ASSUME IInv, Tearing, Pacing, CaptureImage PROVE Pacing'
  OBVIOUS
<1> USE DEF UIGoes, LGoes, PGoes, DGoes, listening, mailbox, pacing, processing, face,
            display
<1>1. CASE StartListening
  <2>1. /\ ui = "idle" /\ lpc = "off" /\ lpc' = "receive"
        /\ UNCHANGED <<frame, img_updated, img_refreshed, rgbDis, dpc, drawn,
                       missed>>
    BY <1>1 DEF StartListening
  <2>2. dpc = "off" /\ drawn = NoPicture /\ missed = 0 /\ frame = 0
    BY <2>1 DEF Tearing, Stages, Pacing, Paced
  <2>3. ShowsNewest /\ ShowsNewest'
    BY <2>1, <2>2 DEF NoPicture, ShowsNewest
  <2> QED BY <2>1, <2>2, <2>3 DEF Pacing, Caught, Paced, Behind, HandedOver, ShowsNewest
<1>2. CASE StartProcessing
  <2>1. UNCHANGED <<lpc, frame, img_updated, img_refreshed, rgbDis, dpc, drawn,
                    missed>>
    BY <1>2 DEF StartProcessing
  <2> QED BY <2>1, PacingRests
<1>3. CASE CreateEvent
  <2>1. /\ ui = "event" /\ img_refreshed' = "reset"
        /\ UNCHANGED <<lpc, frame, img_updated, rgbDis, dpc, drawn,
                       missed>>
    BY <1>3 DEF CreateEvent
  <2>2. dpc = "off"
    BY <2>1 DEF Tearing, Stages
  <2> QED BY <2>1, <2>2 DEF Pacing, Caught, Paced, Behind, HandedOver, ShowsNewest
<1>4. CASE StartDisplay
  <2>1. /\ dpc = "off" /\ dpc' = "poll"
        /\ UNCHANGED <<lpc, frame, img_updated, img_refreshed, rgbDis, drawn, missed>>
    BY <1>4 DEF StartDisplay
  <2> QED BY <2>1 DEF Pacing, Caught, Paced, Behind, HandedOver, ShowsNewest
<1>5. CASE CreateThreadFails
  <2>1. UNCHANGED <<lpc, frame, img_updated, img_refreshed, rgbDis, dpc, drawn,
                    missed>>
    BY <1>5 DEF CreateThreadFails
  <2> QED BY <2>1, PacingRests
<1> QED BY <1>1, <1>2, <1>3, <1>4, <1>5 DEF CaptureImage

\* The listen thread only adds to _rgbDis, and puts the flag up behind it.
LEMMA PacingListen ==
    IInv /\ Tearing /\ Pacing /\ (FrameArrives \/ HandOver \/ WaitRunsOut) => Pacing'
<1> SUFFICES ASSUME IInv, Tearing, Pacing, FrameArrives \/ HandOver \/ WaitRunsOut
             PROVE  Pacing'
  OBVIOUS
<1> USE DEF LGoes, listening, mailbox, pacing, processing, face, display
<1>0. /\ frame \in Int
      /\ \A h \in Halves : rgbDis[h] \in Int /\ drawn[h] \in Int /\ rgbDis[h] <= frame
  BY HalvesType DEF IInv, Tearing, Copied, Halves
<1>1. CASE FrameArrives
  <2>1. /\ lpc' = "mailbox"
        /\ UNCHANGED <<img_updated, img_refreshed, rgbDis, dpc, drawn,
                       missed>>
    BY <1>1 DEF FrameArrives
  <2> QED BY <2>1 DEF Pacing, Caught, Paced, Behind, HandedOver, ShowsNewest
<1>2. ASSUME NEW h \in Halves, NEW to \in {"bottom", "updated"},
             lpc' = to, rgbDis' = [rgbDis EXCEPT ![h] = frame],
             UNCHANGED <<frame, img_updated, img_refreshed, dpc, drawn, missed>>
      PROVE  Pacing'
  <2>1. Behind'
    <3>1. ASSUME NEW g \in Halves PROVE drawn[g] <= rgbDis'[g]
      <4>1. rgbDis'[g] = IF g = h THEN frame ELSE rgbDis[g]
        BY <1>2 DEF IInv, TypeOK
      <4>2. drawn[g] <= rgbDis[g]
        BY DEF Pacing, Behind
      <4> QED BY <1>0, <4>1, <4>2
    <3> QED BY <1>2, <3>1 DEF Behind
  <2> QED BY <1>2, <2>1 DEF Pacing, Caught, Paced, HandedOver
<1>3. CASE CopyLines("top", "top", "bottom") \/ CopyLines("bottom", "bottom", "updated")
  <2>1. "top" \in Halves /\ "bottom" \in Halves
    BY DEF Halves
  <2>2. CASE CopyLines("top", "top", "bottom")
    BY <1>2, <2>1, <2>2 DEF CopyLines
  <2>3. CASE CopyLines("bottom", "bottom", "updated")
    BY <1>2, <2>1, <2>3 DEF CopyLines
  <2> QED BY <1>3, <2>2, <2>3
<1>4. CASE SetUpdated("wait")
  <2>1. /\ lpc' = "wait" /\ img_updated' = TRUE
        /\ UNCHANGED <<frame, img_refreshed, rgbDis, dpc, drawn,
                       missed>>
    BY <1>4 DEF SetUpdated
  <2> QED BY <2>1 DEF Pacing, Caught, Paced, Behind, HandedOver, ShowsNewest
<1>5. CASE WaitRefreshed("reset") \/ WaitRunsOut
  <2>1. /\ lpc = "wait" /\ lpc' = "reset"
        /\ UNCHANGED <<frame, img_updated, img_refreshed, rgbDis, dpc, drawn,
                       missed>>
    BY <1>5 DEF WaitRefreshed, WaitRunsOut
  <2> QED BY <2>1 DEF Pacing, Caught, Paced, Behind, HandedOver, ShowsNewest
<1>6. CASE ResetRefreshed("receive")
  <2>1. /\ lpc = "reset" /\ lpc' = "receive" /\ img_refreshed' # "set"
        /\ UNCHANGED <<frame, img_updated, rgbDis, dpc, drawn,
                       missed>>
    BY <1>6 DEF ResetRefreshed
  <2> QED BY <2>1 DEF Pacing, Caught, Paced, Behind, HandedOver, ShowsNewest
<1>7. CASE TestProcessed \/ SetImgDis \/ PostImgDis
  <2>1. /\ lpc \in {"mailbox", "header", "post"} /\ lpc' \in {"header", "post", "top"}
        /\ UNCHANGED <<frame, img_updated, img_refreshed, rgbDis, dpc, drawn,
                       missed>>
    BY <1>7 DEF TestProcessed, SetImgDis, PostImgDis
  <2> QED BY <2>1 DEF Pacing, Caught, Paced, Behind, HandedOver, ShowsNewest
<1> QED BY <1>1, <1>3, <1>4, <1>5, <1>6, <1>7 DEF HandOver

\* The display thread: with the flag down it has all that was handed over.
LEMMA PacingDisplay == IInv /\ Tearing /\ Pacing /\ UpdataScreen => Pacing'
<1> SUFFICES ASSUME IInv, Tearing, Pacing, UpdataScreen PROVE Pacing'
  OBVIOUS
<1> USE DEF DGoes, listening, mailbox, pacing, processing, face
<1>0. UNCHANGED <<lpc, frame, rgbDis>> /\ dpc # "off"
  BY DEF UpdataScreen, PollUpdated, ClearUpdated, SignalRefreshed, DrawFails,
         DrawLines, TestFaceDetected, DrawFaceRect
<1>1. HandedOver => rgbDis["top"] = frame /\ rgbDis["bottom"] = frame
  BY DEF HandedOver, Tearing, Copied
<1>2. drawn \in [Halves -> Frame] /\ Halves = {"top", "bottom"}
      /\ \A h \in Halves : rgbDis[h] \in Int /\ drawn[h] \in Int
  BY HalvesType DEF IInv, TypeOK, Halves
<1>3. CASE PollUpdated("clear")
  BY <1>0, <1>3 DEF PollUpdated, Pacing, Caught, Paced, Behind, HandedOver, ShowsNewest
<1>4. CASE ClearUpdated("signal")
  <2>1. dpc' = "signal" /\ UNCHANGED drawn
    BY <1>4 DEF ClearUpdated
  <2> QED BY <1>0, <2>1 DEF Pacing, Caught, Paced, Behind, HandedOver, ShowsNewest
<1>5. CASE SignalRefreshed
  <2>1. dpc' = "top" /\ img_refreshed' = "set" /\ UNCHANGED drawn
    BY <1>5 DEF SignalRefreshed
  <2> QED BY <1>0, <2>1 DEF Pacing, Caught, Paced, Behind, HandedOver, ShowsNewest
<1>6. CASE DrawLines("top", "top", "bottom")
  <2>1. /\ dpc = "top" /\ dpc' = "bottom" /\ UNCHANGED <<img_updated, img_refreshed>>
        /\ drawn'["top"] = rgbDis["top"] /\ drawn'["bottom"] = drawn["bottom"]
    BY <1>2, <1>6 DEF DrawLines
  <2>2. Behind'
    BY <1>0, <1>2, <2>1 DEF Pacing, Behind
  <2>3. Caught'
    BY <1>0, <1>1, <2>1 DEF Caught, HandedOver
  <2> QED BY <1>0, <2>1, <2>2, <2>3 DEF Pacing, Paced
<1>7. CASE DrawLines("bottom", "bottom", "overlay")
  <2>1. /\ dpc = "bottom" /\ dpc' = "overlay" /\ UNCHANGED <<img_updated, img_refreshed>>
        /\ drawn'["bottom"] = rgbDis["bottom"] /\ drawn'["top"] = drawn["top"]
    BY <1>2, <1>7 DEF DrawLines
  <2>2. Behind'
    BY <1>0, <1>2, <2>1 DEF Pacing, Behind
  <2>3. Caught'
    BY <1>0, <1>1, <1>2, <2>1 DEF Pacing, Caught, HandedOver
  <2> QED BY <1>0, <2>1, <2>2, <2>3 DEF Pacing, Paced
<1>8. CASE TestFaceDetected \/ DrawFaceRect
  <2>1. /\ dpc \in {"overlay", "rect"}
        /\ dpc' = "rect" \/ (dpc' = "poll" /\ missed' \in {0, drawn["bottom"]})
        /\ UNCHANGED <<img_updated, img_refreshed, drawn>>
    BY <1>8 DEF TestFaceDetected, DrawFaceRect, EndDraw
  <2>2. Caught'
    BY <1>0, <1>2, <2>1 DEF Pacing, Caught, HandedOver, ShowsNewest
  <2> QED BY <1>0, <2>1, <2>2 DEF Pacing, Paced, Behind
<1>9. CASE DrawFails
  <2>1. /\ dpc' = "poll" /\ missed' = rgbDis["bottom"]
        /\ UNCHANGED <<img_updated, img_refreshed, drawn>>
        /\ dpc = "top"
    BY <1>9 DEF DrawFails
  <2>2. Caught'
    BY <1>0, <1>1, <2>1 DEF Caught, HandedOver
  <2> QED BY <1>0, <2>1, <2>2 DEF Pacing, Paced, Behind
<1> QED BY <1>3, <1>4, <1>5, <1>6, <1>7, <1>8, <1>9 DEF UpdataScreen

LEMMA PacingStep == IInv /\ Tearing /\ Pacing /\ [Next]_vars => Pacing'
<1> SUFFICES ASSUME IInv, Tearing, Pacing, [Next]_vars PROVE Pacing'
  OBVIOUS
<1>1. CASE ImgProcessing
  <2>1. UNCHANGED <<lpc, frame, img_updated, img_refreshed, rgbDis, dpc, drawn,
                    missed>>
    BY <1>1 DEF ImgProcessing, PollMailbox, CloneImage, FaceFound, NoFaceFound,
                SendPicture, SetFaceRect, SetFaceDetected, SetProcessed, listening,
                mailbox, pacing, face, display
  <2> QED BY <2>1, PacingRests
<1>2. CASE UNCHANGED vars
  <2>1. UNCHANGED <<lpc, frame, img_updated, img_refreshed, rgbDis, dpc, drawn,
                    missed>>
    BY <1>2 DEF vars, listening, pacing, display
  <2> QED BY <2>1, PacingRests
<1> QED BY <1>1, <1>2, PacingCapture, PacingListen, PacingDisplay DEF Next

LEMMA PacingHolds == Spec => [](IInv /\ Tearing /\ Pacing)
BY TearingInit, TearingStep, PacingInit, PacingStep, Inductive, PTL DEF Spec

\* No wait of the listen thread needs its 100 ms where there is a display thread:
\* the flag that brings that thread to SetEvent is up, or it is just before it,
\* whenever the listen thread waits.
THEOREM NoWaitIsVain == Spec => []SignalDue
<1>1. IInv /\ Pacing => SignalDue
  BY DEF IInv, TypeOK, Pacing, Paced, SignalDue
<1> QED BY <1>1, PacingHolds, PTL

\* A display thread with nothing to do shows all of the newest picture that was
\* handed over, unless Draw failed on that very picture.
THEOREM NothingLeftToShow == Spec => []IdleShowsNewest
<1>1. Pacing => IdleShowsNewest
  BY DEF Pacing, Caught, HandedOver, IdleShowsNewest, ShowsNewest
<1> QED BY <1>1, PacingHolds, PTL

\* Neither half of the screen goes back to an older picture.
THEOREM PictureNeverAges == Spec => NeverBackwards
<1>1. IInv /\ Pacing /\ [Next]_vars => [\A h \in Halves : drawn'[h] >= drawn[h]]_vars
  <2> SUFFICES ASSUME IInv, Pacing, [Next]_vars, NEW h \in Halves
               PROVE  drawn'[h] >= drawn[h]
    OBVIOUS
  <2>1. drawn[h] \in Int /\ rgbDis[h] \in Int /\ drawn[h] <= rgbDis[h]
        /\ drawn \in [Halves -> Frame]
    BY DEF IInv, TypeOK, Frame, Pacing, Behind
  <2>2. \/ UNCHANGED drawn
        \/ \E g \in Halves : drawn' = [drawn EXCEPT ![g] = rgbDis[g]]
    BY DEF Next, CaptureImage, StartListening, StartProcessing, CreateEvent,
           StartDisplay, CreateThreadFails, FrameArrives, HandOver, TestProcessed, SetImgDis,
           PostImgDis, CopyLines, SetUpdated, WaitRefreshed, ResetRefreshed,
           WaitRunsOut, UpdataScreen, PollUpdated, ClearUpdated,
           SignalRefreshed, DrawFails, DrawLines, TestFaceDetected,
           DrawFaceRect,
           ImgProcessing, PollMailbox, CloneImage, FaceFound, NoFaceFound, SendPicture,
           SetFaceRect, SetFaceDetected, SetProcessed, display, vars, Halves
  <2> QED BY <2>1, <2>2
<1> QED BY <1>1, PacingHolds, PTL DEF Spec, NeverBackwards

-----------------------------------------------------------------------------
(* FaceCrop: the region that is sent of a picture with a face.              *)

\* What the crop relies on: the face is a detection, it overlaps the picture,
\* and it is at least four pixels long, so that its margin is not empty.
LEMMA DetectedBounds ==
    ASSUME NEW rect \in Detected
    PROVE  /\ rect.left \in Int /\ rect.left <= Width - 1
           /\ rect.top \in Int /\ rect.top <= Height - 1
           /\ rect.right \in Nat /\ rect.bottom \in Nat
           /\ rect.right >= rect.left + 3
           /\ rect.bottom >= rect.top + 3
<1>1. PICK l \in -Beyond .. Width - 1, t \in -Beyond .. Height - 1, s \in Sizes :
          /\ rect = Square(l, t, s)
          /\ rect.right \in 0 .. Width - 1 + Beyond
          /\ rect.bottom \in 0 .. Height - 1 + Beyond
  BY DEF Detected
<1>2. s \in Nat /\ s >= 4
  BY SizesAssumption
<1>3. l \in Int /\ l <= Width - 1 /\ t \in Int /\ t <= Height - 1
  BY SizesAssumption
<1>4. /\ rect.left = l /\ rect.top = t
      /\ rect.right = l + s - 1 /\ rect.bottom = t + s - 1
  BY <1>1 DEF Square
<1>5. rect.right \in Nat /\ rect.bottom \in Nat
  BY <1>1, SizesAssumption
<1> QED BY <1>2, <1>3, <1>4, <1>5

\* The margin and the clamp along one axis: the near edge is in the picture
\* and not beyond the face, the far edge likewise, and they differ.
LEMMA Axis ==
    ASSUME NEW near \in Int, NEW far \in Nat, NEW size \in Nat \ {0, 1},
           near <= size - 1, far >= near + 3,
           NEW from, NEW to,
           from = IF near - (far - near + 1) \div 4 >= 0
                  THEN near - (far - near + 1) \div 4 ELSE 0,
           to = IF far + (far - near + 1) \div 4 < size
                THEN far + (far - near + 1) \div 4 ELSE size - 1
    PROVE  /\ from \in Nat /\ to \in Nat
           /\ from < to /\ to <= size - 1
           /\ from <= near \/ from = 0
           /\ to >= far + 1 \/ to = size - 1
<1> DEFINE margin == (far - near + 1) \div 4
<1>1. margin \in Int /\ margin >= 1
  OBVIOUS
<1> HIDE DEF margin
<1>2. /\ from = IF near - margin >= 0 THEN near - margin ELSE 0
      /\ to = IF far + margin < size THEN far + margin ELSE size - 1
  BY DEF margin
<1> QED BY <1>1, <1>2

\* The crop of a detection, along both axes.
LEMMA CropEdges ==
    ASSUME NEW rect \in Detected
    PROVE  /\ Left(rect) \in Nat /\ Right(rect) \in Nat
           /\ Left(rect) < Right(rect) /\ Right(rect) <= Width - 1
           /\ Left(rect) <= rect.left \/ Left(rect) = 0
           /\ Right(rect) >= rect.right + 1 \/ Right(rect) = Width - 1
           /\ Top(rect) \in Nat /\ Bottom(rect) \in Nat
           /\ Top(rect) < Bottom(rect) /\ Bottom(rect) <= Height - 1
           /\ Top(rect) <= rect.top \/ Top(rect) = 0
           /\ Bottom(rect) >= rect.bottom + 1 \/ Bottom(rect) = Height - 1
<1>1. /\ rect.left \in Int /\ rect.right \in Nat
      /\ rect.left <= Width - 1 /\ rect.right >= rect.left + 3
      /\ rect.top \in Int /\ rect.bottom \in Nat
      /\ rect.top <= Height - 1 /\ rect.bottom >= rect.top + 3
  BY DetectedBounds
<1>2. Width \in Nat \ {0, 1} /\ Height \in Nat \ {0, 1}
  BY SizesAssumption
<1>3. /\ Left(rect) = IF rect.left - (rect.right - rect.left + 1) \div 4 >= 0
                      THEN rect.left - (rect.right - rect.left + 1) \div 4 ELSE 0
      /\ Right(rect) = IF rect.right + (rect.right - rect.left + 1) \div 4 < Width
                       THEN rect.right + (rect.right - rect.left + 1) \div 4
                       ELSE Width - 1
  BY Zenon DEF Left, Right, W
<1>4. /\ Top(rect) = IF rect.top - (rect.bottom - rect.top + 1) \div 4 >= 0
                     THEN rect.top - (rect.bottom - rect.top + 1) \div 4 ELSE 0
      /\ Bottom(rect) = IF rect.bottom + (rect.bottom - rect.top + 1) \div 4 < Height
                        THEN rect.bottom + (rect.bottom - rect.top + 1) \div 4
                        ELSE Height - 1
  BY Zenon DEF Top, Bottom, H
<1>5. /\ Left(rect) \in Nat /\ Right(rect) \in Nat
      /\ Left(rect) < Right(rect) /\ Right(rect) <= Width - 1
      /\ Left(rect) <= rect.left \/ Left(rect) = 0
      /\ Right(rect) >= rect.right + 1 \/ Right(rect) = Width - 1
  BY <1>1, <1>2, <1>3, Axis
<1>6. /\ Top(rect) \in Nat /\ Bottom(rect) \in Nat
      /\ Top(rect) < Bottom(rect) /\ Bottom(rect) <= Height - 1
      /\ Top(rect) <= rect.top \/ Top(rect) = 0
      /\ Bottom(rect) >= rect.bottom + 1 \/ Bottom(rect) = Height - 1
  BY <1>1, <1>2, <1>4, Axis
<1> QED BY <1>5, <1>6

-----------------------------------------------------------------------------
(* FaceDetectionDlib's loop, for every number of rectangles. Its rounds are *)
(* counted by induction; the library's least-number principle gives it in a *)
(* form the provers can use.                                                *)

\* A set of numbers has a least one.
LEMMA LeastNumber ==
    ASSUME NEW T \in SUBSET Nat, T # {}
    PROVE  \E m \in T : \A k \in T : m <= k
<1> DEFINE R == OpToRel(<, Nat)
<1>1. \A x, y \in Nat : <<y, x>> \in R <=> y < x
  BY DEF OpToRel
<1>2. IsWellFoundedOn(R, Nat)
  BY NatLessThanWellFounded
<1> HIDE DEF R
<1>3. PICK m \in T : \A k \in T : ~(<<k, m>> \in R)
  BY <1>2, WFMin, Zenon
<1>4. ASSUME NEW k \in T PROVE m <= k
  <2>1. k \in Nat /\ m \in Nat
    OBVIOUS
  <2>2. ~(k < m)
    BY <1>1, <1>3, <2>1
  <2> QED BY <2>1, <2>2
<1> QED BY <1>4

\* Counting: what holds of 0, and of n + 1 where it holds of n, holds of every
\* number. The statement is about a set, so that it can be cited.
LEMMA CountUpTo ==
    ASSUME NEW T \in SUBSET Nat, 0 \in T, \A n \in T : n + 1 \in T
    PROVE  T = Nat
<1> SUFFICES ASSUME Nat \ T # {} PROVE FALSE
  OBVIOUS
<1>1. PICK m \in Nat \ T : \A k \in Nat \ T : m <= k
  BY LeastNumber
<1>2. m # 0 /\ m - 1 \in Nat
  BY <1>1
<1>3. m - 1 \in T
  BY <1>1, <1>2
<1>4. (m - 1) + 1 = m
  BY <1>1
<1> QED BY <1>1, <1>3, <1>4

\* The area of the rectangle a round of the loop remembers, 0 before the first.
AreaAt(s, n) == IF n = 0 THEN 0 ELSE W(s[n]) * H(s[n])

\* One round of the loop, and a function that goes through the first n of them.
Round(s, b, n)  == IF AreaAt(s, b) < AreaAt(s, n) THEN n ELSE b
Loops(s, n, f) == f = [k \in 0 .. n |-> IF k = 0 THEN 0 ELSE Round(s, f[k - 1], k)]

\* The loop's function exists, for every number of rectangles.
LEMMA LoopExists ==
    ASSUME NEW s, NEW n \in Nat
    PROVE  \E f : Loops(s, n, f)
<1> DEFINE T == {m \in Nat : \E f : Loops(s, m, f)}
<1>1. 0 \in T
  <2>1. Loops(s, 0, [k \in 0 .. 0 |-> 0])
    BY DEF Loops
  <2> QED BY <2>1
<1>2. ASSUME NEW m \in T PROVE m + 1 \in T
  <2>1. PICK f : Loops(s, m, f)
    OBVIOUS
  <2> DEFINE v(k) == IF k = m + 1 THEN Round(s, f[m], m + 1) ELSE f[k]
             g    == [k \in 0 .. m + 1 |-> v(k)]
  <2>2. \A k \in 0 .. m + 1 : g[k] = v(k)
    OBVIOUS
  <2>3. ASSUME NEW k \in 0 .. m + 1
        PROVE  v(k) = IF k = 0 THEN 0 ELSE Round(s, g[k - 1], k)
    <3>1. CASE k = m + 1
      <4>1. k # 0 /\ k - 1 = m /\ m \in 0 .. m + 1 /\ m # m + 1
        BY <3>1
      <4>2. g[k - 1] = f[m]
        BY <2>2, <4>1
      <4> QED BY <3>1, <4>1, <4>2
    <3>2. CASE k # m + 1
      <4>1. k \in 0 .. m
        BY <3>2
      <4>2. f[k] = IF k = 0 THEN 0 ELSE Round(s, f[k - 1], k)
        BY <2>1, <4>1 DEF Loops
      <4>3. CASE k = 0
        BY <3>2, <4>2, <4>3
      <4>4. CASE k # 0
        <5>1. k - 1 \in 0 .. m + 1 /\ k - 1 # m + 1
          BY <4>1, <4>4
        <5>2. g[k - 1] = f[k - 1]
          BY <2>2, <5>1
        <5> QED BY <3>2, <4>2, <4>4, <5>2
      <4> QED BY <4>3, <4>4
    <3> QED BY <3>1, <3>2
  <2>4. Loops(s, m + 1, g)
    <3>1. g = [k \in 0 .. m + 1 |-> IF k = 0 THEN 0 ELSE Round(s, g[k - 1], k)]
      <4> DEFINE w(k) == IF k = 0 THEN 0 ELSE Round(s, g[k - 1], k)
      <4>1. \A k \in 0 .. m + 1 : v(k) = w(k)
        BY <2>3
      <4> HIDE DEF v, w
      <4>2. [k \in 0 .. m + 1 |-> v(k)] = [k \in 0 .. m + 1 |-> w(k)]
        BY <4>1
      <4>3. g = [k \in 0 .. m + 1 |-> w(k)]
        BY <4>2, Zenon
      <4> QED BY <4>3, Zenon DEF w
    <3> QED BY <3>1, Zenon DEF Loops
  <2>5. m + 1 \in Nat
    OBVIOUS
  <2> QED BY <2>4, <2>5
<1>3. \A m \in T : m + 1 \in T
  BY <1>2
<1>4. T = Nat
  <2> HIDE DEF T
  <2>1. T \in SUBSET Nat
    BY DEF T
  <2> QED BY <1>1, <1>3, <2>1, CountUpTo, Zenon
<1> QED BY <1>4

\* The loop, round by round.
LEMMA LoopRounds ==
    ASSUME NEW s, Len(s) \in Nat
    PROVE  /\ LargestUpTo(s)[0] = 0
           /\ \A k \in 1 .. Len(s) :
                 LargestUpTo(s)[k] = Round(s, LargestUpTo(s)[k - 1], k)
<1> DEFINE best == LargestUpTo(s)
<1>1. best = CHOOSE f : Loops(s, Len(s), f)
  BY DEF LargestUpTo, Loops, Round, AreaAt
<1>2. \E f : Loops(s, Len(s), f)
  BY LoopExists
<1>3. Loops(s, Len(s), best)
  BY <1>1, <1>2, Zenon
<1> HIDE DEF best
<1>4. \A k \in 0 .. Len(s) : best[k] = IF k = 0 THEN 0 ELSE Round(s, best[k - 1], k)
  BY <1>3 DEF Loops
<1>5. best[0] = 0 /\ \A k \in 1 .. Len(s) : best[k] = Round(s, best[k - 1], k)
  BY <1>4
<1> QED BY <1>5 DEF best

\* What the loop has found after n rounds: the first of the largest rectangles so
\* far.
Found(s, n, b) ==
    /\ b \in 0 .. n /\ (n > 0 => b > 0)
    /\ \A j \in 1 .. n : IF j < b THEN AreaAt(s, j) < AreaAt(s, b)
                                  ELSE AreaAt(s, j) <= AreaAt(s, b)

\* One more rectangle.
LEMMA FoundNext ==
    ASSUME NEW s, NEW n \in Nat, NEW b, Found(s, n, b),
           \A i \in 1 .. n + 1 : AreaAt(s, i) \in Nat \ {0}
    PROVE  Found(s, n + 1, Round(s, b, n + 1))
<1>1. b \in 0 .. n /\ b \in Int /\ AreaAt(s, n + 1) \in Nat \ {0}
  BY DEF Found
<1>2. AreaAt(s, b) \in Nat
  <2>1. CASE b = 0
    BY <2>1 DEF AreaAt
  <2>2. CASE b # 0
    <3>1. b \in 1 .. n + 1
      BY <1>1, <2>2
    <3> QED BY <3>1
  <2> QED BY <2>1, <2>2
<1>3. CASE AreaAt(s, b) < AreaAt(s, n + 1)
  <2>1. Round(s, b, n + 1) = n + 1
    BY <1>3 DEF Round
  <2>2. ASSUME NEW j \in 1 .. n + 1
        PROVE  IF j < n + 1 THEN AreaAt(s, j) < AreaAt(s, n + 1)
                            ELSE AreaAt(s, j) <= AreaAt(s, n + 1)
    <3>1. CASE j < n + 1
      <4>1. j \in 1 .. n
        BY <3>1
      <4>2. AreaAt(s, j) \in Nat /\ AreaAt(s, j) <= AreaAt(s, b)
        BY <1>2, <4>1 DEF Found
      <4> QED BY <1>1, <1>2, <1>3, <3>1, <4>2
    <3>2. CASE j = n + 1
      BY <1>1, <3>2
    <3> QED BY <3>1, <3>2
  <2> QED BY <1>1, <2>1, <2>2 DEF Found
<1>4. CASE ~(AreaAt(s, b) < AreaAt(s, n + 1))
  <2>1. Round(s, b, n + 1) = b
    BY <1>4 DEF Round
  <2>2. b > 0 /\ b \in 0 .. n + 1
    <3>1. b # 0
      BY <1>1, <1>4 DEF AreaAt
    <3> QED BY <1>1, <3>1
  <2>3. ASSUME NEW j \in 1 .. n + 1
        PROVE  IF j < b THEN AreaAt(s, j) < AreaAt(s, b)
                        ELSE AreaAt(s, j) <= AreaAt(s, b)
    <3>1. CASE j \in 1 .. n
      BY <3>1 DEF Found
    <3>2. CASE j = n + 1
      BY <1>1, <1>2, <1>4, <3>2
    <3> QED BY <3>1, <3>2
  <2> QED BY <2>1, <2>2, <2>3 DEF Found
<1> QED BY <1>3, <1>4

\* After the last round.
LEMMA LoopFinds ==
    ASSUME NEW s, Len(s) \in Nat, \A i \in 1 .. Len(s) : AreaAt(s, i) \in Nat \ {0}
    PROVE  Found(s, Len(s), LargestUpTo(s)[Len(s)])
<1> DEFINE best == LargestUpTo(s)
           T    == {n \in Nat : n <= Len(s) => Found(s, n, best[n])}
<1>1. best[0] = 0 /\ \A k \in 1 .. Len(s) : best[k] = Round(s, best[k - 1], k)
  BY LoopRounds
<1> HIDE DEF best
<1>2. 0 \in T
  BY <1>1 DEF Found
<1>3. ASSUME NEW n \in T PROVE n + 1 \in T
  <2>1. ASSUME n + 1 <= Len(s) PROVE Found(s, n + 1, best[n + 1])
    <3>1. n \in Nat /\ n + 1 \in 1 .. Len(s) /\ (n + 1) - 1 = n
      BY <2>1
    <3>2. Found(s, n, best[n])
      BY <2>1, <3>1
    <3>3. best[n + 1] = Round(s, best[n], n + 1)
      BY <1>1, <3>1
    <3>4. \A i \in 1 .. n + 1 : AreaAt(s, i) \in Nat \ {0}
      BY <2>1, <3>1
    <3> QED BY <3>1, <3>2, <3>3, <3>4, FoundNext
  <2> QED BY <2>1
<1>4. T = Nat
  <2> HIDE DEF T
  <2>1. T \in SUBSET Nat
    BY DEF T
  <2>2. \A n \in T : n + 1 \in T
    BY <1>3
  <2> QED BY <1>2, <2>1, <2>2, CountUpTo, Zenon
<1>5. Found(s, Len(s), best[Len(s)])
  BY <1>4
<1> QED BY <1>5 DEF best

-----------------------------------------------------------------------------
\* The face in hand is always one of the detections, and the region is its crop.
CropInv ==
    /\ stage \in {"captured", "detected", "cropped"}
    /\ vec_rst \in Seq(Detected)
    /\ face_rst = <<>> \/ \E rect \in Detected : face_rst = <<rect>>
    /\ region \in Region
    /\ stage = "cropped" =>
          \E rect \in Detected : face_rst = <<rect>> /\ region = CropOf(rect)

LEMMA CropIsRegion ==
    ASSUME NEW rect \in Detected PROVE CropOf(rect) \in Region
  BY CropEdges DEF CropOf, Region

LEMMA CropInitInv == CropInit => CropInv
<1> SUFFICES ASSUME CropInit PROVE CropInv
  OBVIOUS
<1>1. vec_rst \in Seq(Detected)
  <2>1. PICK n \in 0 .. MaxFaces : vec_rst \in [1 .. n -> Detected]
    BY DEF CropInit
  <2> QED BY <2>1, SizesAssumption
<1>2. region \in Region
  BY DEF CropInit, Nothing, Region
<1> QED BY <1>1, <1>2 DEF CropInit, CropInv

LEMMA CropNextInv == CropInv /\ [CropNext]_cropVars => CropInv'
<1> SUFFICES ASSUME CropInv, [CropNext]_cropVars PROVE CropInv'
  OBVIOUS
<1>1. CASE FaceDetectionDlib
  <2>1. face_rst' = <<>> \/ \E rect \in Detected : face_rst' = <<rect>>
    <3>1. CASE \E i \in DOMAIN vec_rst : face_rst' = <<vec_rst[i]>>
      <4>1. \A i \in DOMAIN vec_rst : vec_rst[i] \in Detected
        BY DEF CropInv
      <4> QED BY <3>1, <4>1
    <3> QED BY <1>1, <3>1 DEF FaceDetectionDlib
  <2>2. stage' = "detected" /\ UNCHANGED <<vec_rst, region>>
    BY <1>1 DEF FaceDetectionDlib
  <2> QED BY <2>1, <2>2 DEF CropInv
<1>2. CASE Crop
  <2>1. PICK rect \in Detected : face_rst = <<rect>>
    BY <1>2 DEF Crop, CropInv
  <2>2. region' = CropOf(rect)
    BY <1>2, <2>1 DEF Crop
  <2>3. stage' = "cropped" /\ UNCHANGED <<vec_rst, face_rst>>
    BY <1>2 DEF Crop
  <2> QED BY <2>1, <2>2, <2>3, CropIsRegion DEF CropInv
<1>3. CASE UNCHANGED cropVars
  BY <1>3 DEF cropVars, CropInv
<1> QED BY <1>1, <1>2, <1>3 DEF CropNext

LEMMA CropAlwaysInv == CropSpec => []CropInv
  BY CropInitInv, CropNextInv, PTL DEF CropSpec
-----------------------------------------------------------------------------
\* In every state the variables have their types; above all, no region that
\* ImgProcessing cuts out has a negative corner or side.
THEOREM CropTypeCorrect == CropSpec => []CropTypeOK
<1>1. CropInv => face_rst \in Seq(Detected)
  <2>1. <<>> \in Seq(Detected) /\ \A rect \in Detected : <<rect>> \in Seq(Detected)
    OBVIOUS
  <2> QED BY <2>1, Zenon DEF CropInv
<1>2. CropInv => CropTypeOK
  BY <1>1, Zenon DEF CropInv, CropTypeOK
<1> QED BY <1>2, CropAlwaysInv, PTL

\* The region cv::Mat's operator() is given lies in the picture and is not
\* empty, for every size of picture and every detection that overlaps it.
THEOREM CropsInside == CropSpec => []CropInside
<1>1. CropInv => CropInside
  <2> SUFFICES ASSUME CropInv, stage = "cropped"
               PROVE  /\ region.x + region.width <= Width
                      /\ region.y + region.height <= Height
                      /\ region.width > 0
                      /\ region.height > 0
    BY DEF CropInside
  <2>1. PICK rect \in Detected : region = CropOf(rect)
    BY DEF CropInv
  <2>2. Width \in Nat /\ Height \in Nat
    BY SizesAssumption
  <2> QED BY <2>1, <2>2, CropEdges DEF CropOf
<1> QED BY <1>1, CropAlwaysInv, PTL

\* What the cloud is sent holds all of the face that the camera saw, but for
\* the last column and line of the picture.
THEOREM SendsWholeFace == CropSpec => []WholeFace
<1>1. CropInv => WholeFace
  <2>1. SUFFICES ASSUME CropInv, stage = "cropped" PROVE WholeFace
    BY DEF WholeFace
  <2>2. PICK rect \in Detected : face_rst = <<rect>> /\ region = CropOf(rect)
    BY <2>1 DEF CropInv
  <2>3. face_rst[1] = rect
    BY <2>2
  <2>4. /\ region.x = Left(rect) /\ region.width = Right(rect) - Left(rect)
        /\ region.y = Top(rect) /\ region.height = Bottom(rect) - Top(rect)
    BY <2>2 DEF CropOf
  <2>5. /\ rect.left \in Int /\ rect.right \in Nat
        /\ rect.top \in Int /\ rect.bottom \in Nat
        /\ Width \in Nat /\ Height \in Nat
    BY DetectedBounds, SizesAssumption
  <2>6. ASSUME NEW c \in 0 .. Width - 2, c \in rect.left .. rect.right
        PROVE  c \in region.x .. region.x + region.width - 1
    BY <2>4, <2>5, <2>6, CropEdges
  <2>7. ASSUME NEW r \in 0 .. Height - 2, r \in rect.top .. rect.bottom
        PROVE  r \in region.y .. region.y + region.height - 1
    BY <2>4, <2>5, <2>7, CropEdges
  <2> QED BY <2>3, <2>6, <2>7 DEF WholeFace
<1> QED BY <1>1, CropAlwaysInv, PTL

\* The area of a detection is positive.
LEMMA DetectedArea ==
    ASSUME NEW rect \in Detected
    PROVE  W(rect) * H(rect) \in Nat \ {0}
<1>1. PICK l \in Int, t \in Int, z \in Sizes : rect = Square(l, t, z)
  BY DEF Detected
<1>2. z \in Nat \ (0 .. 3)
  BY SizesAssumption
<1>3. W(rect) = z /\ H(rect) = z
  BY <1>1, <1>2 DEF Square, W, H
<1>4. z * z \in Nat \ {0}
  BY <1>2
<1> QED BY <1>3, <1>4

\* What FaceDetectionDlib returns for a picture with detections.
LEMMA Largest ==
    ASSUME NEW s \in Seq(Detected), s # <<>>,
           NEW i \in DOMAIN s, i = LargestUpTo(s)[Len(s)],
           NEW j \in DOMAIN s
    PROVE  IF j < i THEN W(s[i]) * H(s[i]) - W(s[j]) * H(s[j]) > 0
                    ELSE W(s[i]) * H(s[i]) - W(s[j]) * H(s[j]) >= 0
<1>1. Len(s) \in Nat /\ DOMAIN s = 1 .. Len(s)
  OBVIOUS
<1>2. ASSUME NEW k \in 1 .. Len(s)
      PROVE  AreaAt(s, k) = W(s[k]) * H(s[k]) /\ AreaAt(s, k) \in Nat \ {0}
  <2>1. s[k] \in Detected /\ k # 0
    BY <1>1
  <2>2. AreaAt(s, k) = W(s[k]) * H(s[k])
    BY <2>1 DEF AreaAt
  <2> QED BY <2>1, <2>2, DetectedArea
<1>3. Found(s, Len(s), i)
  BY <1>1, <1>2, LoopFinds
<1>4. IF j < i THEN AreaAt(s, j) < AreaAt(s, i) ELSE AreaAt(s, j) <= AreaAt(s, i)
  BY <1>1, <1>3 DEF Found
<1>5. /\ AreaAt(s, i) = W(s[i]) * H(s[i]) /\ AreaAt(s, i) \in Nat
      /\ AreaAt(s, j) = W(s[j]) * H(s[j]) /\ AreaAt(s, j) \in Nat
  BY <1>1, <1>2
<1> DEFINE a == W(s[i]) * H(s[i])
           c == W(s[j]) * H(s[j])
<1>6. a \in Nat /\ c \in Nat /\ IF j < i THEN c < a ELSE c <= a
  BY <1>4, <1>5, Zenon
<1> HIDE DEF a, c
<1>7. IF j < i THEN a - c > 0 ELSE a - c >= 0
  BY <1>6
<1> QED BY <1>7 DEF a, c

\* A picture with detections has a largest one: the loop never ends with the
\* rectangle it started from, so FaceDetectionDlib's step can always be taken.
LEMMA OneIsFound ==
    ASSUME NEW s \in Seq(Detected), s # <<>>
    PROVE  LargestUpTo(s)[Len(s)] \in DOMAIN s
<1>1. Len(s) \in Nat /\ DOMAIN s = 1 .. Len(s) /\ Len(s) > 0
  OBVIOUS
<1>2. ASSUME NEW k \in 1 .. Len(s) PROVE AreaAt(s, k) \in Nat \ {0}
  <2>1. s[k] \in Detected /\ k # 0
    BY <1>1
  <2> QED BY <2>1, DetectedArea DEF AreaAt
<1>3. Found(s, Len(s), LargestUpTo(s)[Len(s)])
  BY <1>1, <1>2, LoopFinds
<1> QED BY <1>1, <1>3 DEF Found

\* Of any number of detections the first of the largest ones is sent, and one is
\* sent where there is any.
THEOREM LargestIsSent == CropSpec => []LargestFace
<1>1. CropInit => LargestFace
  BY DEF CropInit, LargestFace
<1>2. CropInv /\ LargestFace /\ [CropNext]_cropVars => LargestFace'
  <2> SUFFICES ASSUME CropInv, LargestFace, [CropNext]_cropVars PROVE LargestFace'
    OBVIOUS
  <2>1. CASE FaceDetectionDlib
    <3>1. UNCHANGED vec_rst /\ vec_rst \in Seq(Detected)
      BY <2>1 DEF FaceDetectionDlib, CropInv
    <3>2. CASE vec_rst = <<>>
      BY <2>1, <3>1, <3>2 DEF FaceDetectionDlib, LargestFace
    <3>3. CASE vec_rst # <<>>
      <4>1. PICK i \in DOMAIN vec_rst :
               i = LargestUpTo(vec_rst)[Len(vec_rst)] /\ face_rst' = <<vec_rst[i]>>
        BY <2>1, <3>3 DEF FaceDetectionDlib
      <4>2. \A j \in DOMAIN vec_rst :
               IF j < i THEN W(vec_rst[i]) * H(vec_rst[i]) - W(vec_rst[j]) * H(vec_rst[j]) > 0
               ELSE W(vec_rst[i]) * H(vec_rst[i]) - W(vec_rst[j]) * H(vec_rst[j]) >= 0
        BY <3>1, <3>3, <4>1, Largest
      <4> QED BY <3>1, <3>3, <4>1, <4>2, Zenon DEF LargestFace
    <3> QED BY <3>2, <3>3
  <2>2. CASE Crop \/ UNCHANGED cropVars
    <3>1. \/ UNCHANGED <<vec_rst, face_rst>> /\ stage # "captured"
          \/ UNCHANGED cropVars
      BY <2>2 DEF Crop
    <3> QED BY <3>1, Zenon DEF LargestFace, cropVars
  <2> QED BY <2>1, <2>2 DEF CropNext
<1> QED BY <1>1, <1>2, CropAlwaysInv, PTL DEF CropSpec

\* The region ImgProcessing cuts out fits the picture and the largest face.
THEOREM CropsFit == CropSpec => []CropFits
BY CropsInside, SendsWholeFace, LargestIsSent, PTL DEF CropFits
=============================================================================
