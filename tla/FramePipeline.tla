---------------------------- MODULE FramePipeline ----------------------------
(***************************************************************************)
(* The three worker threads of ContentRendering and what they share:       *)
(*   listen      ReceiveData_RaspPi and copyToBuffer (FrameAssembly has    *)
(*               what happens up to a finished buffer),                    *)
(*   processing  ImgProcessing,                                            *)
(*   display     UpdataScreen and DrawDevice::Draw.                        *)
(* No lock protects anything: _img_processed is the mailbox that hands     *)
(* _img_dis to the processing thread and back, _img_updated and the manual *)
(* reset event _img_refreshed pace the listen thread by the display.       *)
(* Every step below is one access to shared state; a copy into or out of   *)
(* _rgbDis takes two, so that its reader and its writer meet inside it.    *)
(*                                                                         *)
(* A picture is the number of its frame, 0 where there is none. Nothing in *)
(* the application stops capturing (CaptureControl has the threads' life). *)
(***************************************************************************)
EXTENDS Integers

CONSTANTS
    MaxFrames \* bound: the frames the camera completes

ASSUME MaxFramesAssumption == MaxFrames \in Nat

Frame  == 0 .. MaxFrames
Halves == {"top", "bottom"}

VARIABLES
    ui,            \* the dialog's thread: where CaptureImage is
    lpc, ppc, dpc, \* where the listen, processing and display threads are
    frame,         \* the frame in the newest temp_line_buf
    ran_out,       \* has a 100 ms wait of the listen thread ever run out?
    img_dis,       \* _img_dis: the frame whose temp_line_buf it points into
    img_processed, \* _img_processed
    img_updated,   \* _img_updated
    img_refreshed, \* _img_refreshed: the handle, and the event's state
    rgbDis,        \* _rgbDis, half by half
    src,           \* img_src, the clone the face is cut from, a local of the
                   \* last or present analysis
    face_detected_cnt, \* _face_detected_cnt
    sent,          \* the frame whose face was last given to send_pic
    streak,        \* analysed frames with a face since the last without one
    face_rect,     \* face_rect: the frame whose face it frames
    fact_detected, \* fact_detected: the frame that set it, 0 for false
    overlay,       \* the fact_detected this Draw has read
    drawn,         \* what was last copied into the bitmap, half by half
    missed         \* the frame the last Draw did not get on the screen, 0 if
                   \* it did or if another one is due

listening  == <<lpc, frame, ran_out>>
mailbox    == <<img_dis, img_processed>>
pacing     == <<img_updated, img_refreshed>>
processing == <<ppc, src, face_detected_cnt, sent, streak>>
face       == <<face_rect, fact_detected>>
display    == <<dpc, overlay, drawn, missed>>
vars == <<ui, listening, mailbox, pacing, rgbDis, processing, face, display>>

NoPicture == [h \in Halves |-> 0]

Init ==
    /\ ui = "idle"
    /\ lpc = "off" /\ ppc = "off" /\ dpc = "off"
    /\ frame = 0
    /\ ran_out = FALSE
    /\ img_dis = 0
    /\ img_processed = TRUE
    /\ img_updated = FALSE
    /\ img_refreshed = "null"
    /\ rgbDis = NoPicture
    /\ src = 0
    /\ face_detected_cnt = 0
    /\ sent = 0
    /\ streak = 0
    /\ face_rect = 0
    /\ fact_detected = 0
    /\ overlay = 0
    /\ drawn = NoPicture
    /\ missed = 0

UIGoes(from, to) == ui = from /\ ui' = to
LGoes(from, to)  == lpc = from /\ lpc' = to
PGoes(from, to)  == ppc = from /\ ppc' = to
DGoes(from, to)  == dpc = from /\ dpc' = to

-----------------------------------------------------------------------------
(* CaptureImage and CreateThreadFun: the listen thread runs before the     *)
(* event it waits for exists.                                              *)

StartListening ==
    /\ UIGoes("idle", "processing")
    /\ LGoes("off", "receive")
    /\ UNCHANGED <<frame, ran_out, mailbox, pacing, rgbDis, processing, face,
                   display>>

StartProcessing ==
    /\ UIGoes("processing", "event")
    /\ PGoes("off", "poll")
    /\ UNCHANGED <<listening, mailbox, pacing, rgbDis, src, face_detected_cnt,
                   sent, streak, face, display>>

CreateEvent ==
    /\ UIGoes("event", "display")
    /\ img_refreshed' = "reset"
    /\ UNCHANGED <<listening, mailbox, img_updated, rgbDis, processing, face,
                   display>>

StartDisplay ==
    /\ UIGoes("display", "done")
    /\ DGoes("off", "poll")
    /\ UNCHANGED <<listening, mailbox, pacing, rgbDis, processing, face,
                   overlay, drawn, missed>>

\* CreateThread returns NULL: no further thread is created, and those that run
\* go on.
CreateThreadFails ==
    /\ ui \in {"idle", "processing", "display"}
    /\ ui' = "done"
    /\ UNCHANGED <<listening, mailbox, pacing, rgbDis, processing, face, display>>

CaptureImage == \/ StartListening \/ StartProcessing \/ CreateEvent
                \/ StartDisplay \/ CreateThreadFails

\* The display thread could not be created, or one before it could not.
NoDisplay == ui = "done" /\ dpc = "off"

-----------------------------------------------------------------------------
(* The listen thread.                                                      *)

\* A call of ReceiveData_RaspPi fills a new temp_line_buf; a call that returns
\* without one changes nothing here.
FrameArrives ==
    /\ LGoes("receive", "mailbox")
    /\ frame < MaxFrames
    /\ frame' = frame + 1
    /\ UNCHANGED <<ui, ran_out, mailbox, pacing, rgbDis, processing, face,
                   display>>

\* Mutant: does not look.
TestProcessed_Ignored ==
    /\ LGoes("mailbox", "header")
    /\ UNCHANGED <<ui, frame, ran_out, mailbox, pacing, rgbDis, processing,
                   face, display>>

\* copyToBuffer: is the mailbox free?
TestProcessed ==
    /\ LGoes("mailbox", IF img_processed THEN "header" ELSE "top")
    /\ UNCHANGED <<ui, frame, ran_out, mailbox, pacing, rgbDis, processing,
                   face, display>>

\* A cv::Mat over src.data(): the header points into temp_line_buf.
SetImgDis ==
    /\ LGoes("header", "post")
    /\ img_dis' = frame
    /\ UNCHANGED <<ui, frame, ran_out, img_processed, pacing, rgbDis,
                   processing, face, display>>

PostImgDis ==
    /\ LGoes("post", "top")
    /\ img_processed' = FALSE
    /\ UNCHANGED <<ui, frame, ran_out, img_dis, pacing, rgbDis, processing,
                   face, display>>

CopyLines(h, from, to) ==
    /\ LGoes(from, to)
    /\ rgbDis' = [rgbDis EXCEPT ![h] = frame]
    /\ UNCHANGED <<ui, frame, ran_out, mailbox, pacing, processing, face,
                   display>>

SetUpdated(to) ==
    /\ LGoes("updated", to)
    /\ img_updated' = TRUE
    /\ UNCHANGED <<ui, frame, ran_out, mailbox, img_refreshed, rgbDis,
                   processing, face, display>>

\* Mutant: does not wait.
WaitRefreshed_Skipped(to) ==
    /\ LGoes("wait", to)
    /\ UNCHANGED <<ui, frame, ran_out, mailbox, pacing, rgbDis, processing,
                   face, display>>

\* WaitForSingleObject(_img_refreshed, 100); it fails at once on NULL.
WaitRefreshed(to) ==
    /\ LGoes("wait", to)
    /\ img_refreshed # "reset"
    /\ UNCHANGED <<ui, frame, ran_out, mailbox, pacing, rgbDis, processing,
                   face, display>>

WaitRunsOut ==
    /\ LGoes("wait", "reset")
    /\ img_refreshed = "reset"
    /\ ran_out' = TRUE
    /\ UNCHANGED <<ui, frame, mailbox, pacing, rgbDis, processing, face,
                   display>>

\* ResetEvent, then the return that frees temp_line_buf, and the next call.
ResetRefreshed(to) ==
    /\ LGoes("reset", to)
    /\ img_refreshed' = IF img_refreshed = "null" THEN "null" ELSE "reset"
    /\ UNCHANGED <<ui, frame, ran_out, mailbox, img_updated, rgbDis,
                   processing, face, display>>

\* Mutant: resets the event after announcing the frame, then waits for it.
HandOver_ResetsFirst ==
    \/ TestProcessed \/ SetImgDis \/ PostImgDis
    \/ CopyLines("top", "top", "bottom")
    \/ CopyLines("bottom", "bottom", "updated")
    \/ SetUpdated("reset") \/ ResetRefreshed("wait") \/ WaitRefreshed("receive")

HandOver ==
    \/ TestProcessed \/ SetImgDis \/ PostImgDis
    \/ CopyLines("top", "top", "bottom")
    \/ CopyLines("bottom", "bottom", "updated")
    \/ SetUpdated("wait") \/ WaitRefreshed("reset") \/ ResetRefreshed("receive")

-----------------------------------------------------------------------------
(* The processing thread. _img_sent, _prev_timestamp and _server_buf are   *)
(* written here and read nowhere.                                          *)

PollMailbox ==
    /\ PGoes("poll", "clone")
    /\ ~img_processed
    /\ UNCHANGED <<ui, listening, mailbox, pacing, rgbDis, src,
                   face_detected_cnt, sent, streak, face, display>>

CloneImage ==
    /\ PGoes("clone", "detect")
    /\ src' = img_dis
    /\ UNCHANGED <<ui, listening, mailbox, pacing, rgbDis, face_detected_cnt,
                   sent, streak, face, display>>

\* Mutant: sends at the first face.
FaceFound_AtOnce ==
    /\ PGoes("detect", IF face_detected_cnt = 0 THEN "send" ELSE "rect")
    /\ face_detected_cnt' = face_detected_cnt + 1
    /\ streak' = streak + 1
    /\ UNCHANGED <<ui, listening, mailbox, pacing, rgbDis, src, sent, face,
                   display>>

\* FaceDetectionDlib clones _img_dis a second time and looks for a face.
FaceFound ==
    /\ PGoes("detect", IF face_detected_cnt = 1 THEN "send" ELSE "rect")
    /\ face_detected_cnt' = face_detected_cnt + 1
    /\ streak' = streak + 1
    /\ UNCHANGED <<ui, listening, mailbox, pacing, rgbDis, src, sent, face,
                   display>>

NoFaceFound ==
    /\ PGoes("detect", "done")
    /\ face_detected_cnt' = 0
    /\ streak' = 0
    /\ fact_detected' = 0
    /\ UNCHANGED <<ui, listening, mailbox, pacing, rgbDis, src, sent,
                   face_rect, display>>

\* Mutant: goes on counting.
SendPicture_KeepsCount ==
    /\ PGoes("send", "rect")
    /\ sent' = src
    /\ UNCHANGED <<ui, listening, mailbox, pacing, rgbDis, src,
                   face_detected_cnt, streak, face, display>>

SendPicture ==
    /\ PGoes("send", "rect")
    /\ sent' = src
    /\ face_detected_cnt' = 0
    /\ UNCHANGED <<ui, listening, mailbox, pacing, rgbDis, src, streak, face,
                   display>>

SetFaceRect(from, to) ==
    /\ PGoes(from, to)
    /\ face_rect' = src
    /\ UNCHANGED <<ui, listening, mailbox, pacing, rgbDis, src,
                   face_detected_cnt, sent, streak, fact_detected, display>>

SetFaceDetected(from, to) ==
    /\ PGoes(from, to)
    /\ fact_detected' = src
    /\ UNCHANGED <<ui, listening, mailbox, pacing, rgbDis, src,
                   face_detected_cnt, sent, streak, face_rect, display>>

\* Mutant: leaves the mailbox as it is.
SetProcessed_Forgets ==
    /\ PGoes("done", "poll")
    /\ UNCHANGED <<ui, listening, mailbox, pacing, rgbDis, src,
                   face_detected_cnt, sent, streak, face, display>>

SetProcessed ==
    /\ PGoes("done", "poll")
    /\ img_processed' = TRUE
    /\ UNCHANGED <<ui, listening, img_dis, pacing, rgbDis, src,
                   face_detected_cnt, sent, streak, face, display>>

ImgProcessing ==
    \/ PollMailbox \/ CloneImage \/ FaceFound \/ NoFaceFound \/ SendPicture
    \/ SetFaceRect("rect", "flag") \/ SetFaceDetected("flag", "done")
    \/ SetProcessed

-----------------------------------------------------------------------------
(* The display thread.                                                     *)

PollUpdated(to) ==
    /\ DGoes("poll", to)
    /\ img_updated
    /\ missed' = 0
    /\ UNCHANGED <<ui, listening, mailbox, pacing, rgbDis, processing, face,
                   overlay, drawn>>

ClearUpdated(to) ==
    /\ DGoes("clear", to)
    /\ img_updated' = FALSE
    /\ UNCHANGED <<ui, listening, mailbox, img_refreshed, rgbDis, processing,
                   face, overlay, drawn, missed>>

\* SetEvent comes before Draw: the listen thread may go on meanwhile.
SignalRefreshed ==
    /\ DGoes("signal", "top")
    /\ img_refreshed' = "set"
    /\ UNCHANGED <<ui, listening, mailbox, img_updated, rgbDis, processing,
                   face, overlay, drawn, missed>>

\* Draw without resources, or with a CopyFromMemory that fails, returns; the
\* flag is down already and nothing will draw this picture again.
DrawFails ==
    /\ DGoes("top", "poll")
    /\ missed' = rgbDis["bottom"]
    /\ UNCHANGED <<ui, listening, mailbox, pacing, rgbDis, processing, face,
                   overlay, drawn>>

\* CopyFromMemory.
DrawLines(h, from, to) ==
    /\ DGoes(from, to)
    /\ drawn' = [drawn EXCEPT ![h] = rgbDis[h]]
    /\ UNCHANGED <<ui, listening, mailbox, pacing, rgbDis, processing, face,
                   overlay, missed>>

\* EndDraw shows what was copied, or fails, or finds the device lost.
EndDraw == dpc' = "poll" /\ missed' \in {0, drawn["bottom"]}

TestFaceDetected ==
    /\ dpc = "overlay"
    /\ IF fact_detected # 0 THEN dpc' = "rect" /\ missed' = missed ELSE EndDraw
    /\ overlay' = fact_detected
    /\ UNCHANGED <<ui, listening, mailbox, pacing, rgbDis, processing, face,
                   drawn>>

DrawFaceRect ==
    /\ dpc = "rect"
    /\ EndDraw
    /\ overlay' = 0
    /\ UNCHANGED <<ui, listening, mailbox, pacing, rgbDis, processing, face,
                   drawn>>

\* Mutant: clears the flag after it has copied the picture.
UpdataScreen_ClearsLate ==
    \/ PollUpdated("signal") \/ SignalRefreshed \/ DrawFails
    \/ DrawLines("top", "top", "bottom")
    \/ DrawLines("bottom", "bottom", "clear")
    \/ ClearUpdated("overlay") \/ TestFaceDetected \/ DrawFaceRect

UpdataScreen ==
    \/ PollUpdated("clear") \/ ClearUpdated("signal") \/ SignalRefreshed
    \/ DrawFails
    \/ DrawLines("top", "top", "bottom")
    \/ DrawLines("bottom", "bottom", "overlay")
    \/ TestFaceDetected \/ DrawFaceRect

-----------------------------------------------------------------------------
Next == \/ CaptureImage \/ FrameArrives \/ HandOver \/ WaitRunsOut
        \/ ImgProcessing \/ UpdataScreen

\* The listen and the display thread run when they can; nothing makes the camera
\* send or the user press the button, and nothing makes an analysis or a send
\* end. CaptureImage and Draw come to an end, well or badly. That a wait runs out
\* is counted on only where no display thread exists to end it; elsewhere
\* WaitRunsOut may happen and never has to.
Fairness ==
    /\ WF_vars(ui # "idle" /\ CaptureImage)
    /\ WF_vars(HandOver)
    /\ WF_vars(NoDisplay /\ WaitRunsOut)
    /\ WF_vars(UpdataScreen)

Spec     == Init /\ [][Next]_vars
FairSpec == Spec /\ Fairness

-----------------------------------------------------------------------------
TypeOK ==
    /\ ui \in {"idle", "processing", "event", "display", "done"}
    /\ lpc \in {"off", "receive", "mailbox", "header", "post", "top", "bottom",
                "updated", "wait", "reset"}
    /\ ppc \in {"off", "poll", "clone", "detect", "send", "rect", "flag", "done"}
    /\ dpc \in {"off", "poll", "clear", "signal", "top", "bottom", "overlay",
                "rect"}
    /\ frame \in Frame
    /\ ran_out \in BOOLEAN
    /\ img_dis \in Frame
    /\ img_processed \in BOOLEAN
    /\ img_updated \in BOOLEAN
    /\ img_refreshed \in {"null", "reset", "set"}
    /\ rgbDis \in [Halves -> Frame]
    /\ src \in Frame
    /\ face_detected_cnt \in 0 .. 2
    /\ sent \in Frame
    /\ streak \in Nat
    /\ face_rect \in Frame
    /\ fact_detected \in Frame
    /\ overlay \in Frame
    /\ drawn \in [Halves -> Frame]
    /\ missed \in Frame

\* The listen thread never changes _img_dis while the processing thread reads
\* it: the flag _img_processed is a sufficient lock (lines 301 and 360).
Analysing == ppc \in {"clone", "detect", "send", "rect", "flag", "done"}

MailboxExclusive == ~(lpc \in {"header", "post"} /\ Analysing)

\* The face is cut from the picture it was found in: both clones of one
\* analysis see the same _img_dis (lines 361 and 362).
SamePicture == ppc = "detect" => img_dis = src

\* A picture is sent only when its frame and the frame analysed before it both
\* showed a face, and no face counts for two pictures (line 365).
ConfirmedFaces == [][sent' # sent => streak >= 2 /\ streak % 2 = 0]_vars

\* The analysis takes a newer picture each time, one at a time, and sends none
\* twice: the three threads, the flag and the buffer implement LatestPicture.
\* An analysis lasts from its first clone to line 406.
Latest == INSTANCE LatestPicture WITH
              made  <- frame,
              taken <- src,
              busy  <- ppc \in {"detect", "send", "rect", "flag", "done"}

TakesNewer == Latest!Spec

\* The rectangle Draw frames is never older than the detection that made Draw
\* frame one: face_rect is written before fact_detected (lines 398, 399) and
\* read after it (DrawDevice.cpp:248).
OverlayNotStale == dpc = "rect" => face_rect >= overlay

\* While a picture is drawn the listen thread may overwrite it, for SetEvent
\* comes before Draw. As long as no wait has run out the two parts on the
\* screen are never more than two frames apart: one frame because of the early
\* signal, another because the signal of the frame before may still be standing.
TornByTwo ==
    dpc = "overlay" /\ ~ran_out =>
        drawn["bottom"] - drawn["top"] \in -1 .. 2

\* No picture is followed in the bitmap by an older one, in either half, so none
\* is on the screen (line 420).
NeverBackwards == [][\A h \in Halves : drawn'[h] >= drawn[h]]_vars

\* While the listen thread has to wait, the signal it waits for is on its way: the
\* flag is up that brings the display thread, where there is one, to SetEvent, or
\* the display thread is just before it (lines 289, 290, 418, 419).
SignalDue == lpc = "wait" /\ img_refreshed = "reset" => img_updated \/ dpc = "signal"

\* The last Draw got all of the newest picture on the screen.
ShowsNewest == missed = 0 /\ \A h \in Halves : drawn[h] = frame

\* Whenever the display thread polls and finds no flag, the newest picture the
\* listen thread has handed over is on the screen whole, or it is the very one that
\* the last Draw failed on: the flag cleared without a lock is never the one of a
\* picture Draw has not been given (line 418).
IdleShowsNewest ==
    lpc \in {"wait", "reset", "receive"} /\ dpc = "poll" /\ ~img_updated =>
        ShowsNewest \/ missed = frame

\* What opencv2/core/mat.hpp:843 asks of its user: _img_dis, a header over
\* external data, is read only while that data exists, that is, until the call
\* of ReceiveData_RaspPi that owns the vector returns.
ImgDisAlive ==
    ppc \in {"clone", "detect"} => img_dis = frame /\ lpc # "receive"

\* The last frame the camera completed gets on the screen whole, though the
\* flag that announces it is cleared without a lock: it is cleared before the
\* picture is read (line 418). Two things alone can keep it off: Draw was given
\* this frame and failed, which nothing tries again, or no display thread could be
\* created.
ShowsLatest ==
    frame > 0 ~>
        \/ dpc = "poll" /\ ShowsNewest
        \/ dpc = "poll" /\ missed = frame /\ ~img_updated /\ lpc = "receive"
        \/ NoDisplay

\* The listen thread is always ready for the next frame again: no signal of
\* the display is lost, so the 100 ms limit of the wait is needed only where the
\* display thread could not be created (lines 173, 290).
ListensAgain == lpc # "off" ~> lpc = "receive"
=============================================================================
