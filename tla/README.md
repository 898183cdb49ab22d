# A verification of the face recognition client

The repository is a system of five branches, of which two are present as source:
the Windows client `src/faceDlg` (MFC, about 2600 lines of its own in
`faceDlg/faceDlg` and as many in `faceDlg/OpenSSLProj`) and the iOS application
`src/detectedPeople`. A Raspberry Pi camera sends pictures to the client by UDP; the
client shows them, finds faces in them with dlib, cuts the face out and sends it to
a cloud server over TLS; the server answers with what it recognises, which the
client shows and passes on by UDP to the phone. Camera and server are not in the
repository.

This directory holds TLA+ modules of the client's components, TLC configurations
that check them on small instances, and proofs of theorems about them for TLAPS.

    tlc -workers 2 -config FrameAssembly.cfg MCFrameAssembly
    tlapm FrameAssemblyProofs.tla

Paths without a directory are in `src/faceDlg/faceDlg/faceDlg/`, those of the
socket classes in `src/faceDlg/faceDlg/OpenSSLProj/`.

## 1. The system's parts

### 1.1 Inventory

| part | state it keeps | operations | what is hard | what makes it correct |
|---|---|---|---|---|
| **Frame receiver**: `ReceiveData_RaspPi`, `CComm` (ContentRendering.cpp 222-299, Com.cpp) | the UDP socket, `_udp_pkg_idx`, the locals `rst_udp_pkg_num` and `temp_line_buf` | bind; select and receive a datagram; match, mismatch, time out, fail | datagrams lost, repeated, reordered, late; one index survives the call and the other counter does not | a finished buffer ends with one frame's numbers; the stream finds its way back after a disturbance, at a bounded price |
| **Frame pipeline**: `copyToBuffer`, `ImgProcessing`, `UpdataScreen` (ContentRendering.cpp 281-426) | `_img_dis` and `_img_processed`, `_rgbDis` and `_img_updated`, the event `_img_refreshed`, `face_rect` and `fact_detected`, `_face_detected_cnt` | hand a frame over; analyse; send; draw | three threads and the dialog, no lock, plain `bool`s as flags, a signal that comes before the work it announces | the mailbox has one user at a time; no picture analysed twice; the overlay is not older than its flag; signals are not lost; the newest picture is given to `Draw` |
| **Capture control**: `CaptureImage`, `CreateThreadFun`, `StopCapturing`, destructor (45-188) | `_program_start`, the thread handles | start, stop, destroy | a thread that cannot be made; start after stop; INFINITE waits | one listen thread at most; none after stop; the waits end |
| **Face selection and crop** (Img_Prepro.cpp, ContentRendering.cpp 362-397) | the detector's rectangles | pick the largest; add a margin; clamp | unsigned and signed arithmetic at the borders | the region lies in the picture and holds the face |
| **Draw device** (DrawDevice.cpp) | four Direct2D objects and the target's transform | create, draw, discard | the device is lost at any moment; one creation of four fails | the bitmap fits the target; nothing leaks; pictures are the right way up and come back |
| **Cloud client** (CloudClient.cpp) with **TCP and TLS client** (TCPClient.cpp, TCPSSLClient.cpp, SecureSocket.cpp) | `m_eStatus`, `m_ConnectSocket`, `m_pSSL`, the receive buffer | connect and reconnect, receive and dispatch, send a picture in two messages | the receiver reconnects under the sender's hands; every stage of Connect fails on its own | no stale message dispatched; no null or freed session used; framing of a picture on one connection; one live connection; it reconnects |
| **Thread class** (Thread.h, Thread.cpp) | three flags, a thread handle, the wake-up event | `Start`, `Stop`, `WakeUp`, the thread function | two writers of one flag; a stop that times out; a request just before a sleep | never two threads; a stop that succeeds has ended `Go`; a request is obeyed |
| **Result path**: `cmd_process`'s callback `ReceiveRst` (ContentRendering.cpp 428-502), `CComm::SendMsg` and the **dialog** (faceDlgDlg.cpp) | `_edit_box` and its text, the UDP socket | take an answer, send it to the phone, write the edit box; construct, capture | the receiver runs before `_edit_box` is assigned; writing the edit box waits for another thread; a field sent uninitialised | no write to a missing edit box; every result that says something is shown; the phone is not ahead of the dialog |
| **Phone** (ViewController.swift) | the labels, the main queue | receive a datagram, set the labels | a concurrent queue, datagrams lost, repeated, reordered; arithmetic that traps | the labels are of one person; what arrives is shown |
| **TCP and TLS server** (TCPServer.cpp, TCPSSLServer.cpp, SecureSocket.cpp) | the address, the listening and the accepted socket, session and context | Listen, Receive, Send, timeouts, Disconnect | every stage of Listen fails on its own; calls in any order; a total that counts errors | no socket lost, nothing freed twice; bytes go into the buffer and are told truly |
| **Socket library** (Socket.cpp, SecureSocket.cpp) | counters of users | start and stop with the first and the last user | | started while used |
| **Input box** (InputBox.cpp) | a modal window | message loop | | |
| dlib, OpenCV, CocoaAsyncSocket, OpenSSL | third party | | | |

### 1.2 How they interact

* The **dialog's thread** runs the constructors (which connect to the server, with
  no limit on the attempts) and `CaptureImage`, which starts the three **workers**.
  Nothing calls `StopCapturing`, `~ContentRendering` or `~CloudClient`.
* The **listen** thread owns the UDP socket. A finished buffer goes to the
  **processing** thread through `_img_dis`, when `_img_processed` says that it is
  free, and to the **display** thread through `_rgbDis`, paced by `_img_updated` in
  one direction and `_img_refreshed` in the other.
* The **processing** thread calls `CloudClient::send_pic`. It shares the connection
  with `CloudClient`'s own **receive** thread, which reconnects when it fails and
  calls back `ReceiveRst` with what arrives. `ReceiveRst` sends a datagram to the
  **phone** and writes the dialog's edit box, for which `SetWindowText` waits until
  the dialog's thread takes the message.
* The **display** thread calls `DrawDevice::Draw`, which reads `fact_detected` and
  `face_rect`, written by the processing thread.

None of this is protected by a lock. The server classes are compiled into the
client and used by nothing in it.

## 2. The modules

Every component is a module `X` (constants with named assumptions, variables named
after the code's members, an action per step, the properties at the end), a module
`MCX` for TLC, and a module `XProofs` with its theorems. The theorems about `FaceCrop`
(specification `CropSpec`) are at the end of `FramePipelineProofs`, because the pipeline's
processing thread calls it.

| module | code | variables and actions |
|---|---|---|
| `FrameAssembly` | `ReceiveData_RaspPi` up to a finished buffer, `BindMCU`, `RecvfromTimeOutUDP` | An action for each way round the loop: `PacketMatches`, `ShortPacketMatches`, `PacketMismatches`, `RecvFails`, `SelectTimesOut`, `SelectFails`, `FrameCompletes`. Camera (`CameraSends`) and network (`CameraPacketLost`, `NetDuplicates`, `NetReorders`) are external. A datagram is its frame and its number; what is appended of it is all of its lines or not (`full`). `completed`, `whole` and `faults` only count what happens. |
| `FramePipeline` | the handshake after a finished buffer, `ImgProcessing`, `UpdataScreen`, the part of `Draw` that copies and frames, with its failures | One program counter for each of dialog, listen, processing and display thread; a step for each access to shared state. A picture is the number of its frame; `_rgbDis` has two halves so that its reader and its writer meet inside it. `streak`, `ran_out`, `overlay` and `missed` (the frame the last `Draw` failed on) record history. |
| `LatestPicture` | (abstract) | What the pipeline promises its analysis: pictures are taken one at a time, each newer than the last, and each is sent at most once. `FramePipeline` implements it with `made` = frames completed, `taken` = the picture in `img_src`, `busy` = between the first clone and line 406. |
| `CaptureControl` | `CaptureImage`, `CreateThreadFun`, `StopCapturing`, the destructor, the `while (_program_start)` loops | Threads of one start are three roles under its number, so that those of an earlier start can still run. `CreateThreadFails` may strike at each. |
| `FaceCrop` | `FaceDetectionDlib`'s loop, lines 366-373 | One analysed picture: the detector's rectangles are the input, `LargestUpTo` is the loop, `Left`, `Right`, `Top`, `Bottom`, `CropOf` the region. |
| `DrawDevice` | `EnsureResources`, `DiscardResources`, `Draw` | Objects made by one `EnsureResources` share a number; `held` is the set of those not released. `Destroy` is the destructor; `DeviceLost` is external. |
| `CloudSession` | `CloudClient` with `CTCPSSLClient` and `CTCPClient`: `Connect` in its stages, `Disconnect`, `Send`, `Receive` | A program counter for the receiver and one for the sender; sockets are numbered in the order they are made; `open` is what the client holds, `alive` what the server does, `stream` what it got. |
| `PictureStream` | (abstract) | What `CloudClient` promises the server: connection follows connection, each picture is tried once, header and body in turn and on the newest connection only, a body right after its header unless it is the first message there. `CloudSession` implements it with `newest` = the number of the newest socket and `next` = what the sender has still to send. |
| `ThreadControl` | `Thread` | The three flags, each access a step; `at` says where each thread is, `client` where the caller of `Start` and `Stop` is. |
| `OneWorker` | (abstract) | What a `Thread` promises its client: there is work or there is none; it begins only where there is none and no request stands; a request is forgotten only where there is none; and what a `Stop` that waited has said stays true until the next call. `ThreadControl` implements it with `working` = some thread is in `Go` or on its way to it, as long as `SetThreadPriority` succeeds. |
| `ResultPath` | `ReceiveRst`, `SendMsg`, the dialog's start and its button, the phone's `didReceive` | `ui` and `rpc` say where the dialog's thread and the receiver are; an answer is the number of its picture and what is said of it. `TakeSetText` is the other half of `SetWindowText`. `net`, `blocks` and `mainQueue` are a datagram's three stations. Server and network are external. |
| `TCPServer` | `CTCPServer` and `CTCPSSLServer` | One object, of either class (`tls`), whose user calls in any order; `pc` says where the call is. Bytes are numbered, so that the buffer shows which were lost. `frees` counts what was freed. |

The pieces meet at named points. `FrameAssembly`'s `FrameCompletes` is
`FramePipeline`'s `FrameArrives`; `FramePipeline`'s `FaceFound` and `SendPicture` are
the two ends of `FaceCrop` and the start of `CloudSession`'s sender; its `DrawLines`
is `DrawDevice`'s `CopyFromMemory`, its `DrawFails` the returns of `EnsureResources` and
`CopyFails`, its `EndDraw` the three of that module; `CaptureControl` has the threads' lives before
and after. `CloudSession`'s `Dispatch` is `ResultPath`'s `ReceiveRst`, and
`ResultPath`'s `Capture` and `SendPicture` are `FramePipeline`'s `CaptureImage` and
`SendPicture`. The receive and send loops of `TCPServer` are, line for line, those of
`CTCPClient` as well, which `CloudSession` needs only for the TLS side.

### 2.1 What the models simplify

* A datagram has all the lines of its place in the frame or fewer. The code looks at
  the length only for 0, and line 256 appends what came; a datagram with the number
  that is waited for and fewer lines (`ShortPacketMatches`) makes the vector shorter
  than a picture, and `copyToBuffer` then reads past its end (line 313). No property
  denies that: `TailIsAFrame` is about the numbers. How many lines are missing, and
  what is read instead, is left out; such a buffer is no whole frame. A datagram
  longer than the buffer is a `RecvFails` (Winsock reports an error). One of less than
  eight bytes carries no number of its own, the code compares what the buffer holds
  from before; where it differs that is a `PacketMismatches`, and where it matches,
  line 256 inserts a range that ends before it begins, which is undefined and not
  modelled.
* Socket handles and thread handles are never reused for another object.
* An OpenSSL call on a session is one step. The client calls `SSL_read` and
  `SSL_write` on one session from two threads, which OpenSSL forbids; what happens
  inside then is not modelled. A message of the server is received whole: an answer
  has 80 bytes and fits one TLS record, and `SSL_read` returns one record at most.
* The wording of a result is left out. Of a result only the gender can be kept from
  the person before; name, age and emotion are set together and stand for one field.
* The receiver's reconnection is in `CloudSession`; `ResultPath` has its effect, that
  answers on the way are lost.
* The server object of `TCPServer` has one client socket at a time, whose user does
  not use it after `Disconnect` and calls Listen only without one. The peer's bytes
  are as many as `MaxBytes`; `recv` may give fewer than there are.
* `face_rect`, four numbers, is written and read in one step; the three reads of
  `IsThreadRunning` are one step.
* `Draw`'s test of the buffer's size is left out; its one caller always passes it.
* `ResultThread` returns at once and is left out, and so are the variables that are
  written and never read (`_img_sent`, `_prev_timestamp`, `_server_buf`).
* Reads and writes of plain `bool`s reach memory in program order. The build is for
  Windows on x86 processors, where the processor keeps stores in order; that the compiler
  keeps each access to a member across the calls around it is an assumption.

## 3. The runs

| run | instance | what it shows |
|---|---|---|
| `assembly` | frames of 3 datagrams, 10 frames, 3 in flight, 3 disturbances | A finished buffer has at least a frame's datagrams and ends with one frame's numbers in order (`TailIsAFrame`); it is as long as a picture unless one of them was short. A disturbance, a short datagram among them, costs three good pictures at most (`ImageBudget`). Deadlock is checked: the listen thread can always go on. |
| `pipeline` | 4 frames | `MailboxExclusive`, `TakesNewer`: the flag is a sufficient lock and the pipeline implements `LatestPicture`. `ConfirmedFaces`: a picture is sent for the second, fourth, ... face in a row only. `TornByTwo`: the halves of a drawn picture lie between -1 and 2 frames apart as long as no wait has run out; both ends of that range occur. `ListensAgain`: the listen thread never waits for good, and where there is a display thread it would not without the 100 ms limit. `ShowsLatest`: the last frame gets on the screen whole, unless `Draw` was given that very frame and failed, or no display thread could be made. |
| `pipeline_dangling` | 2 frames | finding 1 |
| `session` | 3 sockets, 2 pictures, `shutdown` may fail | `NeverStale`: what is dispatched has just been received. `SessionUsable`: no session is null or freed. `StreamsPictures`: the session implements `PictureStream`, so that a message goes to the newest connection only, header and body alternate on every connection but for its first message, and nothing is sent again. `OneLiveConnection`. `Reconnects`: a client that has lost its connection opens sockets until it is back in `Receive`, unless a server leaves a TLS handshake unanswered for ever. |
| `thread` | 3 threads, stops of up to 2 polls, `Go` may return by itself | `OneThread`; `IsOneWorker`: the class implements `OneWorker`, so that after a Stop that waited and said TRUE no thread is in `Go` until the next Start, and a Start forgets no request that still stands; and `ExitHeeded`: a request to exit ends `Go` even out of an infinite sleep, after a stop that has timed out too. |
| `crop` | a picture of 9 x 7, up to 2 squares of 4, 5 and 8, inside and over each border | `CropFits`: the region lies in the picture and holds the largest face. |
| `draw` | 3 targets, the 180 degrees the program uses | `BitmapOfTarget`, `NoTargetLeaks`, `ShowsAgain`: after each loss and failed creation a later picture is on the screen again. |
| `capture` | 3 starts, any `CreateThread` may fail | `OneListener`: one listen thread at most, and none after `StopCapturing` or in the rest of the destructor. `WaitsEnd`: the INFINITE waits end, unless one call of `ReceiveData_RaspPi` never returns. |
| `result` | 3 pictures, one repeated datagram, five kinds of answer, a documented and a negative flag | `EditBoxReady`: `_edit_box` is assigned when it is written, although the receiver is started before. `PhoneFollows`: the phone is ahead of the dialog by the result in hand at most. `LabelsTogether`: the gender shown is of the person named, if that person has one. `ResultShown`: a result that says something gets into the edit box, so the two threads never wait for each other. `PhoneShows`: a datagram that has arrived gets on the labels. |
| `result_flag` | 1 picture | finding 2 |
| `server` | 3 sockets, 3 bytes, a buffer of 2, 1 further try | `NothingLost`, `SessionsFreedOnce`, `WithinBuffer`, `ReceiveTells` over any sequence of calls: what Receive says is right as long as `recv` has not timed out. |
| `server_skips` | 2 sockets, 4 bytes, a buffer of 3 | finding 3 |

Every passing run also checks its module's type invariant (`TypeOK`, `CropTypeOK`). Deadlock is not checked where the
program may stop: the camera, the user and the bounds end each behaviour.

**Why the bounds are enough.** Three datagrams make a first, an inner and a last
one, the places where a loss has different effects. Ten frames let three
disturbances spoil three pictures each and leave one. Four frames
let a frame be received, displayed, analysed and waiting at once; leaving out
the listen thread's wait breaks `TornByTwo` only in the fourth. Three sockets are one that is lost, one that fails half
way and one that works; two pictures let a body and the next header follow each
other across a reconnection. Three threads let a start race the end of the thread
before it and be followed by another. Side lengths 4, 5 and 8 give a margin of one, a
margin that was rounded, and one of two, and a picture of 9 x 7 lets a square of 8 reach
over both sides. Three targets are a first, a lost and a repaired one. Three pictures
let one result be in hand, one on the phone's labels and one overtaken on the way;
the answers are nobody, an unknown face, a man, a woman and a person whose gender is
not told. Three sockets of the server are the listening one and two clients in turn,
and three bytes fill a buffer of two and leave one for the next Receive. Where a
theorem exists (section 4) it holds without these bounds.

**Fairness.** Each thread of the program is scheduled (weak fairness), because
Windows schedules threads of one priority round robin and none of them waits for a
lock. Nothing makes the camera send, the user press a button, a client call or a
device be lost. `WaitRunsOut` is fair only where no display thread exists (`NoDisplay`, a
`CreateThread` has failed), because there nothing else ends the wait; everywhere else
`ListensAgain` shows that the limit is never needed. A `Draw` comes to an end, well or
badly; nothing is assumed of the processing thread, whose `send_pic` may wait for the
server.

What waits for a peer need not end. The client sets no timeout on its socket, so
that a server which accepts the connection and never answers the handshake keeps
`SSL_connect` (TCPSSLClient.cpp:107) for ever: in `CloudSession` the receiver is fair
everywhere but there, `HandshakeFails` is fair where the connection has died, and
`Reconnects` excepts the handshake nobody answers (`Unanswered`). Its sender is not fair
at all. `SF(TcpConnects)` says that the network lets one attempt of infinitely many
through; `DrawDevice` grants the same of the Direct2D calls that may fail. Likewise
no round of a worker has to end in `CaptureControl`: `ReceiveData_RaspPi` returns with a
finished buffer, a failed receive or 1.05 s after the last datagram, but it never
tests `_program_start`, and a mismatch restores the full count (lines 262-266), so that
it goes on for as long as datagrams arrive that do not match. `WaitsEnd` excepts a call
that never returns. In that module only the tests of `_program_start` are fair.

`ThreadControl` has no fairness for the end of a
sleep, which may be INFINITE. In `ResultPath` the dialog's thread, the receiver, the
phone's main queue and each block of its concurrent queue run; nothing makes the user
press the button, the server answer or the network deliver, so `PhoneShows` starts from
a datagram that has arrived. `TCPServer` has safety properties only: what its user
does next, and whether the peer sends, is their own affair.

## 4. What is proved

Each theorem holds for every value of the constants under the module's named
assumptions (bounds are natural numbers, a frame has a datagram, a picture has two
columns and lines, a face is four pixels wide, and the like). Every safety property a
passing run checks is a theorem, the refinements of `LatestPicture`, `PictureStream`
and `OneWorker` among them. The proofs of one module share an inductive
invariant, a conjunction of named parts; where a theorem needs more, its own invariant
is proved on top of it.

| module | theorems | argument |
|---|---|---|
| `FrameAssemblyProofs` | `TypeCorrect`, `EndsWithAFrame`, `DisturbancesBounded` | `RunInv`: with `Matched` = N - `rst_udp_pkg_num`, the last `Matched` datagrams of the buffer are the numbers just before `_udp_pkg_idx`. The theorem is about the numbers, whatever length the datagrams have. The property speaks of a full count only, which says nothing of the step before; the invariant says it for every count. It survives a failed `recvfrom`, which keeps the index and empties the buffer, because the count starts again there. `DisturbancesBounded` is the theorem that `ImageBudget` always holds: a disturbance costs nothing when it happens (a short datagram one picture) and up to three pictures when the loop meets the gap it left, so the invariant keeps the debt as a ledger on the datagrams in flight: at each place what account a loop in step there needs. Loss, repetition and reordering rewrite the ledger by what one disturbance pays; the loop's step uses up its first entry. |
| `FramePipelineProofs` | `TypeCorrect`, `MailboxSafe`, `OnePicturePerAnalysis`, `OverlayFresh`, `AnalysisTakesNewer`, `SendsConfirmed` | `Lock` (who may touch the mailbox by the value of the flag), `Count` (the counter is 2 exactly on the way to `send_pic`), `Ages` (overlay <= rectangle <= mailbox <= newest frame), `Newer` (sent <= analysed <= mailbox, strictly while the mailbox is full). `AnalysisTakesNewer` maps every step to a step of `LatestPicture` or a stutter. `SendsConfirmed` needs `Streaks` besides: the code's counter and the streak agree modulo 2. |
| | `TornByTwoAtMost` | `Tearing`: `HalfDrawn` bounds, by where the display thread is inside a picture, how far the listen thread may get under it with the signal it is being given and the one that was standing. |
| | `NoWaitIsVain`, `NothingLeftToShow`, `PictureNeverAges` | `Pacing`: the safety half of `ListensAgain` and of `ShowsLatest`. `Paced`: a wait of the listen thread always has a signal set, a flag up or a display thread about to signal. `Caught`: where the flag is down and the frame handed over, the display thread has read what it has passed of the newest frame, and between two pictures it shows that frame or has failed on it. `NothingLeftToShow` therefore says that no picture is lost between the listen thread and `Draw`; a picture `Draw` fails on is lost, for nothing draws it again. The display clears the flag before it reads and signals after clearing; `CreateEvent` resets the event before there is a display thread. |
| | `CropTypeCorrect`, `CropsInside`, `SendsWholeFace`, `LargestIsSent`, `CropsFit` | About `FaceCrop`. Lemmas about the margins of one face; the invariant says that the region is `CropOf` the face returned. `LargestIsSent` needs an induction over the rectangles; no induction rule with an operator parameter can be used, so the lemmas argue by the least number at which the loop would go wrong (`NatLessThanWellFounded`, `WFMin`). |
| `CloudSessionProofs` | `TypeCorrect`, `NoStaleDispatch`, `SenderHasSession`, `ReceiverOwnsSession`, `OneConnection`, `PicturesFramed` | `Stage`: where the receiver is tells how far Connect has come; `Sessions`: no session is ever freed and the sender starts only when there is one. `Live` gives `OneConnection`: what is open and still works is `m_ConnectSocket`, and nothing is while a new socket is being made. `Framing` gives `PicturesFramed`: the last message on a connection that works tells where the sender is. After a header it is on the way to that picture's body, with this session in hand; after a body it is between two pictures. A sender that was handed an earlier session is on a connection that works no more, which `Live` and `Shaken` say. |
| | `SessionStreamsPictures`, `NothingSentTwice` | The first maps every step to a step of `PictureStream` or a stutter; a write that arrives is one on the newest connection (`Newest`, `Live`) and fits what is there (`Framing`). The second: `AllPast`, that whatever is on any connection comes before what the sender is to send next. |
| `ThreadControlProofs` | `TypeCorrect`, `NeverTwoThreads`, `StopWaitsForGo`, `ExitWakesSleepers`, `ImplementsOneWorker` | `OneAtATime`: while `m_bThreadStarted` is false no thread is left to write it, except one that has just been made. Under the condition that `SetThreadPriority` succeeds. `ExitWakesSleepers` (`SleepersWoken`) is inductive with it: only the thread that wakes uses the event up, and a request is taken back only where no thread is left. `ImplementsOneWorker` maps every step to a step of `OneWorker` or a stutter; `Told` adds that what a Stop has said is true and that a thread is made only without a request. |
| `DrawDeviceProofs` | `TypeCorrect`, `DrawsOwnBitmap`, `TargetsReleased`, `RightWayUp`, `DrawTellsTruth` | `Paired`: bitmap and target are of one creation and all that is held of these kinds; `Turned`, for the 180 degrees the program uses (`~Rotated`). |
| `CaptureControlProofs` | `TypeCorrect`, `NeverTwoListeners`, `JoinsOnlyEnding` | `Handled`: a listen thread that runs is the one whose handle is kept; `NoneRuns` says when there is none. `Joinable`: a handle kept is of a thread that was made, and capturing is over where somebody waits. |
| `ResultPathProofs` | `TypeCorrect`, `EditBoxAssigned`, `PhoneNearDialog`, `LabelsOfOne`, `NoMutualWait`, `TextNeverAges` | `AfterCapture`: what was asked, answered or is in hand belongs to a capture, and a capture to a dialog that is ready. `InOrder`: answers come in the pictures' order, after the one in hand. `AllFollow`: every datagram, wherever it is, was sent before the text of its result or is the one in hand. |
| `TCPServerProofs` | `ServerTypeCorrect`, `RecvStaysInBuffer`, `ServerKnowsSockets`, `NothingFreedTwice`, `ReceiveSaysWhatCame` | `Handles`: which sockets the object and its user hold at each place of a call. `Sessions` with `FreedAt`: of every session and context whether it may still be freed, the present ones first, because `Listen` may fail between making a context and a session. `Receives`, inside the loop: until an error the bytes so far are in order, and a reset stays one. |

Only model-checked: the liveness properties `ListensAgain`, `ShowsLatest`,
`Reconnects`, `ExitHeeded`, `ShowsAgain`, `WaitsEnd`, `ResultShown` and `PhoneShows`,
since liveness under fairness and `ENABLED` are out of the prover's reach. For most of
them the part that is safety is proved, the state from which nothing could go on:
`NoWaitIsVain` and `NothingLeftToShow` for the first two, `ExitWakesSleepers`,
`JoinsOnlyEnding` and `NoMutualWait` for theirs.

Some theorems (`OnePicturePerAnalysis`, `OverlayFresh`, `NoWaitIsVain`,
`NothingLeftToShow`, `PictureNeverAges`, `ReceiverOwnsSession`, `PicturesFramed`,
`NothingSentTwice`, `StopWaitsForGo`, `ExitWakesSleepers`, `RightWayUp`, `DrawTellsTruth`,
`JoinsOnlyEnding`, `NoMutualWait`, `TextNeverAges`, `CropsInside`, `SendsWholeFace`,
`LargestIsSent`) are of definitions no run lists: the proof is for every value of the
constants, and a run would add nothing. No module declares a RECURSIVE operator; the
one recursion, `LargestUpTo`, is a recursive function.

## 5. Findings

Disagreements of the code with what its own comments or the documentation of a
library in the repository say, each with a run whose counterexample shows it.

1. **A header over freed data** (`pipeline_dangling`, ContentRendering.cpp:302).
   `_img_dis` is a `cv::Mat` over `temp_line_buf`, a local of `ReceiveData_RaspPi`;
   the processing thread clones it after that function may have returned. opencv2's
   mat.hpp:843 leaves it to the caller to keep such data alive. `MailboxExclusive`
   holds nevertheless: the flag guards the header and not the pixels under it.
2. **A flag that nothing sets** (`result_flag`, ContentRendering.cpp:477,
   Protocols.h:46-51). `ReceiveRst` fills an automatic `Individual_Info_Header` but
   not its `flag`, for which Protocols.h lists three values, and sends it. On the phone
   `toInt32` adds up its bytes in an `Int32`, which traps where the top byte says
   128 or more; `PhoneShows` excepts that end.
3. **A Receive that skips a byte** (`server_skips`, TCPServer.cpp:383, 341). `recv`'s
   -1 is added to the total before anything looks at it. After a timeout in the middle
   of a message the next byte is written over the last one, and the length returned
   counts one byte less than was taken from the connection.

More observations, which no run states:

* `SessionUsable` depends on a leak: `SSL_CTX` and `SSL` of every reconnect are never
  freed, and freeing them in `Connect` would make the sender use a freed session.
* A failed `CreateThreadFun` leaves `_program_start` true, so that the button does
  nothing any more.
* `Connect` ignores that `Disconnect` failed and logs that the last connection was
  closed (TCPClient.cpp:72); where `shutdown` fails on a reset connection its socket
  leaks. `OneLiveConnection` holds, because such a connection is dead.
* The flag `_img_updated` is down before `Draw` is called and nobody looks at what `Draw`
  returns: a picture it fails on, the last one for instance, is not drawn again.
* A datagram with a matching number and too few lines makes `copyToBuffer` read past the
  end of its vector (ContentRendering.cpp:256, 313).
* `Start` returns true although nothing runs, when it is called between the return of
  `Go` and Thread.cpp:30.
* `EnsureResources` reports success without a stroke style or a brush when their
  creation failed and the target exists (DrawDevice.cpp:110), and `Draw` announces a
  retry that nothing makes (DrawDevice.cpp:268).
* A server whose Listen has failed once before `bind` was through reads a null address
  in the next Listen (TCPServer.cpp:119); the action `NoAddress` is that step.
* `CTCPSSLServer::Listen` leaves the accepted socket open to its user when the context
  or the handshake fails (TCPSSLServer.cpp:49, 125).
* `send_pic` does not free its buffer when a Send fails (CloudClient.cpp:105, 112).

## 6. Not modelled

* dlib, the OpenCV headers and CocoaAsyncSocket are third-party code that lies in the
  repository and makes up nearly all of its lines; OpenSSL, MFC and Direct2D are not
  in it. They are taken as their callers use them: a detector that returns any
  squares that overlap the picture (`FaceCrop` has the size of a dlib rectangle and the
  shape of a detection), a matrix header over somebody's data, a queue that gets a block
  for each datagram and finishes them in any order (`ResultPath`'s `Deliver`). Numerical
  templates and interface declarations have no behaviour that this program's correctness
  turns on, and no module attempts them. The modules stand
  for about 1900 of the roughly 5200 lines of the program's own code; the rest is
  headers, logging, the Linux half of the socket classes and window handling.
* The socket library's counters (Socket.cpp 30-45, 56-64, SecureSocket.cpp 34-56): one
  counter under one mutex each, changed by constructors and destructors alone.
* The input box: one modal window, one thread, no caller.
* The Raspberry Pi and the recognition server, which are not in the repository.
* `get_info`, the timeouts and the TLS shutdown of the clients, the destructors of
  `CloudClient` and `Thread`, a `SetThreadPriority` by itself (no caller).
* The layout of window and text.

## 7. The plan

Done, in the order of importance: `FrameAssembly`, `FramePipeline` with
`LatestPicture`, `CloudSession` with `PictureStream`, `ThreadControl` with `OneWorker`,
`FaceCrop`, `DrawDevice`, `CaptureControl`, `ResultPath` and `TCPServer`, each with its proofs.

What is left:

1. One more abstract specification: what a user of `TCPServer` is told, a stream of
   bytes.
2. Theorems about two components together, as `FrameAssembly`'s finished buffers are
   `FramePipeline`'s frames.
