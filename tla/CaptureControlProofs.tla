------------------------- MODULE CaptureControlProofs -------------------------
(***************************************************************************)
(* Proofs about CaptureControl, for every number of captures and whether or *)
(* not making a thread may fail.                                            *)
(***************************************************************************)
EXTENDS CaptureControl, TLAPS

Creating == {"listen", "processing", "event", "display"}

\* While CreateThreadFun runs, capturing has started and has a number.
Started ==
    ui \in Creating => program_start /\ captures \in Capture

\* A listen thread that runs is the one whose handle is kept.
Handled == Alive("listen") \subseteq {thread_listen}

\* None runs before the new one is made, and none is left behind.
NoneRuns ==
    ui \in {"listen", "destroyed"} \/ (ui = "idle" /\ ~program_start)
        => Alive("listen") = {}

IInv == TypeOK /\ Started /\ Handled /\ NoneRuns

-----------------------------------------------------------------------------
LEMMA InitIInv == Init => IInv
<1> SUFFICES ASSUME Init PROVE IInv
  OBVIOUS
<1>1. Alive("listen") = {}
  BY DEF Init, Alive, Capture, Roles
<1>2. TypeOK
  <2>1. 0 \in 0 .. MaxCaptures
    BY MaxCapturesAssumption
  <2>2. at \in [Capture -> [Roles -> {"none", "test", "work", "gone"}]]
    BY DEF Init
  <2> QED BY <2>1, <2>2, Zenon DEF Init, TypeOK
<1>3. Started /\ Handled /\ NoneRuns
  BY <1>1 DEF Init, Started, Creating, Handled, NoneRuns
<1> QED BY <1>2, <1>3 DEF IInv

\* Making a thread of another role does not touch the listen threads.
LEMMA OtherRole ==
    ASSUME TypeOK, captures \in Capture, NEW r \in {"processing", "display"}, Runs(r)
    PROVE  /\ at' \in [Capture -> [Roles -> {"none", "test", "work", "gone"}]]
           /\ Alive("listen")' = Alive("listen")
<1>1. \A c \in Capture : at'[c]["listen"] = at[c]["listen"]
  BY DEF Runs, TypeOK, Roles
<1> QED BY <1>1 DEF Runs, TypeOK, Roles, Alive

\* What StopCapturing and the destructor have waited for is gone.
LEMMA Joined ==
    ASSUME TypeOK, Handled,
           thread_listen # 0 => at[thread_listen]["listen"] = "gone"
    PROVE  Alive("listen") = {}
<1> SUFFICES ASSUME NEW c \in Alive("listen") PROVE FALSE
  OBVIOUS
<1>1. c \in Capture /\ at[c]["listen"] \in {"test", "work"}
  BY DEF Alive
<1>2. c = thread_listen /\ c # 0
  BY <1>1, MaxCapturesAssumption DEF Handled, Capture
<1> QED BY <1>1, <1>2

LEMMA DialogStep == IInv /\ Dialog => IInv'
<1> SUFFICES ASSUME IInv, Dialog PROVE IInv'
  OBVIOUS
<1> USE DEF IInv, Started, Creating, Handled, NoneRuns
<1>0. TypeOK
  OBVIOUS
<1>1. CASE CaptureImage
  <2>1. TypeOK' /\ captures' \in Capture
    BY <1>1, MaxCapturesAssumption DEF CaptureImage, Goes, TypeOK, Capture
  <2>2. Alive("listen")' = Alive("listen")
    BY <1>1 DEF CaptureImage, Alive
  <2> QED BY <1>1, <2>1, <2>2 DEF CaptureImage, Goes
<1>2. CASE CreateListen
  <2>1. captures \in Capture /\ Alive("listen") = {}
    BY <1>2 DEF CreateListen, Goes
  <2>2. Alive("listen")' \subseteq {captures}
    BY <1>2, <1>0, <2>1 DEF CreateListen, Runs, Alive, TypeOK, Roles
  <2>3. TypeOK'
    BY <1>2, <1>0, <2>1, MaxCapturesAssumption
       DEF CreateListen, Runs, Goes, TypeOK, Roles, Capture
  <2> QED BY <1>2, <2>1, <2>2, <2>3 DEF CreateListen, Goes
<1>3. CASE CreateProcessing
  <2>1. captures \in Capture /\ Runs("processing")
    BY <1>3 DEF CreateProcessing, Goes
  <2>2. /\ at' \in [Capture -> [Roles -> {"none", "test", "work", "gone"}]]
        /\ Alive("listen")' = Alive("listen")
    BY <2>1, <1>0, OtherRole
  <2>3. TypeOK'
    BY <1>3, <1>0, <2>2 DEF CreateProcessing, Goes, TypeOK
  <2> QED BY <1>3, <2>2, <2>3 DEF CreateProcessing, Goes
<1>4. CASE CreateEvent
  <2>1. TypeOK'
    BY <1>4, <1>0 DEF CreateEvent, Goes, TypeOK
  <2>2. Alive("listen")' = Alive("listen")
    BY <1>4 DEF CreateEvent, Alive
  <2> QED BY <1>4, <2>1, <2>2 DEF CreateEvent, Goes
<1>5. CASE CreateDisplay
  <2>1. captures \in Capture /\ Runs("display")
    BY <1>5 DEF CreateDisplay, Goes
  <2>2. /\ at' \in [Capture -> [Roles -> {"none", "test", "work", "gone"}]]
        /\ Alive("listen")' = Alive("listen")
    BY <2>1, <1>0, OtherRole
  <2>3. TypeOK'
    BY <1>5, <1>0, <2>2 DEF CreateDisplay, Goes, TypeOK
  <2> QED BY <1>5, <2>2, <2>3 DEF CreateDisplay, Goes
<1>6. CASE CreateThreadFails
  <2>1. /\ ui' = "idle" /\ ui \in Creating
        /\ UNCHANGED <<program_start, captures, img_refreshed, at>>
        /\ thread_listen' = IF ui = "listen" THEN 0 ELSE thread_listen
    BY <1>6 DEF CreateThreadFails, Goes, Roles
  <2>2. thread_listen' \in 0 .. MaxCaptures
    <3>1. 0 \in 0 .. MaxCaptures
      BY MaxCapturesAssumption
    <3>2. thread_listen' \in {0, thread_listen}
      BY <2>1
    <3> QED BY <3>1, <3>2, <1>0 DEF TypeOK
  <2>3. TypeOK'
    BY <1>0, <2>1, <2>2, Zenon DEF TypeOK
  <2>4. Alive("listen")' = Alive("listen")
    BY <2>1 DEF Alive
  <2>5. Alive("listen") \subseteq {thread_listen'} /\ program_start'
    BY <2>1
  <2> QED BY <2>1, <2>3, <2>4, <2>5
<1>7. CASE StopCapturing
  <2>1. TypeOK'
    BY <1>7, <1>0 DEF StopCapturing, Goes, TypeOK
  <2>2. Alive("listen")' = Alive("listen")
    BY <1>7 DEF StopCapturing, Alive
  <2> QED BY <1>7, <2>1, <2>2 DEF StopCapturing, Goes
<1>8. CASE Destroy
  <2>1. TypeOK'
    BY <1>8, <1>0 DEF Destroy, Goes, TypeOK
  <2>2. Alive("listen")' = Alive("listen")
    BY <1>8 DEF Destroy, Alive
  <2> QED BY <1>8, <2>1, <2>2 DEF Destroy, Goes
<1>9. ASSUME NEW from, NEW to \in {"idle", "destroyed"}, JoinListen(from, to)
      PROVE  IInv'
  <2>1. Alive("listen") = {}
    BY <1>9, <1>0, Joined DEF JoinListen
  <2>2. Alive("listen")' = {}
    BY <1>9, <2>1 DEF JoinListen, Alive
  <2>0. 0 \in 0 .. MaxCaptures
    BY MaxCapturesAssumption
  <2>3. TypeOK'
    BY <1>9, <1>0, <2>0, Zenon DEF JoinListen, Goes, TypeOK
  <2> QED BY <1>9, <2>2, <2>3 DEF JoinListen, Goes
<1> QED BY <1>1, <1>2, <1>3, <1>4, <1>5, <1>6, <1>7, <1>8, <1>9
        DEF Dialog, CreateThreadFun

\* A thread's own steps bring no dead thread back.
LEMMA ThreadStep == IInv /\ Threads => IInv'
<1> SUFFICES ASSUME IInv, NEW c \in Capture, NEW r \in Roles,
                    TestStart(c, r) \/ Work(c, r)
             PROVE  IInv'
  BY DEF Threads
<1>1. /\ UNCHANGED <<ui, program_start, captures, thread_listen, img_refreshed>>
      /\ at[c][r] \in {"test", "work"}
      /\ \E to \in {"test", "work", "gone"} : at' = [at EXCEPT ![c][r] = to]
  BY DEF TestStart, Work, Moves
<1>2. PICK to \in {"test", "work", "gone"} : at' = [at EXCEPT ![c][r] = to]
  BY <1>1
<1>3. at' \in [Capture -> [Roles -> {"none", "test", "work", "gone"}]]
  BY <1>2 DEF IInv, TypeOK
<1>4. TypeOK'
  BY <1>1, <1>3, Zenon DEF IInv, TypeOK
<1>5. ASSUME NEW d \in Capture, at'[d]["listen"] \in {"test", "work"}
      PROVE  at[d]["listen"] \in {"test", "work"}
  <2>1. CASE c = d /\ r = "listen"
    BY <1>1, <2>1
  <2>2. CASE ~(c = d /\ r = "listen")
    BY <1>2, <1>5, <2>2 DEF IInv, TypeOK, Roles
  <2> QED BY <2>1, <2>2
<1>6. Alive("listen")' \subseteq Alive("listen")
  BY <1>5 DEF Alive
<1> QED BY <1>1, <1>4, <1>6 DEF IInv, Started, Handled, NoneRuns

LEMMA Inductive == Spec => []IInv
<1>1. IInv /\ UNCHANGED vars => IInv'
  <2>1. UNCHANGED vars => Alive("listen")' = Alive("listen")
    BY DEF vars, Alive
  <2>2. TypeOK /\ UNCHANGED vars => TypeOK'
    BY Zenon DEF vars, TypeOK
  <2> QED BY <2>1, <2>2 DEF vars, IInv, Started, Creating, Handled, NoneRuns
<1>2. IInv /\ [Next]_vars => IInv'
  BY <1>1, DialogStep, ThreadStep DEF Next
<1> QED BY InitIInv, <1>2, PTL DEF Spec

-----------------------------------------------------------------------------
\* Every state of the capture control is well typed.
THEOREM TypeCorrect == Spec => []TypeOK
BY Inductive, PTL DEF IInv

\* However often capturing starts and stops, one listen thread runs at most, and
\* none after StopCapturing and in the rest of the destructor.
THEOREM NeverTwoListeners == Spec => []OneListener
<1>1. IInv => OneListener
  BY DEF IInv, Handled, NoneRuns, OneListener
<1> QED BY <1>1, Inductive, PTL

-----------------------------------------------------------------------------
\* The handle that is kept is of a thread that was made, and capturing is over
\* where somebody waits for it.
Joinable ==
    /\ thread_listen # 0 => at[thread_listen]["listen"] # "none"
    /\ ui \in {"stop: wait", "destroy: wait"} => ~program_start

LEMMA NotZero == ASSUME NEW n \in 0 .. MaxCaptures, n # 0 PROVE n \in 1 .. MaxCaptures
  BY MaxCapturesAssumption

LEMMA HandleIsCapture == ASSUME TypeOK, thread_listen # 0 PROVE thread_listen \in Capture
<1>1. thread_listen \in 0 .. MaxCaptures
  BY DEF TypeOK
<1> QED BY <1>1, NotZero DEF Capture

LEMMA DialogJoinable == IInv /\ Joinable /\ Dialog => Joinable'
<1> SUFFICES ASSUME IInv, Joinable, Dialog PROVE Joinable'
  OBVIOUS
<1>0. TypeOK /\ Started
  BY DEF IInv
<1> USE DEF Goes, Creating
<1>1. CASE CaptureImage
  BY <1>1 DEF Joinable, CaptureImage
<1>2. CASE CreateListen
  <2>1. captures \in Capture /\ thread_listen' = captures /\ ui' = "processing"
    BY <1>0, <1>2 DEF CreateListen, Started
  <2>2. at'[captures]["listen"] = "test"
    BY <1>0, <1>2, <2>1 DEF CreateListen, Runs, TypeOK, Roles
  <2> QED BY <2>1, <2>2 DEF Joinable
<1>3. ASSUME NEW r \in {"processing", "display"}, Runs(r), captures \in Capture,
             ui' \notin {"stop: wait", "destroy: wait"}, UNCHANGED thread_listen
      PROVE  Joinable'
  <2>1. ASSUME thread_listen # 0
        PROVE  at'[thread_listen]["listen"] = at[thread_listen]["listen"]
    BY <1>0, <1>3, <2>1, HandleIsCapture DEF Runs, TypeOK, Roles
  <2> QED BY <1>3, <2>1 DEF Joinable
<1>4. CASE CreateProcessing \/ CreateDisplay
  BY <1>0, <1>3, <1>4 DEF CreateProcessing, CreateDisplay, Started
<1>5. CASE CreateEvent
  BY <1>5 DEF CreateEvent, Joinable
<1>6. CASE CreateThreadFails
  <2>1. ui' = "idle" /\ UNCHANGED at /\ thread_listen' \in {0, thread_listen}
    BY <1>6 DEF CreateThreadFails
  <2> QED BY <2>1 DEF Joinable
<1>7. CASE StopCapturing \/ Destroy
  BY <1>7 DEF StopCapturing, Destroy, Joinable
<1>8. CASE JoinListen("stop: wait", "idle") \/ JoinListen("destroy: wait", "destroyed")
  BY <1>8 DEF JoinListen, Joinable
<1> QED BY <1>1, <1>2, <1>4, <1>5, <1>6, <1>7, <1>8 DEF Dialog, CreateThreadFun

LEMMA ThreadJoinable == IInv /\ Joinable /\ Threads => Joinable'
<1> SUFFICES ASSUME IInv, Joinable, NEW c \in Capture, NEW r \in Roles,
                    TestStart(c, r) \/ Work(c, r)
             PROVE  Joinable'
  BY DEF Threads
<1>1. PICK to \in {"test", "work", "gone"} : at' = [at EXCEPT ![c][r] = to]
  BY DEF TestStart, Work, Moves
<1>2. UNCHANGED <<ui, program_start, thread_listen>>
  BY DEF TestStart, Work, Moves
<1>3. ASSUME thread_listen # 0
      PROVE  at'[thread_listen]["listen"] # "none"
  BY <1>1, <1>3, HandleIsCapture DEF IInv, Joinable, TypeOK, Roles
<1> QED BY <1>2, <1>3 DEF Joinable

\* StopCapturing and the destructor wait for no thread that was never made, and for
\* none that has not been told to end (ContentRendering.cpp:54, 122).
THEOREM JoinsOnlyEnding == Spec => []WaitsForEnding
<1>1. Init => IInv /\ Joinable
  BY InitIInv DEF Init, Joinable
<1>2. IInv /\ Joinable /\ [Next]_vars => Joinable'
  <2>1. ASSUME Joinable, UNCHANGED vars PROVE Joinable'
    <3>1. UNCHANGED <<ui, program_start, thread_listen, at>>
      BY <2>1 DEF vars
    <3> QED BY <2>1, <3>1 DEF Joinable
  <2> QED BY <2>1, DialogJoinable, ThreadJoinable DEF Next
<1>3. IInv /\ Joinable => WaitsForEnding
  <2> SUFFICES ASSUME IInv, Joinable, thread_listen # 0
               PROVE  at[thread_listen]["listen"] \in {"test", "work", "gone"}
    BY DEF Joinable, WaitsForEnding
  <2> QED BY HandleIsCapture DEF IInv, TypeOK, Joinable, Roles
<1> QED BY <1>1, <1>2, <1>3, Inductive, PTL DEF Spec
=============================================================================
