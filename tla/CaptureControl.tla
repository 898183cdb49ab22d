---------------------------- MODULE CaptureControl ----------------------------
(***************************************************************************)
(* The life of ContentRendering's worker threads: CaptureImage and           *)
(* CreateThreadFun make them, StopCapturing and the destructor end them, all  *)
(* of it on the dialog's thread. _program_start is a plain bool that the      *)
(* threads' loops test before every round. The dialog calls CaptureImage      *)
(* only; StopCapturing and the destructor are the class's own interface.      *)
(*                                                                           *)
(* The fourth thread, ResultThread, returns at once and is left out.          *)
(***************************************************************************)
EXTENDS Integers

CONSTANTS
    MaxCaptures, \* bound: how often capturing starts
    CreateFails  \* may CreateThread fail?

ASSUME MaxCapturesAssumption == MaxCaptures \in Nat
ASSUME CreateFailsAssumption == CreateFails \in BOOLEAN

Capture == 1 .. MaxCaptures
Roles   == {"listen", "processing", "display"}

VARIABLES
    ui,            \* where the dialog's thread is
    program_start, \* _program_start
    captures,      \* how often capturing has started
    thread_listen, \* _thread_listen: the capture it belongs to, 0 for NULL
    img_refreshed, \* _img_refreshed: does the event exist?
    at             \* where the threads of each capture are

vars == <<ui, program_start, captures, thread_listen, img_refreshed, at>>

Init ==
    /\ ui = "idle"
    /\ program_start = FALSE
    /\ captures = 0
    /\ thread_listen = 0
    /\ img_refreshed = FALSE
    /\ at = [c \in Capture |-> [r \in Roles |-> "none"]]

Goes(from, to) == ui = from /\ ui' = to

Alive(r) == {c \in Capture : at[c][r] \in {"test", "work"}}

-----------------------------------------------------------------------------
(* CaptureImage.                                                            *)

CaptureImage ==
    /\ Goes("idle", "listen")
    /\ ~program_start
    /\ captures < MaxCaptures
    /\ program_start' = TRUE
    /\ captures' = captures + 1
    /\ UNCHANGED <<thread_listen, img_refreshed, at>>

Runs(r) == at' = [at EXCEPT ![captures][r] = "test"]

CreateListen ==
    /\ Goes("listen", "processing")
    /\ Runs("listen")
    /\ thread_listen' = captures
    /\ UNCHANGED <<program_start, captures, img_refreshed>>

CreateProcessing ==
    /\ Goes("processing", "event")
    /\ Runs("processing")
    /\ UNCHANGED <<program_start, captures, thread_listen, img_refreshed>>

CreateEvent ==
    /\ Goes("event", "display")
    /\ img_refreshed' = TRUE
    /\ UNCHANGED <<program_start, captures, thread_listen, at>>

CreateDisplay ==
    /\ Goes("display", "idle")
    /\ Runs("display")
    /\ UNCHANGED <<program_start, captures, thread_listen, img_refreshed>>

\* Mutant: takes the failure for INVALID_HANDLE_VALUE, which no test looks for.
CreateThreadFails_Invalid ==
    /\ CreateFails
    /\ \E r \in Roles : Goes(r, "idle")
    /\ thread_listen' = IF ui = "listen" THEN -1 ELSE thread_listen
    /\ UNCHANGED <<program_start, captures, img_refreshed, at>>

\* CreateThread returns NULL: CreateThreadFun makes no more threads and returns
\* false, and CaptureImage does not look.
CreateThreadFails ==
    /\ CreateFails
    /\ \E r \in Roles : Goes(r, "idle")
    /\ thread_listen' = IF ui = "listen" THEN 0 ELSE thread_listen
    /\ UNCHANGED <<program_start, captures, img_refreshed, at>>

CreateThreadFun ==
    \/ CreateListen \/ CreateProcessing \/ CreateEvent \/ CreateDisplay
    \/ CreateThreadFails

-----------------------------------------------------------------------------
(* StopCapturing and the destructor.                                        *)

\* Mutant: waits for the thread before it tells it to end.
StopCapturing_Late ==
    /\ Goes("idle", "stop: wait")
    /\ program_start
    /\ UNCHANGED <<program_start, captures, thread_listen, img_refreshed, at>>

StopCapturing ==
    /\ Goes("idle", "stop: wait")
    /\ program_start
    /\ program_start' = FALSE
    /\ UNCHANGED <<captures, thread_listen, img_refreshed, at>>

Destroy ==
    /\ Goes("idle", "destroy: wait")
    /\ program_start' = FALSE
    /\ UNCHANGED <<captures, thread_listen, img_refreshed, at>>

\* Mutant: closes the handle of a thread that may run.
JoinListen_Closes(from, to) ==
    /\ Goes(from, to)
    /\ thread_listen' = 0
    /\ UNCHANGED <<program_start, captures, img_refreshed, at>>

\* WaitForSingleObject, which fails at once on NULL, and CloseHandle.
JoinListen(from, to) ==
    /\ Goes(from, to)
    /\ thread_listen # 0 => at[thread_listen]["listen"] = "gone"
    /\ thread_listen' = 0
    /\ UNCHANGED <<program_start, captures, img_refreshed, at>>

-----------------------------------------------------------------------------
(* The threads' loops.                                                      *)

Moves(c, r, from, to) ==
    /\ at[c][r] = from
    /\ at' = [at EXCEPT ![c][r] = to]
    /\ UNCHANGED <<ui, program_start, captures, thread_listen, img_refreshed>>

\* while (_program_start)
TestStart(c, r) == Moves(c, r, "test", IF program_start THEN "work" ELSE "gone")

\* One call of ReceiveData_RaspPi, ImgProcessing or UpdataScreen. None of them
\* looks at _program_start.
Work(c, r) == Moves(c, r, "work", "test")

-----------------------------------------------------------------------------
Dialog == \/ CaptureImage \/ CreateThreadFun \/ StopCapturing \/ Destroy
          \/ JoinListen("stop: wait", "idle")
          \/ JoinListen("destroy: wait", "destroyed")

Threads == \E c \in Capture, r \in Roles : TestStart(c, r) \/ Work(c, r)

Next == Dialog \/ Threads

\* A call of the dialog goes on; nothing makes it call. The threads run, but
\* nothing makes a round of theirs end: while datagrams arrive that do not match,
\* ReceiveData_RaspPi begins again with the full count and select never gives up.
Fairness ==
    /\ WF_vars(ui # "idle" /\ Dialog)
    /\ \A c \in Capture, r \in Roles : WF_vars(TestStart(c, r))

Spec     == Init /\ [][Next]_vars
FairSpec == Spec /\ Fairness

-----------------------------------------------------------------------------
TypeOK ==
    /\ ui \in {"idle", "listen", "processing", "event", "display", "stop: wait",
               "destroy: wait", "destroyed"}
    /\ program_start \in BOOLEAN
    /\ captures \in 0 .. MaxCaptures
    /\ thread_listen \in 0 .. MaxCaptures
    /\ img_refreshed \in BOOLEAN
    /\ at \in [Capture -> [Roles -> {"none", "test", "work", "gone"}]]

\* However capturing is started and stopped, and whichever thread cannot be
\* made, at most one listen thread runs: two would share the socket and
\* _udp_pkg_idx (ContentRendering.cpp:119, 222). And none runs once StopCapturing
\* has returned or the destructor has gone on to free what it uses (lines 54,
\* 61, 122).
OneListener ==
    /\ \A c, d \in Alive("listen") : c = d
    /\ ui = "destroyed" \/ (ui = "idle" /\ ~program_start) => Alive("listen") = {}

\* What StopCapturing and the destructor wait for is a thread that was made and has
\* been told to end, whichever threads could not be made before (lines 52-54, 121,
\* 122, 160).
WaitsForEnding ==
    ui \in {"stop: wait", "destroy: wait"} =>
        /\ ~program_start
        /\ thread_listen # 0 => at[thread_listen]["listen"] \in {"test", "work", "gone"}

\* StopCapturing and the destructor come back from their INFINITE waits (lines 54,
\* 122), unless one call of ReceiveData_RaspPi never returns (lines 228-279): the
\* thread they wait for needs no more than the end of the round it is in.
WaitsEnd ==
    \/ ui \in {"stop: wait", "destroy: wait"} ~> ui \in {"idle", "destroyed"}
    \/ <>[](\E c \in Capture : at[c]["listen"] = "work")
=============================================================================
