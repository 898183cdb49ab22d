---------------------------- MODULE ThreadControl ----------------------------
(***************************************************************************)
(* The Thread class (Thread.h, Thread.cpp): a thread object that can be    *)
(* started and stopped again and again. One client calls Start, Stop and   *)
(* WakeUp; every thread Start makes runs ThreadFuncMain and, as its Go, the *)
(* loop that Thread.h gives as the form to follow. The three flags are     *)
(* volatile and no lock guards them: every read or write is a step, except *)
(* that the three reads of IsThreadRunning are one.                        *)
(***************************************************************************)
EXTENDS Integers

CONSTANTS
    MaxThreads,    \* bound: threads made
    MaxPolls,      \* bound: 100 * dwTimeOutSec
    PriorityFails, \* may ::SetThreadPriority fail?
    GoEnds         \* may Go return although no exit was requested?

ASSUME BoundsAssumption == MaxThreads \in Nat /\ MaxPolls \in Nat
ASSUME ChoicesAssumption == PriorityFails \in BOOLEAN /\ GoEnds \in BOOLEAN

Thrd == 1 .. MaxThreads

VARIABLES
    m_bThreadStarted, m_bThreadFinished, m_bExitRequest,
    m_hThread, \* the newest thread, 0 for none
    m_hWakeUp, \* is the event set? It resets itself when it wakes a thread
    at,        \* where each thread is
    client,    \* where the client is
    timeout,   \* 100 * dwTimeOutSec of the Stop it is in
    nMax,      \* the polls left of it
    returned   \* what its last call returned

flags  == <<m_bThreadStarted, m_bThreadFinished, m_bExitRequest>>
handle == <<m_hThread, m_hWakeUp>>
call   == <<client, timeout, nMax, returned>>
vars   == <<flags, handle, at, call>>

Result == [call : {"none", "Start", "Stop"}, ok : BOOLEAN]

Init ==
    /\ m_bThreadStarted = FALSE
    /\ m_bThreadFinished = FALSE
    /\ m_bExitRequest = FALSE
    /\ m_hThread = 0
    /\ m_hWakeUp = FALSE
    /\ at = [t \in Thrd |-> "none"]
    /\ client = "idle"
    /\ timeout = 0
    /\ nMax = 0
    /\ returned = [call |-> "none", ok |-> FALSE]

-----------------------------------------------------------------------------
(* A thread.                                                                *)

Goes(t, from, to) == at[t] = from /\ at' = [at EXCEPT ![t] = to]

SetStarted(t) ==
    /\ Goes(t, "new", "entered")
    /\ m_bThreadStarted' = TRUE
    /\ UNCHANGED <<m_bThreadFinished, m_bExitRequest, handle, call>>

ClearFinished(t) ==
    /\ Goes(t, "entered", "go")
    /\ m_bThreadFinished' = FALSE
    /\ UNCHANGED <<m_bThreadStarted, m_bExitRequest, handle, call>>

\* Go: while (!GetExitRequest()) WakableSleep(...)
TestExit(t) ==
    /\ Goes(t, "go", IF m_bExitRequest THEN "return" ELSE "sleep")
    /\ UNCHANGED <<flags, handle, call>>

\* WakableSleep: the event ends it, or the time runs out.
Awake(t) ==
    /\ Goes(t, "sleep", "go")
    /\ m_hWakeUp
    /\ m_hWakeUp' = FALSE
    /\ UNCHANGED <<flags, m_hThread, call>>

SleepEnds(t) ==
    /\ Goes(t, "sleep", "go")
    /\ UNCHANGED <<flags, handle, call>>

GoEnd(t) ==
    /\ GoEnds
    /\ Goes(t, "go", "return")
    /\ UNCHANGED <<flags, handle, call>>

SetFinished(t) ==
    /\ Goes(t, "return", "finished")
    /\ m_bThreadFinished' = TRUE
    /\ UNCHANGED <<m_bThreadStarted, m_bExitRequest, handle, call>>

ClearStarted(t) ==
    /\ Goes(t, "finished", "gone")
    /\ m_bThreadStarted' = FALSE
    /\ UNCHANGED <<m_bThreadFinished, m_bExitRequest, handle, call>>

ThreadFunc(t) ==
    \/ SetStarted(t) \/ ClearFinished(t)
    \/ TestExit(t) \/ Awake(t) \/ GoEnd(t)
    \/ SetFinished(t) \/ ClearStarted(t)

-----------------------------------------------------------------------------
(* Start.                                                                   *)

ClientGoes(from, to) == client = from /\ client' = to

\* Mutant: does not look whether it has started.
StartTests_Ignored ==
    /\ ClientGoes("idle", "start: reset")
    /\ UNCHANGED <<flags, handle, at, timeout, nMax, returned>>

StartTests ==
    /\ ClientGoes("idle", IF m_bThreadStarted THEN "start: return"
                                              ELSE "start: reset")
    /\ UNCHANGED <<flags, handle, at, timeout, nMax, returned>>

ResetExitRequest ==
    /\ ClientGoes("start: reset", "start: finished")
    /\ m_bExitRequest' = FALSE
    /\ UNCHANGED <<m_bThreadStarted, m_bThreadFinished, handle, at, timeout,
                   nMax, returned>>

ResetFinished ==
    /\ ClientGoes("start: finished", "start: create")
    /\ m_bThreadFinished' = FALSE
    /\ UNCHANGED <<m_bThreadStarted, m_bExitRequest, handle, at, timeout, nMax,
                   returned>>

\* CloseHandle on the old handle does not end the old thread.
MakeThread ==
    /\ ClientGoes("start: create", "start: priority")
    /\ \E t \in Thrd :
          /\ at[t] = "none"
          /\ \A u \in Thrd : at[u] = "none" => t <= u
          /\ m_hThread' = t
          /\ at' = [at EXCEPT ![t] = "new"]
    /\ UNCHANGED <<flags, m_hWakeUp, timeout, nMax, returned>>

MakeThreadFails ==
    /\ ClientGoes("start: create", "start: return")
    /\ m_hThread' = 0
    /\ UNCHANGED <<flags, m_hWakeUp, at, timeout, nMax, returned>>

SetPriority ==
    /\ ClientGoes("start: priority", "start: return")
    /\ m_bThreadStarted' \in {TRUE} \cup (IF PriorityFails THEN {m_bThreadStarted} ELSE {})
    /\ UNCHANGED <<m_bThreadFinished, m_bExitRequest, handle, at, timeout, nMax,
                   returned>>

StartReturns ==
    /\ ClientGoes("start: return", "idle")
    /\ returned' = [call |-> "Start", ok |-> m_bThreadStarted]
    /\ UNCHANGED <<flags, handle, at, timeout, nMax>>

Start == \/ StartTests \/ ResetExitRequest \/ ResetFinished
         \/ MakeThread \/ MakeThreadFails \/ SetPriority \/ StartReturns

-----------------------------------------------------------------------------
(* Stop, IsThreadRunning and WakeUp.                                        *)

IsThreadRunning ==
    /\ m_bThreadStarted
    /\ ~m_bThreadFinished
    /\ m_hThread # 0
    /\ at[m_hThread] # "gone"   \* GetExitCodeThread says STILL_ACTIVE

\* n is the argument, in polls of 10 ms.
StopTests ==
    /\ \E n \in 0 .. MaxPolls : timeout' = n /\ nMax' = n
    /\ \/ /\ ~m_bThreadStarted
          /\ returned' = [call |-> "Stop", ok |-> TRUE]
          /\ UNCHANGED client
       \/ /\ m_bThreadStarted
          /\ client' = "stop: request"
          /\ UNCHANGED returned
    /\ client = "idle"
    /\ UNCHANGED <<flags, handle, at>>

RequestExit(from, to) ==
    /\ ClientGoes(from, to)
    /\ m_bExitRequest' = TRUE
    /\ UNCHANGED <<m_bThreadStarted, m_bThreadFinished, handle, at, timeout,
                   nMax, returned>>

SetWakeUp(from, to) ==
    /\ ClientGoes(from, to)
    /\ m_hWakeUp' = TRUE
    /\ UNCHANGED <<flags, m_hThread, at, timeout, nMax, returned>>

\* Mutant: the poll does not ask whether the thread runs.
Poll_Blind ==
    /\ client = "stop: poll"
    /\ nMax > 0
    /\ client' = "stop: return"
    /\ UNCHANGED <<flags, handle, at, timeout, nMax, returned>>

\* Mutant: polls once too often.
Poll_OnceMore ==
    /\ client = "stop: poll"
    /\ \/ /\ ~IsThreadRunning
          /\ client' = "stop: return"
          /\ UNCHANGED nMax
       \/ /\ IsThreadRunning
          /\ nMax' = nMax - 1
          /\ UNCHANGED client
    /\ UNCHANGED <<flags, handle, at, timeout, returned>>

Poll ==
    /\ client = "stop: poll"
    /\ nMax > 0
    /\ \/ /\ ~IsThreadRunning
          /\ client' = "stop: return"
          /\ UNCHANGED nMax
       \/ /\ IsThreadRunning
          /\ nMax' = nMax - 1
          /\ UNCHANGED client
    /\ UNCHANGED <<flags, handle, at, timeout, returned>>

PollsEnd ==
    /\ ClientGoes("stop: poll", "stop: return")
    /\ nMax = 0
    /\ UNCHANGED <<flags, handle, at, timeout, nMax, returned>>

StopReturns ==
    /\ ClientGoes("stop: return", "idle")
    /\ returned' = [call |-> "Stop", ok |-> ~(timeout # 0 /\ nMax < 1)]
    /\ UNCHANGED <<flags, handle, at, timeout, nMax>>

\* Mutant: wakes the thread before it sets the flag.
Stop_WakesFirst ==
    \/ StopTests
    \/ SetWakeUp("stop: request", "stop: wake")
    \/ RequestExit("stop: wake", "stop: poll")
    \/ Poll \/ PollsEnd \/ StopReturns

Stop ==
    \/ StopTests
    \/ RequestExit("stop: request", "stop: wake")
    \/ SetWakeUp("stop: wake", "stop: poll")
    \/ Poll \/ PollsEnd \/ StopReturns

WakeUp == SetWakeUp("idle", "idle")

-----------------------------------------------------------------------------
Next == Start \/ Stop \/ WakeUp \/ \E t \in Thrd : ThreadFunc(t) \/ SleepEnds(t)

\* The threads run, and a client in a call goes on; nothing makes it call. A
\* sleep may be INFINITE.
Fairness ==
    /\ \A t \in Thrd : WF_vars(ThreadFunc(t))
    /\ WF_vars(client # "idle" /\ (Start \/ Stop))

Spec     == Init /\ [][Next]_vars
FairSpec == Spec /\ Fairness

-----------------------------------------------------------------------------
TypeOK ==
    /\ m_bThreadStarted \in BOOLEAN
    /\ m_bThreadFinished \in BOOLEAN
    /\ m_bExitRequest \in BOOLEAN
    /\ m_hThread \in 0 .. MaxThreads
    /\ m_hWakeUp \in BOOLEAN
    /\ at \in [Thrd -> {"none", "new", "entered", "go", "sleep", "return",
                        "finished", "gone"}]
    /\ client \in {"idle", "start: reset", "start: finished", "start: create",
                   "start: priority", "start: return", "stop: request",
                   "stop: wake", "stop: poll", "stop: return"}
    /\ timeout \in 0 .. MaxPolls
    /\ nMax \in 0 .. MaxPolls
    /\ returned \in Result

Working == {t \in Thrd : at[t] \in {"new", "entered", "go", "sleep"}}
Alive   == Working \cup {t \in Thrd : at[t] \in {"return", "finished"}}

\* Start never makes a second thread beside one that still has to run Go or to
\* write its flags, whatever the interleaving of the two writers of
\* m_bThreadStarted (Thread.cpp:104, 117, 30), unless a failing
\* SetThreadPriority made Start disown the first.
OneThread == ~PriorityFails => \A t, u \in Alive : t = u

\* When a Stop that waits says TRUE, no thread is in Go or on its way to it:
\* what Go uses may be torn down (Thread.cpp:142, 161).
StopEndsGo ==
    [][~PriorityFails /\ returned' # returned /\ returned'.call = "Stop"
          /\ returned'.ok /\ timeout' > 0
       => Working' = {}]_vars

\* The whole class keeps the promises of OneWorker: Start makes no work beside
\* work and forgets no request that still stands, Go ends by itself or because it
\* was asked, and what a Stop that waited says stays true until the next call
\* (Thread.cpp:104-117, 126-169).
SaidOver == client = "idle" /\ returned = [call |-> "Stop", ok |-> TRUE] /\ timeout > 0

Worker == INSTANCE OneWorker WITH
              EndsByItself <- GoEnds,
              working      <- Working # {},
              requested    <- m_bExitRequest,
              over         <- SaidOver

IsOneWorker == Worker!Spec

\* No thread sleeps through a request to exit: the event is set, or Stop is just
\* before it, whatever event was set and used up before (Thread.cpp:132, 135).
SleepersWoken ==
    ~PriorityFails /\ m_bExitRequest =>
        \A t \in Thrd : at[t] = "sleep" => m_hWakeUp \/ client = "stop: wake"

\* A Stop that has timed out or did not wait is still obeyed: the thread leaves
\* Go, even out of an infinite WakableSleep, because the flag is set before the
\* event (Thread.cpp:132, 135).
ExitHeeded == m_bExitRequest ~> Working = {}
=============================================================================
