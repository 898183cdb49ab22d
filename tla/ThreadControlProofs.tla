------------------------- MODULE ThreadControlProofs -------------------------
(***************************************************************************)
(* Proofs about ThreadControl, for every number of threads and polls.      *)
(***************************************************************************)
EXTENDS ThreadControl, TLAPS

States == {"none", "new", "entered", "go", "sleep", "return", "finished", "gone"}

\* While m_bThreadStarted is FALSE and the client is not making a thread, no
\* thread is left that could set it.
OneAtATime ==
    /\ \A t, u \in Alive : t = u
    /\ \A t \in Working : t = m_hThread
    /\ client \in {"start: reset", "start: finished", "start: create"}
          => Alive = {}
    /\ client = "start: create" => ~m_bThreadFinished
    /\ ~m_bThreadStarted
          => \A t \in Alive : at[t] = "new" /\ client = "start: priority"
    /\ m_bThreadFinished => Working = {}
    /\ client = "stop: return" /\ nMax > 0 => Working = {}

IInv == TypeOK /\ (~PriorityFails => OneAtATime)

LEMMA InitIInv == Init => IInv
<1> SUFFICES ASSUME Init PROVE IInv
  OBVIOUS
<1>1. 0 \in 0 .. MaxPolls /\ 0 \in 0 .. MaxThreads
  BY BoundsAssumption
<1>2. TypeOK
  BY <1>1, Zenon DEF Init, TypeOK, Result
<1>3. Alive = {} /\ Working = {}
  BY DEF Init, Alive, Working
<1>4. OneAtATime
  BY <1>3 DEF Init, OneAtATime
<1> QED BY <1>2, <1>4 DEF IInv

\* One thread's step changes only where that thread is.
LEMMA GoesMoves ==
    ASSUME TypeOK, NEW t \in Thrd, NEW from, NEW to \in States, Goes(t, from, to)
    PROVE  /\ at' \in [Thrd -> States]
           /\ at[t] = from /\ at'[t] = to
           /\ \A u \in Thrd : u # t => at'[u] = at[u]
  BY DEF TypeOK, Goes, States

LEMMA ThreadTypes == TypeOK /\ (\E t \in Thrd : ThreadFunc(t) \/ SleepEnds(t)) => TypeOK'
<1> SUFFICES ASSUME TypeOK, NEW t \in Thrd, ThreadFunc(t) \/ SleepEnds(t)
             PROVE  TypeOK'
  OBVIOUS
<1>1. at' \in [Thrd -> States]
  BY DEF TypeOK, States, ThreadFunc, SetStarted, ClearFinished, TestExit, Awake,
         SleepEnds, GoEnd, SetFinished, ClearStarted, Goes
<1>2. /\ UNCHANGED <<m_bExitRequest, m_hThread, call>>
      /\ m_bThreadStarted' \in BOOLEAN
      /\ m_bThreadFinished' \in BOOLEAN
      /\ m_hWakeUp' \in BOOLEAN
  BY DEF TypeOK, ThreadFunc, SetStarted, ClearFinished, TestExit, Awake,
         SleepEnds, GoEnd, SetFinished, ClearStarted, flags, handle
<1> QED BY <1>1, <1>2 DEF TypeOK, States, call

LEMMA ClientTypes == TypeOK /\ (Start \/ Stop \/ WakeUp) => TypeOK'
<1> SUFFICES ASSUME TypeOK, Start \/ Stop \/ WakeUp PROVE TypeOK'
  OBVIOUS
<1>0. 0 \in 0 .. MaxThreads /\ \A t \in Thrd : t \in 0 .. MaxThreads
  BY BoundsAssumption DEF Thrd
<1> USE DEF TypeOK, ClientGoes, flags, handle, Result
<1>1. CASE StartTests
  BY <1>1 DEF StartTests
<1>2. CASE ResetExitRequest
  BY <1>2 DEF ResetExitRequest
<1>3. CASE ResetFinished
  BY <1>3 DEF ResetFinished
<1>4. CASE MakeThread
  BY <1>0, <1>4 DEF MakeThread
<1>5. CASE MakeThreadFails
  BY <1>0, <1>5 DEF MakeThreadFails
<1>6. CASE SetPriority
  BY <1>6 DEF SetPriority
<1>7. CASE StartReturns
  BY <1>7 DEF StartReturns
<1>8. CASE StopTests
  <2>1. timeout' \in 0 .. MaxPolls /\ nMax' \in 0 .. MaxPolls
    BY <1>8 DEF StopTests
  <2>2. client' \in {client, "stop: request"}
    BY <1>8 DEF StopTests
  <2>3. returned' \in Result
    <3>1. [call |-> "Stop", ok |-> TRUE] \in Result
      BY Zenon
    <3>2. returned' \in {returned, [call |-> "Stop", ok |-> TRUE]}
      BY <1>8 DEF StopTests
    <3> QED BY <3>1, <3>2
  <2> QED BY <1>8, <2>1, <2>2, <2>3 DEF StopTests
<1>9. CASE \E from, to \in {"stop: request", "stop: wake", "stop: poll", "idle"} :
              RequestExit(from, to) \/ SetWakeUp(from, to)
  BY <1>9 DEF RequestExit, SetWakeUp
<1>10. CASE Poll
  <2>1. nMax' \in 0 .. MaxPolls
    <3>1. nMax \in 0 .. MaxPolls
      OBVIOUS
    <3>2. nMax' = nMax \/ (nMax > 0 /\ nMax' = nMax - 1)
      BY <1>10 DEF Poll
    <3> HIDE DEF TypeOK
    <3> QED BY <3>1, <3>2, BoundsAssumption
  <2> QED BY <1>10, <2>1 DEF Poll
<1>11. CASE PollsEnd
  BY <1>11 DEF PollsEnd
<1>12. CASE StopReturns
  <2>1. returned' \in Result
    <3>1. (~(timeout # 0 /\ nMax < 1)) \in BOOLEAN
      OBVIOUS
    <3> QED BY <1>12, <3>1 DEF StopReturns
  <2> QED BY <1>12, <2>1 DEF StopReturns
<1> QED BY <1>1, <1>2, <1>3, <1>4, <1>5, <1>6, <1>7, <1>8, <1>9, <1>10, <1>11,
           <1>12 DEF Start, Stop, WakeUp

LEMMA TypeStep == TypeOK /\ [Next]_vars => TypeOK'
<1> SUFFICES ASSUME TypeOK, [Next]_vars PROVE TypeOK'
  OBVIOUS
<1>1. CASE Next
  BY <1>1, ThreadTypes, ClientTypes DEF Next
<1>2. CASE UNCHANGED vars
  BY <1>2 DEF TypeOK, vars, flags, handle, call
<1> QED BY <1>1, <1>2

\* Flags, handles and positions keep their types, whatever the interleaving of
\* the client and the threads it has made (Thread.cpp).
THEOREM TypeCorrect == Spec => []TypeOK
<1>1. Init => TypeOK
  BY InitIInv DEF IInv
<1> QED BY <1>1, TypeStep, PTL DEF Spec

-----------------------------------------------------------------------------
\* Where a thread has gone decides the sets Working and Alive.
Inner == {"new", "entered", "go", "sleep"}

LEMMA ThreadKeepsOne ==
    ASSUME TypeOK, OneAtATime, NEW t \in Thrd, ThreadFunc(t) \/ SleepEnds(t)
    PROVE  OneAtATime'
<1>1. PICK from, to \in States :
          /\ Goes(t, from, to)
          /\ from \in Inner \cup {"return", "finished"}
          /\ to \in Inner => from \in Inner
          /\ m_bThreadStarted' = (IF to = "entered" THEN TRUE
                                   ELSE IF to = "gone" THEN FALSE
                                   ELSE m_bThreadStarted)
          /\ m_bThreadFinished' = (IF to = "go" /\ from = "entered" THEN FALSE
                                    ELSE IF to = "finished" THEN TRUE
                                    ELSE m_bThreadFinished)
          /\ to \notin {"none", "new"}
          /\ from = "new" => to = "entered"
  <2> USE DEF States, Inner, flags
  <2>1. CASE SetStarted(t)
    BY <2>1 DEF SetStarted
  <2>2. CASE ClearFinished(t)
    BY <2>2 DEF ClearFinished
  <2>3. CASE TestExit(t)
    BY <2>3 DEF TestExit
  <2>4. CASE Awake(t) \/ SleepEnds(t)
    BY <2>4 DEF Awake, SleepEnds
  <2>5. CASE GoEnd(t)
    BY <2>5 DEF GoEnd
  <2>6. CASE SetFinished(t)
    BY <2>6 DEF SetFinished
  <2>7. CASE ClearStarted(t)
    BY <2>7 DEF ClearStarted
  <2> QED BY <2>1, <2>2, <2>3, <2>4, <2>5, <2>6, <2>7 DEF ThreadFunc
<1>2. /\ at[t] = from /\ at'[t] = to
      /\ \A u \in Thrd : u # t => at'[u] = at[u]
  BY <1>1, GoesMoves
<1>3. UNCHANGED <<client, nMax, m_hThread>>
  BY DEF ThreadFunc, SetStarted, ClearFinished, TestExit, Awake, SleepEnds,
         GoEnd, SetFinished, ClearStarted, handle, call
<1>4. Alive = {t}
  <2>1. t \in Alive
    BY <1>1, <1>2 DEF Alive, Working, Inner
  <2> QED BY <2>1 DEF OneAtATime
<1>5. Working' \subseteq Working /\ Alive' \subseteq Alive
  BY <1>1, <1>2, <1>4 DEF Working, Alive, Inner, States
<1>6. ~m_bThreadStarted' => Alive' = {}
  <2>1. CASE to = "gone"
    BY <1>2, <1>4, <1>5, <2>1 DEF Alive, Working
  <2>2. CASE to # "gone"
    <3>1. m_bThreadStarted' \/ (m_bThreadStarted' = m_bThreadStarted /\ to # "entered")
      BY <1>1, <2>2
    <3>2. ~m_bThreadStarted => at[t] = "new"
      BY <1>4 DEF OneAtATime
    <3>3. at[t] = "new" => to = "entered"
      BY <1>1, <1>2
    <3> QED BY <3>1, <3>2, <3>3
  <2> QED BY <2>1, <2>2
<1>7. m_bThreadFinished' => Working' = {}
  <2>1. CASE to = "finished"
    BY <1>2, <1>4, <1>5, <2>1 DEF Working, Alive
  <2>2. CASE to # "finished"
    <3>1. m_bThreadFinished' => m_bThreadFinished
      BY <1>1, <2>2
    <3> QED BY <1>5, <3>1 DEF OneAtATime
  <2> QED BY <2>1, <2>2
<1>8. client # "start: create"
  BY <1>4 DEF OneAtATime
<1> QED BY <1>3, <1>4, <1>5, <1>6, <1>7, <1>8 DEF OneAtATime

LEMMA ZeroIsNoThread == 0 \notin Thrd
  BY BoundsAssumption DEF Thrd

LEMMA ZeroNotPositive == \A n : n = 0 => ~(n > 0)
  OBVIOUS

\* What IsThreadRunning denies, no thread does.
LEMMA NotRunning ==
    ASSUME TypeOK, OneAtATime, client # "start: priority", ~IsThreadRunning
    PROVE  Working = {}
<1>1. CASE ~m_bThreadStarted
  BY <1>1 DEF OneAtATime, Alive
<1>2. CASE m_bThreadFinished
  BY <1>2 DEF OneAtATime
<1>3. CASE m_hThread = 0 \/ at[m_hThread] = "gone"
  <2>1. \A t \in Working : t \in Thrd /\ t = m_hThread /\ at[t] # "gone"
    BY DEF OneAtATime, Working
  <2> QED BY <1>3, <2>1, ZeroIsNoThread
<1> QED BY <1>1, <1>2, <1>3 DEF IsThreadRunning, TypeOK

LEMMA ClientKeepsOne ==
    ASSUME TypeOK, OneAtATime, ~PriorityFails, Start \/ Stop \/ WakeUp
    PROVE  OneAtATime'
<1>1. CASE MakeThread
  <2>1. PICK t \in Thrd : /\ at[t] = "none" /\ m_hThread' = t
                          /\ at' = [at EXCEPT ![t] = "new"]
    BY <1>1 DEF MakeThread
  <2>2. /\ Alive = {} /\ UNCHANGED flags
        /\ client = "start: create" /\ client' = "start: priority"
    BY <1>1 DEF MakeThread, ClientGoes, OneAtATime
  <2>3. at'[t] = "new" /\ \A u \in Thrd : u # t => at'[u] = at[u]
    BY <2>1 DEF TypeOK
  <2>4. Alive' = {t} /\ Working' = {t}
    BY <2>2, <2>3 DEF Alive, Working
  <2>5. ~m_bThreadFinished'
    BY <2>2 DEF OneAtATime, flags
  <2> QED BY <2>1, <2>2, <2>3, <2>4, <2>5 DEF OneAtATime
<1>2. CASE ~MakeThread
  <2>1. UNCHANGED at
    BY <1>2 DEF Start, Stop, WakeUp, StartTests, ResetExitRequest,
           ResetFinished, MakeThreadFails, SetPriority, StartReturns, StopTests,
           RequestExit, SetWakeUp, Poll, PollsEnd, StopReturns, ClientGoes
  <2>2. Alive' = Alive /\ Working' = Working
    BY <2>1 DEF Alive, Working
  <2> USE DEF OneAtATime, ClientGoes, flags, handle
  <2>3. CASE StartTests
    BY <2>1, <2>2, <2>3 DEF StartTests
  <2>4. CASE ResetExitRequest
    BY <2>1, <2>2, <2>4 DEF ResetExitRequest
  <2>5. CASE ResetFinished
    BY <2>1, <2>2, <2>5 DEF ResetFinished
  <2>6. CASE MakeThreadFails
    BY <2>1, <2>2, <2>6 DEF MakeThreadFails, Working, Alive
  <2>7. CASE SetPriority
    BY <2>1, <2>2, <2>7 DEF SetPriority
  <2>8. CASE StartReturns
    BY <2>1, <2>2, <2>8 DEF StartReturns
  <2>9. CASE StopTests
    BY <2>1, <2>2, <2>9 DEF StopTests
  <2>10. CASE \E from, to \in {"stop: request", "stop: wake", "stop: poll", "idle"} :
                RequestExit(from, to) \/ SetWakeUp(from, to)
    <3>1. PICK from, to \in {"stop: request", "stop: wake", "stop: poll", "idle"} :
              RequestExit(from, to) \/ SetWakeUp(from, to)
      BY <2>10
    <3>2. /\ client = from /\ client' = to
          /\ UNCHANGED <<m_bThreadStarted, m_bThreadFinished, m_hThread, nMax>>
      BY <3>1 DEF RequestExit, SetWakeUp
    <3>3. /\ client' \notin {"start: reset", "start: finished", "start: create",
                            "stop: return"}
          /\ client # "start: priority"
      BY <3>2
    <3> QED BY <2>1, <2>2, <3>2, <3>3
  <2>11. CASE Poll
    <3>1. client' = "stop: return" => Working = {}
      BY <2>11, NotRunning DEF Poll
    <3> QED BY <2>1, <2>2, <2>11, <3>1 DEF Poll
  <2>12. CASE PollsEnd
    <3>1. ~(nMax' > 0)
      <4>1. nMax' = 0
        BY <2>12 DEF PollsEnd
      <4> QED BY <4>1, ZeroNotPositive
    <3> QED BY <2>1, <2>2, <2>12, <3>1 DEF PollsEnd
  <2>13. CASE StopReturns
    BY <2>1, <2>2, <2>13 DEF StopReturns
  <2> QED BY <1>2, <2>3, <2>4, <2>5, <2>6, <2>7, <2>8, <2>9, <2>10, <2>11,
             <2>12, <2>13 DEF Start, Stop, WakeUp
<1> QED BY <1>1, <1>2

LEMMA StillPolling ==
    ASSUME NEW t \in 0 .. MaxPolls, NEW n \in 0 .. MaxPolls,
           ~(t # 0 /\ n < 1), t > 0
    PROVE  n > 0
  BY BoundsAssumption

LEMMA StepIInv == IInv /\ [Next]_vars => IInv'
<1> SUFFICES ASSUME IInv, [Next]_vars PROVE IInv'
  OBVIOUS
<1>1. TypeOK /\ TypeOK'
  BY TypeStep DEF IInv
<1>2. ASSUME ~PriorityFails PROVE OneAtATime'
  <2>1. OneAtATime
    BY <1>2 DEF IInv
  <2>2. CASE Next
    BY <1>1, <1>2, <2>1, <2>2, ThreadKeepsOne, ClientKeepsOne DEF Next
  <2>3. CASE UNCHANGED vars
    BY <2>1, <2>3 DEF OneAtATime, Working, Alive, vars, flags, handle, call
  <2> QED BY <2>2, <2>3
<1> QED BY <1>1, <1>2 DEF IInv

LEMMA Invariance == Spec => []IInv
  BY InitIInv, StepIInv, PTL DEF Spec

\* A thread object whose priority can be set never has two threads at work
\* (Thread.cpp:104, 114).
THEOREM NeverTwoThreads == Spec => []OneThread
<1>1. IInv => OneThread
  BY DEF IInv, OneThread, OneAtATime
<1> QED BY <1>1, Invariance, PTL

\* A Stop that waits and says TRUE leaves no thread in Go (Thread.cpp:142).
THEOREM StopWaitsForGo == Spec => StopEndsGo
<1>1. IInv /\ [Next]_vars =>
         [~PriorityFails /\ returned' # returned /\ returned'.call = "Stop"
             /\ returned'.ok /\ timeout' > 0
          => Working' = {}]_vars
  <2> SUFFICES ASSUME IInv, Next, ~PriorityFails, returned' # returned,
                      returned'.call = "Stop", returned'.ok, timeout' > 0
               PROVE  Working' = {}
    BY DEF vars, call
  <2>1. OneAtATime
    BY DEF IInv
  <2>2. StartReturns \/ StopTests \/ StopReturns
    BY DEF Next, Start, Stop, WakeUp, ThreadFunc, StartTests, ResetExitRequest,
           ResetFinished, MakeThread, MakeThreadFails, SetPriority, RequestExit,
           SetWakeUp, Poll, PollsEnd, SetStarted, ClearFinished, TestExit,
           Awake, SleepEnds, GoEnd, SetFinished, ClearStarted, call
  <2>3. UNCHANGED at
    BY <2>2 DEF StartReturns, StopTests, StopReturns
  <2>4. Working' = Working
    BY <2>3 DEF Working
  <2>5. ~StartReturns
    <3>1. StartReturns => returned'.call = "Start"
      <4>1. \A b : [call |-> "Start", ok |-> b].call = "Start"
        OBVIOUS
      <4> QED BY <4>1 DEF StartReturns
    <3> QED BY <3>1
  <2>6. CASE StopTests
    <3>1. client = "idle" /\ ~m_bThreadStarted
      BY <2>6 DEF StopTests
    <3>2. Working = {}
      BY <2>1, <3>1 DEF OneAtATime, Alive
    <3> QED BY <2>4, <3>2
  <2>7. CASE StopReturns
    <3>1. client = "stop: return" /\ ~(timeout # 0 /\ nMax < 1) /\ timeout > 0
      BY <2>7 DEF StopReturns, ClientGoes
    <3>2. timeout \in 0 .. MaxPolls /\ nMax \in 0 .. MaxPolls
      BY DEF IInv, TypeOK
    <3>3. nMax > 0
      BY <3>1, <3>2, StillPolling
    <3> QED BY <2>1, <2>4, <3>1, <3>3 DEF OneAtATime
  <2> QED BY <2>2, <2>5, <2>6, <2>7
<1> QED BY <1>1, Invariance, PTL DEF Spec, StopEndsGo

-----------------------------------------------------------------------------
\* Nothing but ResetExitRequest takes a request back, and it comes when no thread
\* sleeps; a thread that uses the event up is not asleep any more.
LEMMA ClientWakes ==
    ASSUME TypeOK, OneAtATime, ~PriorityFails, SleepersWoken, Start \/ Stop \/ WakeUp
    PROVE  SleepersWoken'
<1> USE DEF SleepersWoken, ClientGoes, flags, handle
<1>1. CASE MakeThread
  <2>1. Alive = {} /\ client = "start: create"
    BY <1>1 DEF MakeThread, OneAtATime
  <2>2. \A t \in Thrd : at'[t] = "sleep" => at[t] = "sleep"
    BY <1>1 DEF MakeThread, TypeOK
  <2> QED BY <2>1, <2>2 DEF Alive, Working
<1>2. CASE SetWakeUp("stop: wake", "stop: poll") \/ SetWakeUp("idle", "idle")
  BY <1>2 DEF SetWakeUp
<1>3. CASE RequestExit("stop: request", "stop: wake")
  BY <1>3 DEF RequestExit
<1>4. CASE ResetExitRequest
  BY <1>4 DEF ResetExitRequest
<1>5. CASE /\ client # "stop: wake"
           /\ UNCHANGED <<m_bExitRequest, m_hWakeUp, at>>
  BY <1>5
<1>6. \/ MakeThread \/ ResetExitRequest \/ RequestExit("stop: request", "stop: wake")
      \/ SetWakeUp("stop: wake", "stop: poll") \/ SetWakeUp("idle", "idle")
      \/ client # "stop: wake" /\ UNCHANGED <<m_bExitRequest, m_hWakeUp, at>>
  BY DEF Start, Stop, WakeUp, StartTests, ResetFinished, MakeThreadFails, SetPriority,
         StartReturns, StopTests, Poll, PollsEnd, StopReturns
<1> QED BY <1>1, <1>2, <1>3, <1>4, <1>5, <1>6

LEMMA ThreadWakes ==
    ASSUME TypeOK, OneAtATime, SleepersWoken,
           NEW t \in Thrd, ThreadFunc(t) \/ SleepEnds(t)
    PROVE  SleepersWoken'
<1>1. UNCHANGED <<m_bExitRequest, client>>
  BY DEF ThreadFunc, SetStarted, ClearFinished, TestExit, Awake, SleepEnds, GoEnd,
         SetFinished, ClearStarted, flags, call
<1>2. CASE Awake(t) \/ SleepEnds(t)
  <2>1. at[t] = "sleep" /\ at'[t] = "go" /\ \A u \in Thrd : u # t => at'[u] = at[u]
    BY <1>2, GoesMoves DEF Awake, SleepEnds, States
  <2>2. \A u \in Thrd : at[u] = "sleep" => u = t
    BY <2>1 DEF OneAtATime, Alive, Working
  <2> QED BY <2>1, <2>2 DEF SleepersWoken
<1>3. CASE TestExit(t)
  <2>1. /\ UNCHANGED m_hWakeUp
        /\ \A u \in Thrd : u # t => at'[u] = at[u]
        /\ m_bExitRequest => at'[t] = "return"
    BY <1>3 DEF TestExit, Goes, TypeOK, handle
  <2> QED BY <1>1, <2>1 DEF SleepersWoken
<1>4. CASE SetStarted(t) \/ ClearFinished(t) \/ GoEnd(t) \/ SetFinished(t) \/ ClearStarted(t)
  <2>1. /\ UNCHANGED m_hWakeUp
        /\ at'[t] # "sleep" /\ \A u \in Thrd : u # t => at'[u] = at[u]
    BY <1>4 DEF SetStarted, ClearFinished, GoEnd, SetFinished, ClearStarted, Goes,
                TypeOK, handle
  <2> QED BY <1>1, <2>1 DEF SleepersWoken
<1> QED BY <1>2, <1>3, <1>4 DEF ThreadFunc

\* An exit request never finds a thread asleep with the event used up, not even by an
\* earlier WakeUp or by the Stop before (Thread.cpp:132, 135).
THEOREM ExitWakesSleepers == Spec => []SleepersWoken
<1>1. Init => SleepersWoken
  BY DEF Init, SleepersWoken
<1>2. IInv /\ SleepersWoken /\ [Next]_vars => SleepersWoken'
  <2> SUFFICES ASSUME IInv, SleepersWoken, [Next]_vars, ~PriorityFails
               PROVE  SleepersWoken'
    BY DEF SleepersWoken
  <2>1. TypeOK /\ OneAtATime
    BY DEF IInv
  <2>2. CASE Next
    BY <2>1, <2>2, ClientWakes, ThreadWakes DEF Next
  <2>3. CASE UNCHANGED vars
    BY <2>3 DEF SleepersWoken, vars, flags, handle, call
  <2> QED BY <2>2, <2>3
<1> QED BY <1>1, <1>2, Invariance, PTL DEF Spec

-----------------------------------------------------------------------------
(* ThreadControl implements OneWorker. *)

\* What a Stop has said is true, and a thread is made only after the request that
\* stood has been taken back.
Told ==
    /\ SaidOver => Working = {}
    /\ client \in {"start: finished", "start: create"} => ~m_bExitRequest

\* Somebody in a call has been told nothing yet.
LEMMA InCall ==
    /\ client # "idle" => ~SaidOver
    /\ client' # "idle" => ~SaidOver'
BY DEF SaidOver

LEMMA SaysNothing == ASSUME ~SaidOver, ~SaidOver' PROVE SaidOver' = SaidOver
BY Zenon DEF SaidOver

LEMMA WorksOn ==
    ASSUME Working' # {} <=> Working # {} PROVE (Working # {})' = (Working # {})
BY Zenon

\* The steps of OneWorker, by what they change.
LEMMA WorkerRests ==
    ASSUME Working' # {} <=> Working # {}, UNCHANGED m_bExitRequest,
           SaidOver' <=> SaidOver
    PROVE  [Worker!Next]_(Worker!vars)
<1>1. (SaidOver)' = SaidOver /\ (Working # {})' = (Working # {})
  BY Zenon DEF SaidOver
<1> QED BY <1>1 DEF Worker!vars

LEMMA WorkerSays ==
    ASSUME Working' = Working, UNCHANGED m_bExitRequest, SaidOver' => Working = {}
    PROVE  [Worker!Next]_(Worker!vars)
<1>1. CASE SaidOver'
  <2>1. Worker!SayOver
    BY <1>1 DEF Worker!SayOver
  <2> QED BY <2>1 DEF Worker!Next
<1>2. CASE ~SaidOver'
  <2>1. Worker!Call
    BY <1>2 DEF Worker!Call
  <2> QED BY <2>1 DEF Worker!Next
<1> QED BY <1>1, <1>2

\* A thread's step leaves the work as it is, or ends it for a reason.
LEMMA ThreadIsWorker ==
    ASSUME TypeOK, OneAtATime, Told, NEW t \in Thrd, ThreadFunc(t) \/ SleepEnds(t)
    PROVE  Told' /\ [Worker!Next]_(Worker!vars)
<1>1. UNCHANGED <<m_bExitRequest, client, timeout, returned>>
  BY DEF ThreadFunc, SetStarted, ClearFinished, TestExit, Awake, SleepEnds, GoEnd,
         SetFinished, ClearStarted, flags, call
<1>2. PICK from, to \in States :
          /\ Goes(t, from, to)
          /\ from \in Inner \cup {"return", "finished"}
          /\ to \in Inner => from \in Inner
          /\ from \in Inner /\ to \notin Inner => m_bExitRequest \/ GoEnds
  <2> USE DEF States, Inner
  <2>1. CASE SetStarted(t)
    BY <2>1 DEF SetStarted
  <2>2. CASE ClearFinished(t)
    BY <2>2 DEF ClearFinished
  <2>3. CASE TestExit(t)
    BY <2>3 DEF TestExit
  <2>4. CASE Awake(t) \/ SleepEnds(t)
    BY <2>4 DEF Awake, SleepEnds
  <2>5. CASE GoEnd(t)
    BY <2>5 DEF GoEnd
  <2>6. CASE SetFinished(t)
    BY <2>6 DEF SetFinished
  <2>7. CASE ClearStarted(t)
    BY <2>7 DEF ClearStarted
  <2> QED BY <2>1, <2>2, <2>3, <2>4, <2>5, <2>6, <2>7 DEF ThreadFunc
<1>3. /\ at[t] = from /\ at'[t] = to
      /\ \A u \in Thrd : u # t => at'[u] = at[u]
  BY <1>2, GoesMoves
<1>4. \A u \in Thrd : at[u] \in Inner => u = t
  <2>1. t \in Alive
    BY <1>2, <1>3 DEF Alive, Working, Inner
  <2> QED BY <2>1 DEF OneAtATime, Alive, Working, Inner
<1>5. /\ Working = {u \in Thrd : at[u] \in Inner}
      /\ Working' = {u \in Thrd : at'[u] \in Inner}
  BY DEF Working, Inner
<1>6. Working' \subseteq Working
  BY <1>2, <1>3, <1>5
<1>7. SaidOver' <=> SaidOver
  BY <1>1 DEF SaidOver
<1>8. Told'
  BY <1>1, <1>6, <1>7 DEF Told
<1>9. CASE from \in Inner /\ to \notin Inner
  <2>1. Working = {t} /\ Working' = {}
    BY <1>3, <1>4, <1>5, <1>9
  <2>2. m_bExitRequest \/ GoEnds
    BY <1>2, <1>9
  <2>3. ~SaidOver
    BY <2>1 DEF Told
  <2>4. Worker!End
    BY <1>1, <1>7, <2>1, <2>2, <2>3 DEF Worker!End
  <2> QED BY <1>8, <2>4 DEF Worker!Next
<1>10. CASE ~(from \in Inner /\ to \notin Inner)
  <2>1. Working' = Working
    BY <1>2, <1>3, <1>5, <1>10
  <2> QED BY <1>1, <1>7, <1>8, <2>1, WorkerRests
<1> QED BY <1>9, <1>10

\* So does a client's, and MakeThread begins work where there is none.
LEMMA ClientIsWorker ==
    ASSUME TypeOK, OneAtATime, ~PriorityFails, Told, Start \/ Stop \/ WakeUp
    PROVE  Told' /\ [Worker!Next]_(Worker!vars)
<1> USE DEF ClientGoes, flags, handle
<1>1. CASE MakeThread
  <2>1. /\ client = "start: create" /\ client' = "start: priority"
        /\ UNCHANGED m_bExitRequest
    BY <1>1 DEF MakeThread
  <2>2. PICK t \in Thrd : at' = [at EXCEPT ![t] = "new"]
    BY <1>1 DEF MakeThread
  <2>3. Working = {} /\ t \in Working'
    BY <2>1, <2>2 DEF OneAtATime, Alive, Working, TypeOK
  <2>4. ~SaidOver /\ ~SaidOver' /\ ~m_bExitRequest
    BY <2>1, InCall DEF Told
  <2>5. Worker!Begin
    <3>1. (Working # {})' = TRUE
      BY <2>3, Zenon
    <3> QED BY <2>1, <2>3, <2>4, <3>1, SaysNothing DEF Worker!Begin
  <2>6. Told'
    BY <2>1, <2>4 DEF Told
  <2> QED BY <2>5, <2>6 DEF Worker!Next
<1>2. CASE ~MakeThread
  <2>1. UNCHANGED at
    BY <1>2 DEF Start, Stop, WakeUp, StartTests, ResetExitRequest,
           ResetFinished, MakeThreadFails, SetPriority, StartReturns, StopTests,
           RequestExit, SetWakeUp, Poll, PollsEnd, StopReturns
  <2>2. Working' = Working
    BY <2>1 DEF Working
  <2>3. CASE ResetExitRequest
    <3>1. Working = {} /\ ~SaidOver /\ ~SaidOver' /\ ~m_bExitRequest'
      BY <2>3, InCall DEF ResetExitRequest, OneAtATime, Alive
    <3>2. Worker!Withdraw
      <4>1. m_bExitRequest' = FALSE
        BY <2>3 DEF ResetExitRequest
      <4> QED BY <2>2, <3>1, <4>1, SaysNothing, WorksOn DEF Worker!Withdraw
    <3> QED BY <3>1, <3>2 DEF Told, Worker!Next
  <2>4. CASE RequestExit("stop: request", "stop: wake")
    <3>1. /\ client = "stop: request" /\ client' = "stop: wake" /\ m_bExitRequest'
          /\ ~SaidOver /\ ~SaidOver'
      BY <2>4, InCall DEF RequestExit
    <3>2. Worker!Request
      <4>1. m_bExitRequest' = TRUE
        BY <2>4 DEF RequestExit
      <4> QED BY <2>2, <3>1, <4>1, SaysNothing, WorksOn DEF Worker!Request
    <3> QED BY <3>1, <3>2 DEF Told, Worker!Next
  <2>5. ASSUME UNCHANGED m_bExitRequest, SaidOver' => Working = {},
               client' \in {"start: finished", "start: create"} => ~m_bExitRequest
        PROVE  Told' /\ [Worker!Next]_(Worker!vars)
    BY <2>2, <2>5, WorkerSays DEF Told
  <2>6. CASE StartTests \/ ResetFinished \/ MakeThreadFails \/ SetPriority
    <3>1. /\ UNCHANGED m_bExitRequest
          /\ client' # "idle"
          /\ client' \in {"start: finished", "start: create"} => ~m_bExitRequest
      BY <2>6 DEF StartTests, ResetFinished, MakeThreadFails, SetPriority, Told
    <3> QED BY <2>5, <3>1, InCall
  <2>7. CASE StartReturns
    <3>1. UNCHANGED m_bExitRequest /\ client' = "idle"
      BY <2>7 DEF StartReturns
    <3>2. ~SaidOver'
      <4>1. \A b, c : [call |-> "Start", ok |-> b] # [call |-> "Stop", ok |-> c]
        OBVIOUS
      <4> QED BY <2>7, <4>1 DEF StartReturns, SaidOver
    <3> QED BY <2>5, <3>1, <3>2
  <2>8. CASE StopTests
    <3>1. /\ UNCHANGED m_bExitRequest /\ client = "idle"
          /\ client' \in {"idle", "stop: request"}
          /\ client' = "idle" => ~m_bThreadStarted
      BY <2>8 DEF StopTests
    <3>2. client' = "idle" => Working = {}
      BY <3>1 DEF OneAtATime, Alive
    <3> QED BY <2>5, <3>1, <3>2, InCall
  <2>9. CASE SetWakeUp("stop: wake", "stop: poll") \/ Poll \/ PollsEnd
    <3>1. UNCHANGED m_bExitRequest /\ client' \in {"stop: poll", "stop: return"}
      BY <2>9 DEF SetWakeUp, Poll, PollsEnd
    <3> QED BY <2>5, <3>1, InCall
  <2>10. CASE SetWakeUp("idle", "idle")
    <3>1. UNCHANGED <<m_bExitRequest, client, returned, timeout>> /\ client = "idle"
      BY <2>10 DEF SetWakeUp
    <3>2. SaidOver' <=> SaidOver
      BY <3>1 DEF SaidOver
    <3> QED BY <2>5, <3>1, <3>2 DEF Told
  <2>11. CASE StopReturns
    <3>1. /\ UNCHANGED <<m_bExitRequest, timeout>>
          /\ client = "stop: return" /\ client' = "idle"
          /\ returned'.ok = ~(timeout # 0 /\ nMax < 1)
      BY <2>11 DEF StopReturns
    <3>2. ASSUME SaidOver' PROVE Working = {}
      <4>1. timeout > 0 /\ ~(timeout # 0 /\ nMax < 1)
        <5>1. returned'.ok = TRUE /\ timeout' > 0
          BY <3>2 DEF SaidOver
        <5> QED BY <3>1, <5>1, Zenon
      <4>2. nMax > 0
        BY <4>1, StillPolling DEF TypeOK
      <4> QED BY <3>1, <4>2 DEF OneAtATime
    <3> QED BY <2>5, <3>1, <3>2
  <2> QED BY <1>2, <2>3, <2>4, <2>6, <2>7, <2>8, <2>9, <2>10, <2>11
          DEF Start, Stop, WakeUp
<1> QED BY <1>1, <1>2

\* While SetThreadPriority succeeds the class is a OneWorker, for every number of
\* threads and polls, and whether Go ends by itself or not (Thread.cpp).
THEOREM ImplementsOneWorker == ASSUME ~PriorityFails PROVE Spec => IsOneWorker
<1>1. Init => Told /\ Worker!Init
  <2> SUFFICES ASSUME Init PROVE Told /\ Worker!Init
    OBVIOUS
  <2>1. Working = {} /\ client = "idle" /\ m_bExitRequest = FALSE
    BY DEF Init, Working
  <2>2. SaidOver = FALSE
    <3>1. returned.call = "none"
      BY DEF Init
    <3> QED BY <3>1 DEF SaidOver
  <2> QED BY <2>1, <2>2 DEF Told, Worker!Init
<1>2. IInv /\ Told /\ [Next]_vars => Told' /\ [Worker!Next]_(Worker!vars)
  <2> SUFFICES ASSUME IInv, Told, [Next]_vars
               PROVE  Told' /\ [Worker!Next]_(Worker!vars)
    OBVIOUS
  <2>1. TypeOK /\ OneAtATime
    BY DEF IInv
  <2>2. CASE Next
    BY <2>1, <2>2, ThreadIsWorker, ClientIsWorker DEF Next
  <2>3. CASE UNCHANGED vars
    <3>1. UNCHANGED <<m_bExitRequest, at, client, returned, timeout>>
      BY <2>3 DEF vars, flags, call
    <3>2. Working' = Working /\ (SaidOver' <=> SaidOver)
      BY <3>1 DEF Working, SaidOver
    <3> QED BY <3>1, <3>2, WorkerRests DEF Told
  <2> QED BY <2>2, <2>3
<1> QED BY <1>1, <1>2, Invariance, PTL DEF Spec, IsOneWorker, Worker!Spec
=============================================================================
