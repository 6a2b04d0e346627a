------------------------ MODULE ClientProgressProofs ------------------------
(***************************************************************************)
(* Proofs about the steps of WebSocketClient: they take the connection     *)
(* through the phases of ConnectionPhases, and while the client is down or *)
(* being unloaded each of them brings the end nearer.                      *)
(***************************************************************************)
EXTENDS WebSocketClientProofs

(* Abbreviations inside the actions, expanded wherever the actions are. *)
USE DEF elsewhere, threadVars, clientVars, Refused, GivesUp, AfterCheck, ConGoes,
        Dispatching, NowConnected, KillAndForget, Reset, SaveIt, AfterPushQueue,
        ThenPushQueue

-----------------------------------------------------------------------------
(***************************************************************************)
(* The phases of a connection                                              *)
(***************************************************************************)

\* What the program counter, the connection and the timer say of the phase.
PhaseFits ==
    /\ wpc = "OnOpen" => Phase = "down"
    /\ wpc = "OnOpenHdl" => Phase = "flagged"
    /\ Opening /\ wpc \notin {"OnOpen", "OnOpenHdl"} => Phase = "pushing"
    /\ ~Opening /\ con = "open" => Phase = "open"
    /\ ~Opening /\ con = "closing" => Phase = "closing"
    /\ wpc = "OnClose" => Phase = "closing"
    /\ wpc \in {"Stop", "KillTimer"} =>
          Phase = (IF g_HeartBeat = NoTimer THEN "down" ELSE "lost")
    /\ wpc \in {"OnFail", "Reconnect", "GetConnection"} => Phase = "down"
    /\ con \in {"none", "new", "connecting"} => Phase = "down"

LEMMA PhaseAt == ConInv => PhaseFits
BY DEF PhaseFits, ConInv, Losing, Opening, Phase

\* In service, Send, the handle and the timer agree with the phase.
LEMMA FlagsAgree ==
    ASSUME IInv, InService
    PROVE  Phases!Agrees
<1>0. ConInv /\ FlagInv /\ TimerInv /\ PhaseInv
  BY DEF IInv
<1> USE <1>0, PhaseAt DEF PhaseFits, ConInv, Phases!Agrees, Live, Losing, Opening
<1>1. m_bClosing => wpc = "Done"
  BY DEF PhaseInv
<1>2. g_HeartBeat = NoTimer <=> timers = {}
  BY DEF TimerInv, BeforeShutdown
<1>3. CASE wpc \in {"OnOpen", "OnOpenHdl"}
  <2>1. con = "open" /\ ~hdlCurrent
    BY <1>3 DEF PhaseInv
  <2>2. g_HeartBeat = NoTimer
    BY <1>3 DEF TimerInv
  <2>3. m_bConnected <=> wpc = "OnOpenHdl"
    BY <1>3, <2>1 DEF FlagInv, ConnectedIsCurrent
  <2> QED
    BY <1>1, <1>2, <1>3, <2>1, <2>2, <2>3 DEF Available, SendAccepted
<1>4. CASE Opening /\ wpc \notin {"OnOpen", "OnOpenHdl"}
  <2>1. con = "open" /\ m_bConnected /\ hdlCurrent
    BY <1>4 DEF FlagInv, ConnectedIsCurrent
  <2>2. g_HeartBeat = NoTimer
    BY <1>4 DEF TimerInv
  <2> QED
    BY <1>1, <1>2, <1>4, <2>1, <2>2 DEF Available, SendAccepted
<1>5. CASE ~Opening /\ Live
  <2>1. m_bConnected /\ hdlCurrent /\ wpc # "Done"
    BY <1>5 DEF FlagInv, ConnectedIsCurrent, IInv, IoInv
  <2>2. g_HeartBeat # NoTimer
    BY <1>5 DEF TimerInv
  <2> QED
    BY <1>1, <1>2, <1>5, <2>1, <2>2 DEF Available, SendAccepted
<1>6. CASE wpc = "OnClose"
  <2>1. con = "closed" /\ m_bConnected /\ g_HeartBeat # NoTimer
    BY <1>6 DEF PhaseInv, TimerInv
  <2> QED
    BY <1>1, <1>2, <1>6, <2>1 DEF Available, SendAccepted
<1>7. CASE ~Live /\ wpc # "OnClose"
  <2>1. ~m_bConnected /\ wpc \notin {"OnOpen", "OnOpenHdl"}
    BY <1>7 DEF FlagInv, ConnectedIsCurrent
  <2>2. ~Available /\ ~SendAccepted
    BY <1>7, <2>1 DEF Available, SendAccepted
  <2>3. Phase = (IF g_HeartBeat = NoTimer THEN "down" ELSE "lost")
    <3>1. con = "closed" => wpc \in {"OnFail", "Stop", "KillTimer", "Reconnect",
                                     "GetConnection"}
      BY <1>7 DEF IInv, TypeOK, ThreadTypeOK, WsPc
    <3>2. wpc \in {"OnFail", "Reconnect", "GetConnection"} => g_HeartBeat = NoTimer
      BY DEF PhaseInv, TimerInv
    <3>3. con \in {"none", "new", "connecting"} => g_HeartBeat = NoTimer
      BY DEF TimerInv
    <3> QED
      BY <1>7, <3>1, <3>2, <3>3 DEF IInv, TypeOK, ThreadTypeOK
  <2> QED
    BY <1>2, <1>7, <2>2, <2>3 DEF Available, SendAccepted
<1> QED
  BY <1>3, <1>4, <1>5, <1>6, <1>7

\* While in service a step of the client leaves the phase alone or takes it on.
LEMMA PhaseMoves ==
    ASSUME IInv, [ClientNext]_vars, InService'
    PROVE  Phase' = Phase \/ Phases!Opens \/ Phases!Ends
<1>0. ConInv /\ PhaseFits /\ ConInv' /\ PhaseFits' /\ IInv'
  <2>1. IInv'
    BY ClientKeepsIInv
  <2>2. (ConInv => PhaseFits)'
    BY PhaseAt, PTL
  <2> QED
    BY <2>1, <2>2, PhaseAt DEF IInv
<1> USE <1>0 DEF PhaseFits, ConInv, Losing, wsVars, netVars, timerVars
<1>1. CASE InitSteps
  BY <1>1 DEF InitSteps, RunThread, GetConnection, Connect, Dial
<1>2. CASE ReturnSteps
  <2>1. con \in {"none", "new"} /\ con' = con
    BY <1>2 DEF ReturnSteps, RunReturns, HandlerReturns, OnTerminate, IInv, IoInv,
                mainVars, InService
  <2> QED
    BY <2>1
<1>3. CASE OpenSteps
  BY <1>3 DEF OpenSteps, OnOpen, OnOpenHdl, CreateTimer, Opening, Phases!Opens,
              Phases!Goes
<1>4. CASE LossSteps
  BY <1>4 DEF LossSteps, OnFail, OnClose, StopIo, KillHeartBeat, Reconnect, Opening,
              Phases!Ends, Phases!Goes, IInv, TimerInv, PhaseInv, FlagInv
<1>5. CASE QueueSteps
  BY <1>5 DEF QueueSteps, PushQueue, Resend, Erase, Opening, Phases!Opens,
              Phases!Goes
<1>6. CASE NetworkSteps
  BY <1>6 DEF NetworkSteps, Opened, Failed, CloseFrame, Terminated, OnMessage,
              Opening, Phases!Ends, Phases!Goes
<1>7. CASE MainStep \/ UNCHANGED vars
  <2>1. UNCHANGED <<wpc, wsVars, con, g_HeartBeat>>
    BY <1>7, MainKeeps DEF vars, clientVars
  <2> QED
    BY <2>1 DEF Phase, Opening
<1> QED
  BY <1>1, <1>2, <1>3, <1>4, <1>5, <1>6, <1>7 DEF ClientNext, ThreadStep, MainStep

\* Nothing the websocket thread or the connection does moves the main thread on.
LEMMA ThreadKeepsMain == ThreadStep \/ NetworkSteps => UNCHANGED mainVars
BY DEF mainVars, ThreadStep, InitSteps, ReturnSteps, OpenSteps, LossSteps, QueueSteps,
       NetworkSteps, RunThread, GetConnection, Connect, Dial, RunReturns,
       HandlerReturns, OnTerminate, OnOpen, OnOpenHdl, CreateTimer, OnFail, OnClose,
       StopIo, KillHeartBeat, Reconnect, PushQueue, Resend, Erase, Opened, Failed,
       CloseFrame, Terminated, OnMessage

\* SDK_OnUnload and a crash are for good.
LEMMA ServiceEndsOnce ==
    ASSUME [ClientNext]_vars, InService'
    PROVE  InService
<1> USE DEF InService, mainVars
<1>1. CASE ThreadStep \/ NetworkSteps
  BY <1>1, ThreadKeepsMain
<1>2. CASE MainStep
  BY <1>2 DEF MainStep, Submit, OnTimer, BeginSend, SendSteps, SendNow, Save, Unload,
         ShutdownSteps, ShutdownKillTimer, ShutdownClosing, ShutdownDisconnect,
         ShutdownStop, WaitForThread
<1>3. CASE UNCHANGED vars
  BY <1>3 DEF vars
<1> QED
  BY <1>1, <1>2, <1>3 DEF ClientNext, MainStep

\* What ConnectionPhases sees of a step of the client.
LEMMA ConnectionStep ==
    ASSUME IInv, [ClientNext]_vars
    PROVE  [Phases!Next]_<<Phase, Available, SendAccepted, timers # {}, ~InService>>
<1>1. CASE ~InService'
  BY <1>1 DEF Phases!Next
<1>2. CASE InService'
  <2>1. InService /\ IInv'
    BY <1>2, ServiceEndsOnce, ClientKeepsIInv
  <2>2. Phases!Agrees
    BY <2>1, FlagsAgree
  <2>3. (IInv /\ InService => Phases!Agrees)'
    BY FlagsAgree, PTL
  <2>4. Phases!Agrees'
    BY <1>2, <2>1, <2>3
  <2>5. Phase' = Phase \/ Phases!Opens \/ Phases!Ends
    BY <1>2, PhaseMoves
  <2>6. CASE Phase' = Phase
    BY <1>2, <2>1, <2>2, <2>4, <2>6 DEF Phases!Agrees
  <2>7. CASE Phases!Opens \/ Phases!Ends
    BY <1>2, <2>1, <2>4, <2>7 DEF Phases!Next
  <2> QED
    BY <2>5, <2>6, <2>7
<1> QED
  BY <1>1, <1>2

LEMMA PhasesInit == Init => Phases!Init
<1> SUFFICES ASSUME Init PROVE Phases!Init
  OBVIOUS
<1>1. InService /\ IInv
  BY InitIInv DEF Init, InService
<1>2. Phase = "down"
  BY <1>1, PhaseAt DEF Init, PhaseFits, IInv
<1> QED
  BY <1>1, <1>2, FlagsAgree DEF Phases!Init

\* The two threads take every connection through the phases, and Available, the
\* handle and the timer never disagree about the one it is in, until SDK_OnUnload
\* (OnOpen, OnClose, Send and the library's closing handshake).
THEOREM ConnectionHasPhases == Spec => PhasesKept
<1>1. Init => Phases!Init
  BY PhasesInit
<1>2. IInv /\ [ClientNext]_vars =>
         [Phases!Next]_<<Phase, Available, SendAccepted, timers # {}, ~InService>>
  BY ConnectionStep
<1> QED
  BY <1>1, <1>2, InductiveInvariant, PTL DEF Spec, PhasesKept, Phases!Spec

-----------------------------------------------------------------------------
(***************************************************************************)
(* Progress while the client is down                                       *)
(***************************************************************************)

\* Only Init brings m_Retries to the limit, and it asks for a restart then.
LEMMA GivenUpStep == ASSUME IInv, GivenUp, [ClientNext]_vars PROVE GivenUp'
<1>1. MaxRetries # 0 /\ m_Retries \in 0..MaxRetries /\ m_Retries' \in 0..MaxRetries
  BY ConstantsOK, ClientKeepsIInv DEF IInv, TypeOK, ThreadTypeOK
<1> USE <1>1 DEF GivenUp, flagVars, frameVars
<1>2. CASE InitSteps
  BY <1>2 DEF InitSteps, RunThread, GetConnection, Connect, Dial
<1>3. CASE ReturnSteps
  BY <1>3 DEF ReturnSteps, RunReturns, HandlerReturns, OnTerminate
<1>4. CASE OpenSteps
  BY <1>4 DEF OpenSteps, OnOpen, OnOpenHdl, CreateTimer
<1>5. CASE LossSteps
  BY <1>5 DEF LossSteps, OnFail, OnClose, StopIo, KillHeartBeat, Reconnect
<1>6. CASE QueueSteps
  BY <1>6 DEF QueueSteps, PushQueue, Resend, Erase
<1>7. CASE NetworkSteps
  BY <1>7 DEF NetworkSteps, Opened, Failed, CloseFrame, Terminated, OnMessage
<1>8. CASE MainStep \/ UNCHANGED vars
  BY <1>8, MainKeeps DEF vars
<1> QED
  BY <1>2, <1>3, <1>4, <1>5, <1>6, <1>7, <1>8 DEF ClientNext, ThreadStep, MainStep

\* While down, the thread is between the loss of a connection and the next attempt.
LEMMA WhereDown ==
    ASSUME IInv, GivenUp, Down
    PROVE  /\ wpc \in {"RunThread", "GetConnection", "Connect", "Dial", "Run",
                       "OnFail", "OnOpen", "Stop", "KillTimer", "Reconnect"}
           /\ wpc = "Run" => con = "connecting" /\ io = "ready"
           /\ m_Retries < MaxRetries
           /\ ~m_bClosing
<1>0. /\ InService /\ UrlValid /\ ~m_bConnected
      /\ ConInv /\ FlagInv /\ IoInv /\ PhaseInv
  BY DEF IInv, Down
<1> USE <1>0
<1>1. m_Retries < MaxRetries
  BY ConstantsOK DEF IInv, TypeOK, ThreadTypeOK, GivenUp, Down
<1>2. m_bClosing => wpc = "Done"
  BY DEF PhaseInv
<1>3. con \in {"open", "closing"} => wpc = "OnOpen"
  BY DEF FlagInv, Live
<1>4. wpc \notin {"Return", "Done"}
  <2>1. wpc \in {"Return", "Done"} => con = "new"
    BY DEF ConInv, IoInv
  <2>2. MaxRetries \in Nat /\ m_Retries # MaxRetries
    BY <1>1, ConstantsOK
  <2>3. wpc # "Return"
    BY <1>2, <2>1, <2>2 DEF IoInv
  <2>4. wpc # "Done"
    BY <2>1, <2>2 DEF PhaseInv
  <2> QED
    BY <2>3, <2>4
<1>5. wpc \notin {"OnOpenHdl", "CreateTimer", "PushQueue", "Resend", "Erase", "OnClose"}
  BY <1>3 DEF ConInv, PhaseInv
<1>6. wpc = "Run" => con = "connecting" /\ io = "ready"
  <2>1. wpc = "Run" => con \in {"new", "connecting"}
    BY <1>3 DEF ConInv
  <2>2. MaxRetries \in Nat /\ m_Retries # MaxRetries
    BY <1>1, ConstantsOK
  <2> QED
    BY <1>2, <2>1, <2>2 DEF IoInv
<1>7. wpc \in WsPc
  BY DEF IInv, TypeOK, ThreadTypeOK
<1> QED
  BY <1>1, <1>2, <1>4, <1>5, <1>6, <1>7 DEF WsPc

\* While down, a step of the thread or of the connection goes on to the next
\* attempt, and Init counts it.
LEMMA DownStep ==
    ASSUME IInv, GivenUp, Down, Down', [ClientNext]_vars, wpc' # wpc
    PROVE  \/ UNCHANGED m_Retries /\ UntilConnect' < UntilConnect
           \/ m_Retries' = m_Retries + 1 /\ UntilConnect' <= UntilConnect + 8
<1> USE WhereDown DEF UntilConnect, flagVars
<1>1. IInv' /\ ~m_bConnected' /\ ~g_bRequireRestart'
  BY ClientKeepsIInv DEF Down
<1>2. CASE RunThread \/ Connect \/ Dial
  BY <1>2 DEF RunThread, Connect, Dial
<1>3. CASE GetConnection
  <2>1. wpc' = "Connect" /\ m_Retries' = m_Retries + 1
    BY <1>1, <1>3 DEF GetConnection, Down
  <2> QED
    BY <1>3, <2>1 DEF GetConnection
<1>4. CASE ReturnSteps
  BY <1>4 DEF ReturnSteps, RunReturns, HandlerReturns, OnTerminate
<1>5. CASE OpenSteps
  BY <1>1, <1>5 DEF OpenSteps, OnOpen, OnOpenHdl, CreateTimer
<1>6. CASE LossSteps
  <2>1. wpc = "Reconnect" => ~m_bConnecting
    BY DEF IInv, FlagInv, Losing
  <2> QED
    BY <1>6, <2>1 DEF LossSteps, OnFail, OnClose, StopIo, KillHeartBeat, Reconnect
<1>7. CASE QueueSteps
  BY <1>7 DEF QueueSteps, PushQueue, Resend, Erase
<1>8. CASE NetworkSteps
  BY <1>8 DEF NetworkSteps, Opened, Failed, CloseFrame, Terminated, OnMessage
<1>9. ~(MainStep \/ UNCHANGED vars)
  BY MainKeeps DEF vars
<1> QED
  BY <1>2, <1>3, <1>4, <1>5, <1>6, <1>7, <1>8, <1>9
     DEF ClientNext, ThreadStep, InitSteps, MainStep

LEMMA CountingDown ==
    ASSUME NEW max \in Nat, NEW r \in 0..max, NEW next \in 0..max,
           NEW u \in 1..10, NEW v \in 1..10,
           \/ next = r /\ v < u
           \/ next = r + 1 /\ v <= u + 8
    PROVE  10 * (max - next) + v \in 0..(10 * (max - r) + u) - 1
OBVIOUS

\* However the attempts end, the client is down for at most 10 * MaxRetries + 10
\* steps of its thread before it is connected or has asked for a restart: the
\* safety half of Reconnects (websocket.cpp:233, :247 and :336).
THEOREM DowntimeEnds == Spec => DowntimeIsBounded
<1> DEFINE Advances == Down /\ Down' /\ wpc' # wpc => DownRank' \in 0..DownRank - 1
<1>1. Init => GivenUp
  BY ConstantsOK DEF Init, GivenUp
<1>2. IInv /\ GivenUp /\ [ClientNext]_vars => GivenUp'
  BY GivenUpStep
<1>3. IInv /\ GivenUp /\ [ClientNext]_vars => [Advances]_vars
  <2> SUFFICES ASSUME IInv, GivenUp, [ClientNext]_vars, Down, Down', wpc' # wpc
               PROVE  DownRank' \in 0..DownRank - 1
    OBVIOUS
  <2>1. /\ MaxRetries \in Nat /\ m_Retries \in 0..MaxRetries
        /\ m_Retries' \in 0..MaxRetries
    BY ConstantsOK, ClientKeepsIInv DEF IInv, TypeOK, ThreadTypeOK
  <2>2. UntilConnect \in 1..10
    BY DEF UntilConnect
  <2>3. UntilConnect' \in 1..10
    BY DEF UntilConnect
  <2>4. \/ m_Retries' = m_Retries /\ UntilConnect' < UntilConnect
        \/ m_Retries' = m_Retries + 1 /\ UntilConnect' <= UntilConnect + 8
    BY DownStep
  <2> HIDE DEF UntilConnect
  <2>5. 10 * (MaxRetries - m_Retries') + UntilConnect'
           \in 0..(10 * (MaxRetries - m_Retries) + UntilConnect) - 1
    BY <2>1, <2>2, <2>3, <2>4, CountingDown
  <2> QED
    BY <2>5 DEF DownRank
<1> QED
  BY <1>1, <1>2, <1>3, InductiveInvariant, PTL DEF Spec, DowntimeIsBounded

-----------------------------------------------------------------------------
(***************************************************************************)
(* Progress while SDK_OnUnload waits                                       *)
(***************************************************************************)

\* What Shutdown has left when SDK_OnUnload waits.
LEMMA WhileWaiting ==
    ASSUME IInv, mpc = "wait"
    PROVE  /\ con # "none" /\ UrlValid /\ wpc # "RunThread"
           /\ m_bClosing /\ ~Available
           /\ wpc = "Reconnect" => ~m_bConnecting
BY DEF IInv, ShutdownInv, AfterShutdown, ConInv, FlagInv, Losing, Available

\* Every step of the thread leaves the waiting main thread on its way.
LEMMA ThreadStepEnds ==
    ASSUME IInv, UnloadEnding, ThreadStep
    PROVE  /\ UnloadEnding'
           /\ \/ depth' = depth /\ (Losing' <=> Losing) /\ UntilReturn' < UntilReturn
              \/ depth' = depth - 1 /\ wpc = "Return" /\ wpc' = "Run"
              \/ depth' = depth + 1 /\ wpc = "Reconnect" /\ wpc' = "GetConnection"
<1>0. mpc = "wait" /\ depth \in Nat /\ ConInv
  BY DEF IInv, TypeOK, ThreadTypeOK, UnloadEnding
<1> USE <1>0, WhileWaiting DEF UnloadEnding, UntilReturn, Losing, wsVars, netVars, mainVars
<1>1. CASE GetConnection
  BY <1>1 DEF GetConnection, ConInv
<1>2. CASE Connect
  BY <1>2 DEF Connect, ConInv
<1>3. CASE Dial
  BY <1>3 DEF Dial, ConInv
<1>4. CASE ReturnSteps
  BY <1>4 DEF ReturnSteps, RunReturns, HandlerReturns, OnTerminate, ConInv
<1>5. CASE OnOpen
  BY <1>5 DEF OnOpen
<1>6. CASE OnOpenHdl
  BY <1>6 DEF OnOpenHdl
<1>7. CASE CreateTimer
  BY <1>7 DEF CreateTimer
<1>8. CASE OnFail
  BY <1>8 DEF OnFail
<1>9. CASE OnClose
  BY <1>9 DEF OnClose
<1>10. CASE StopIo
  BY <1>10 DEF StopIo
<1>11. CASE KillHeartBeat
  BY <1>11 DEF KillHeartBeat
<1>12. CASE Reconnect
  BY <1>12 DEF Reconnect, ConInv
<1>13. CASE QueueSteps
  BY <1>13 DEF QueueSteps, PushQueue, Resend, Erase
<1>14. ~RunThread
  BY DEF RunThread
<1> QED
  BY <1>1, <1>2, <1>3, <1>4, <1>5, <1>6, <1>7, <1>8, <1>9, <1>10, <1>11, <1>12,
     <1>13, <1>14 DEF ThreadStep, InitSteps, OpenSteps, LossSteps

\* Nothing but the thread, and the main thread that sees it end, takes a step.
LEMMA OnlyThreadSteps ==
    ASSUME IInv, UnloadEnding, ClientNext
    PROVE  ThreadStep \/ mpc' = "unloaded"
<1>1. ~NetworkSteps
  BY DEF UnloadEnding, NetworkSteps, Opened, Failed, CloseFrame, Terminated, OnMessage
<1>2. mpc = "wait"
  BY DEF UnloadEnding
<1>3. MainStep => mpc' = "unloaded"
  BY <1>2 DEF MainStep, Submit, OnTimer, BeginSend, SendSteps, SendNow, Save, Unload,
       ShutdownSteps, ShutdownKillTimer, ShutdownClosing, ShutdownDisconnect,
       ShutdownStop, WaitForThread
<1> QED
  BY <1>1, <1>3 DEF ClientNext, MainStep

LEMMA NearerReturn ==
    ASSUME NEW d \in Nat, NEW u \in 1..9, NEW v \in 1..9, v < u
    PROVE  10 * d + v \in 0..(10 * d + u) - 1
OBVIOUS

\* The steps of the client while SDK_OnUnload waits are counted.
LEMMA UnloadStep ==
    ASSUME IInv, UnloadEnding, ClientNext, mpc' # "unloaded"
    PROVE  UnloadEnding' /\ UnloadRank' \in 0..UnloadRank - 1
<1>1. UnloadEnding' /\ \/ /\ depth' = depth /\ (Losing' <=> Losing)
                          /\ UntilReturn' < UntilReturn
                       \/ depth' = depth - 1 /\ wpc = "Return" /\ wpc' = "Run"
                       \/ depth' = depth + 1 /\ wpc = "Reconnect" /\ wpc' = "GetConnection"
  BY OnlyThreadSteps, ThreadStepEnds
<1>2. depth \in Nat /\ depth' \in Nat
  BY ClientKeepsIInv DEF IInv, TypeOK, ThreadTypeOK
<1>3. UntilReturn \in 1..9 /\ UntilReturn' \in 1..9
  BY DEF UntilReturn
<1>4. CASE depth' = depth /\ (Losing' <=> Losing) /\ UntilReturn' < UntilReturn
  <2> DEFINE d == IF Losing THEN depth + 1 ELSE depth
  <2>1. d \in Nat /\ d' = d
    BY <1>2, <1>4
  <2> HIDE DEF d, UntilReturn
  <2>2. 10 * d' + UntilReturn' \in 0..(10 * d + UntilReturn) - 1
    BY <1>3, <1>4, <2>1, NearerReturn
  <2> QED
    BY <1>1, <2>2 DEF UnloadRank, d
<1>5. CASE depth' = depth - 1 /\ wpc = "Return" /\ wpc' = "Run"
  BY <1>1, <1>2, <1>5 DEF UnloadRank, UntilReturn, Losing
<1>6. CASE depth' = depth + 1 /\ wpc = "Reconnect" /\ wpc' = "GetConnection"
  BY <1>1, <1>2, <1>6 DEF UnloadRank, UntilReturn, Losing
<1> QED
  BY <1>1, <1>4, <1>5, <1>6

\* When Shutdown's stop is not lost in a handler of a later connection, every step
\* brings the end of SDK_OnUnload nearer: the safety half of
\* UnloadCompletesOutsideLoss (extension.cpp:121, websocket.cpp:129 and :197).
THEOREM UnloadEnds == Spec => UnloadAdvances
<1> DEFINE Advances == UnloadEnding => \/ mpc' = "unloaded"
                                      \/ /\ UnloadEnding'
                                         /\ UnloadRank' \in 0..UnloadRank - 1
<1>1. IInv /\ [ClientNext]_vars => [Advances]_vars
  BY UnloadStep
<1> QED
  BY <1>1, InductiveInvariant, PTL DEF Spec, UnloadAdvances
=============================================================================
