----------------------- MODULE WebSocketClientProofs -----------------------
(***************************************************************************)
(* Proofs that WebSocketClient keeps its safety properties for every value *)
(* of its constants: any set of messages, any retry limit, any number of   *)
(* connections lost, with or without an unload.                            *)
(***************************************************************************)
EXTENDS WebSocketClientInvariant, TLAPS

(* Abbreviations inside the actions, expanded wherever the actions are. *)
USE DEF elsewhere, threadVars, clientVars, Refused, GivesUp, AfterCheck, ConGoes,
        Dispatching, NowConnected, KillAndForget, Reset, SaveIt, AfterPushQueue,
        ThenPushQueue
\* The initial state satisfies the invariant.
LEMMA InitIInv == Init => IInv
<1> SUFFICES ASSUME Init PROVE IInv OBVIOUS
<1> USE ConstantsOK DEF Init
<1>1. TypeOK
  <2>1. g_tRecvQueue \in Seq(Frames)
    OBVIOUS
  <2>2. m_Retries \in 0..MaxRetries /\ depth \in Nat /\ failures \in Nat
        /\ closes \in Nat
    OBVIOUS
  <2>3. QED
    BY <2>1, <2>2 DEF TypeOK, ThreadTypeOK, FlagTypeOK, DataTypeOK, WsPc,
                      MainPc, Texts
<1>2. ConInv /\ RetryInv
  BY DEF ConInv, RetryInv, Losing, Live
<1>3. FlagInv /\ IoInv /\ TimerInv
  BY DEF FlagInv, IoInv, TimerInv, ConnectedIsCurrent, Losing, Live, Opening,
         InService, BeforeShutdown
<1>4. QueueInv
  BY DEF QueueInv
<1>5. PhaseInv /\ ShutdownInv
  BY DEF PhaseInv, ShutdownInv, AfterShutdown, InService
<1>6. QED
  BY <1>1, <1>2, <1>3, <1>4, <1>5 DEF IInv

\* Every step keeps the types; RetryInv bounds the retry count.
LEMMA TypeStep == IInv /\ [ClientNext]_vars => TypeOK'
<1> USE DEF TypeOK, ThreadTypeOK, FlagTypeOK, DataTypeOK, WsPc, MainPc, Texts,
        wsVars, netVars, flagVars, queueVars, timerVars, frameVars, mainVars, envVars
<1>1. TypeOK /\ RunThread => TypeOK'
  BY DEF RunThread
<1>2. IInv /\ GetConnection => TypeOK'
  <2>1. IInv /\ GetConnection => TypeOK /\ m_Retries < MaxRetries
    BY DEF IInv, GetConnection, ConInv, RetryInv
  <2>2. TypeOK /\ m_Retries < MaxRetries /\ GetConnection => ThreadTypeOK'
    <3>1. TypeOK /\ m_Retries < MaxRetries /\ GetConnection =>
             m_Retries' \in 0..MaxRetries
      BY ConstantsOK DEF GetConnection
    <3>2. TypeOK /\ GetConnection => wpc' \in WsPc
      BY DEF GetConnection
    <3>3. TypeOK /\ GetConnection =>
             /\ con' \in {"none", "new", "connecting", "open", "closing", "closed"}
             /\ hdlCurrent' \in BOOLEAN
      BY DEF GetConnection
    <3>4. QED
      BY <3>1, <3>2, <3>3 DEF GetConnection
  <2>3. TypeOK /\ GetConnection => FlagTypeOK'
    BY DEF GetConnection
  <2>4. TypeOK /\ GetConnection => DataTypeOK'
    BY DEF GetConnection
  <2> HIDE DEF ThreadTypeOK, FlagTypeOK, DataTypeOK
  <2>5. QED
    BY <2>1, <2>2, <2>3, <2>4
<1>3. TypeOK /\ Connect => TypeOK'
  BY DEF Connect
<1>4. TypeOK /\ Dial => TypeOK'
  BY DEF Dial
<1>5. TypeOK /\ RunReturns => TypeOK'
  BY DEF RunReturns
<1>6. TypeOK /\ HandlerReturns => TypeOK'
  BY DEF HandlerReturns
<1>7. TypeOK /\ OnTerminate => TypeOK'
  <2>1. TypeOK /\ OnTerminate => ThreadTypeOK'
    BY DEF OnTerminate
  <2>2. TypeOK /\ OnTerminate => FlagTypeOK'
    BY DEF OnTerminate
  <2>3. TypeOK /\ OnTerminate => DataTypeOK'
    BY DEF OnTerminate
  <2> HIDE DEF ThreadTypeOK, FlagTypeOK, DataTypeOK
  <2>4. QED
    BY <2>1, <2>2, <2>3
<1>8. TypeOK /\ OnOpen => TypeOK'
  <2>1. TypeOK /\ OnOpen => ThreadTypeOK'
    BY ConstantsOK DEF OnOpen
  <2>2. TypeOK /\ OnOpen => FlagTypeOK'
    BY DEF OnOpen
  <2>3. TypeOK /\ OnOpen => DataTypeOK'
    BY DEF OnOpen
  <2> HIDE DEF ThreadTypeOK, FlagTypeOK, DataTypeOK
  <2>4. QED
    BY <2>1, <2>2, <2>3
<1>9. TypeOK /\ OnOpenHdl => TypeOK'
  BY DEF OnOpenHdl
<1>10. TypeOK /\ CreateTimer => TypeOK'
  BY DEF CreateTimer
<1>11. TypeOK /\ OnFail => TypeOK'
  <2>1. TypeOK /\ OnFail => ThreadTypeOK'
    BY DEF OnFail
  <2>2. TypeOK /\ OnFail => FlagTypeOK'
    BY DEF OnFail
  <2>3. TypeOK /\ OnFail => DataTypeOK'
    BY DEF OnFail
  <2> HIDE DEF ThreadTypeOK, FlagTypeOK, DataTypeOK
  <2>4. QED
    BY <2>1, <2>2, <2>3
<1>12. TypeOK /\ OnClose => TypeOK'
  <2>1. TypeOK /\ OnClose => ThreadTypeOK'
    BY DEF OnClose
  <2>2. TypeOK /\ OnClose => FlagTypeOK'
    BY DEF OnClose
  <2>3. TypeOK /\ OnClose => DataTypeOK'
    BY DEF OnClose
  <2> HIDE DEF ThreadTypeOK, FlagTypeOK, DataTypeOK
  <2>4. QED
    BY <2>1, <2>2, <2>3
<1>13. TypeOK /\ StopIo => TypeOK'
  BY DEF StopIo
<1>14. TypeOK /\ KillHeartBeat => TypeOK'
  <2>1. TypeOK /\ KillHeartBeat => ThreadTypeOK'
    BY DEF KillHeartBeat, KillTimer
  <2>2. TypeOK /\ KillHeartBeat => FlagTypeOK'
    BY DEF KillHeartBeat, KillTimer
  <2>3. TypeOK /\ KillHeartBeat => DataTypeOK'
    BY DEF KillHeartBeat, KillTimer
  <2> HIDE DEF ThreadTypeOK, FlagTypeOK, DataTypeOK
  <2>4. QED
    BY <2>1, <2>2, <2>3
<1>15. TypeOK /\ Reconnect => TypeOK'
  BY DEF Reconnect
<1>16. TypeOK /\ PushQueue => TypeOK'
  BY DEF PushQueue
<1>17. TypeOK /\ Resend => TypeOK'
  BY DEF Resend
<1>18. TypeOK /\ Erase => TypeOK'
  BY DEF Erase
<1>19. TypeOK /\ Opened => TypeOK'
  BY DEF Opened
<1>20. TypeOK /\ Failed => TypeOK'
  BY DEF Failed
<1>21. TypeOK /\ CloseFrame => TypeOK'
  BY DEF CloseFrame
<1>22. TypeOK /\ Terminated => TypeOK'
  BY DEF Terminated
<1>23. TypeOK /\ OnMessage => TypeOK'
  BY DEF OnMessage
<1>24. TypeOK /\ Submit => TypeOK'
  BY DEF Submit, BeginSend
<1>25. TypeOK /\ OnTimer => TypeOK'
  BY DEF OnTimer, BeginSend
<1>26. TypeOK /\ SendNow => TypeOK'
  BY DEF SendNow
<1>27. TypeOK /\ Save => TypeOK'
  <2>1. TypeOK /\ Save => ThreadTypeOK'
    BY DEF Save, SaveQueue
  <2>2. TypeOK /\ Save => FlagTypeOK'
    BY DEF Save, SaveQueue
  <2>3. TypeOK /\ Save => DataTypeOK'
    <3>1. TypeOK /\ Save => m_bQueue' \subseteq Texts
      BY DEF Save, SaveQueue
    <3>2. TypeOK /\ Save => mpc' \in MainPc /\ mmsg' = NoMessage
      BY DEF Save
    <3>3. QED
      BY <3>1, <3>2 DEF Save
  <2> HIDE DEF ThreadTypeOK, FlagTypeOK, DataTypeOK
  <2>4. QED
    BY <2>1, <2>2, <2>3
<1>28. TypeOK /\ Unload => TypeOK'
  BY DEF Unload
<1>29. TypeOK /\ ShutdownKillTimer => TypeOK'
  <2>1. TypeOK /\ ShutdownKillTimer => ThreadTypeOK'
    BY DEF ShutdownKillTimer, KillTimer
  <2>2. TypeOK /\ ShutdownKillTimer => FlagTypeOK'
    BY DEF ShutdownKillTimer, KillTimer
  <2>3. TypeOK /\ ShutdownKillTimer => DataTypeOK'
    BY DEF ShutdownKillTimer, KillTimer
  <2> HIDE DEF ThreadTypeOK, FlagTypeOK, DataTypeOK
  <2>4. QED
    BY <2>1, <2>2, <2>3
<1>30. TypeOK /\ ShutdownClosing => TypeOK'
  BY DEF ShutdownClosing
<1>31. TypeOK /\ ShutdownDisconnect => TypeOK'
  <2>1. TypeOK /\ ShutdownDisconnect => ThreadTypeOK'
    BY DEF ShutdownDisconnect
  <2>2. TypeOK /\ ShutdownDisconnect => FlagTypeOK'
    BY DEF ShutdownDisconnect
  <2>3. TypeOK /\ ShutdownDisconnect => DataTypeOK'
    BY DEF ShutdownDisconnect
  <2> HIDE DEF ThreadTypeOK, FlagTypeOK, DataTypeOK
  <2>4. QED
    BY <2>1, <2>2, <2>3
<1>32. TypeOK /\ ShutdownStop => TypeOK'
  BY DEF ShutdownStop
<1>33. TypeOK /\ WaitForThread => TypeOK'
  BY DEF WaitForThread
<1>34. TypeOK /\ UNCHANGED vars => TypeOK'
  BY DEF vars
<1> HIDE DEF TypeOK, ThreadTypeOK, FlagTypeOK, DataTypeOK, WsPc, MainPc, Texts,
         wsVars, netVars, flagVars, queueVars, timerVars, frameVars, mainVars, envVars
<1>35. QED
  BY <1>1, <1>2, <1>3, <1>4, <1>5, <1>6, <1>7, <1>8, <1>9, <1>10, <1>11,
     <1>12, <1>13, <1>14, <1>15, <1>16, <1>17, <1>18, <1>19, <1>20, <1>21,
     <1>22, <1>23, <1>24, <1>25, <1>26, <1>27, <1>28, <1>29, <1>30, <1>31,
     <1>32, <1>33, <1>34
     DEF IInv, ClientNext, ThreadStep, InitSteps, ReturnSteps, OpenSteps,
         LossSteps, QueueSteps, NetworkSteps, SendSteps, ShutdownSteps

-----------------------------------------------------------------------------
(* Steps of the main thread. *)
MainStep == Submit \/ OnTimer \/ SendSteps \/ Unload \/ ShutdownSteps

\* The main thread never writes what the websocket thread alone keeps.
LEMMA MainKeeps ==
    MainStep => UNCHANGED <<wpc, wsVars, con, hdlCurrent, m_bConnecting,
                            m_Retries, g_HeartBeat, frameVars, envVars>>
<1> USE DEF netVars, flagVars, timerVars
<1>1. Submit \/ OnTimer => UNCHANGED <<wpc, wsVars, con, hdlCurrent,
          m_bConnecting, m_Retries, g_HeartBeat, frameVars, envVars>>
  BY DEF Submit, OnTimer, BeginSend
<1>2. SendSteps => UNCHANGED <<wpc, wsVars, con, hdlCurrent, m_bConnecting,
                               m_Retries, g_HeartBeat, frameVars, envVars>>
  BY DEF SendSteps, SendNow, Save
<1>3. Unload \/ ShutdownSteps => UNCHANGED <<wpc, wsVars, con, hdlCurrent,
          m_bConnecting, m_Retries, g_HeartBeat, frameVars, envVars>>
  BY DEF Unload, ShutdownSteps, ShutdownKillTimer, ShutdownClosing,
         ShutdownDisconnect, ShutdownStop, WaitForThread
<1>4. QED
  BY <1>1, <1>2, <1>3 DEF MainStep

\* The connection goes through its states as the thread goes through its code.
LEMMA ConStep == IInv /\ [ClientNext]_vars => ConInv'
<1> USE DEF ConInv, Losing, wsVars, netVars
<1>1. TypeOK /\ ConInv /\ InitSteps => ConInv'
  BY DEF InitSteps, RunThread, GetConnection, Connect, Dial
<1>2. TypeOK /\ ConInv /\ ReturnSteps => ConInv'
  BY DEF ReturnSteps, RunReturns, HandlerReturns, OnTerminate, TypeOK,
         ThreadTypeOK
<1>3. ConInv /\ OpenSteps => ConInv'
  BY DEF OpenSteps, OnOpen, OnOpenHdl, CreateTimer
<1>4. FlagInv /\ ConInv /\ LossSteps => ConInv'
  BY DEF LossSteps, OnFail, OnClose, StopIo, KillHeartBeat, Reconnect, FlagInv
<1>5. ConInv /\ QueueSteps => ConInv'
  BY DEF QueueSteps, PushQueue, Resend, Erase
<1>6. ConInv /\ NetworkSteps => ConInv'
  BY DEF NetworkSteps, Opened, Failed, CloseFrame, Terminated, OnMessage
<1>7. ConInv /\ (MainStep \/ UNCHANGED vars) => ConInv'
  BY MainKeeps DEF vars
<1> HIDE DEF ConInv
<1>8. QED
  BY <1>1, <1>2, <1>3, <1>4, <1>5, <1>6, <1>7
     DEF IInv, ClientNext, ThreadStep, MainStep

\* Init counts an attempt, OnOpen forgets them.
LEMMA RetryStep == IInv /\ [ClientNext]_vars => RetryInv'
<1> USE DEF RetryInv, ConInv, Live, Losing, netVars, flagVars, frameVars, envVars
<1> DEFINE Types == m_Retries \in Nat /\ failures \in Nat /\ MaxRetries \in Nat
<1>1. Types /\ ConInv /\ RetryInv /\ InitSteps => RetryInv'
  <2>1. Types /\ ConInv /\ RetryInv /\ (RunThread \/ Connect \/ Dial) => RetryInv'
    BY DEF RunThread, Connect, Dial
  <2>2. Types /\ ConInv /\ RetryInv /\ GetConnection => RetryInv'
    BY ConstantsOK DEF GetConnection
  <2>3. QED
    BY <2>1, <2>2 DEF InitSteps
<1>2. ConInv /\ RetryInv /\ ReturnSteps => RetryInv'
  BY DEF ReturnSteps, RunReturns, HandlerReturns, OnTerminate
<1>3. ConInv /\ RetryInv /\ OpenSteps => RetryInv'
  BY DEF OpenSteps, OnOpen, OnOpenHdl, CreateTimer
<1>4. ConInv /\ RetryInv /\ LossSteps => RetryInv'
  BY DEF LossSteps, OnFail, OnClose, StopIo, KillHeartBeat, Reconnect
<1>5. ConInv /\ RetryInv /\ QueueSteps => RetryInv'
  BY DEF QueueSteps, PushQueue, Resend, Erase
<1>6. Types /\ ConInv /\ RetryInv /\ NetworkSteps => RetryInv'
  BY ConstantsOK DEF NetworkSteps, Opened, Failed, CloseFrame, Terminated,
     OnMessage
<1>7. RetryInv /\ (MainStep \/ UNCHANGED vars) => RetryInv'
  BY MainKeeps DEF vars
<1>8. TypeOK => Types
  BY ConstantsOK DEF TypeOK, ThreadTypeOK
<1> HIDE DEF RetryInv, ConInv, Types
<1>9. QED
  BY <1>1, <1>2, <1>3, <1>4, <1>5, <1>6, <1>7, <1>8
     DEF IInv, ClientNext, ThreadStep, MainStep

\* The handlers keep the flags in step with the connection.
LEMMA FlagStep == IInv /\ [ClientNext]_vars => FlagInv'
<1> USE DEF FlagInv, ConInv, ConnectedIsCurrent, Live, Losing, wsVars, netVars,
        flagVars
<1>1. ConInv /\ FlagInv /\ InitSteps => FlagInv'
  BY DEF InitSteps, RunThread, GetConnection, Connect, Dial, mainVars, InService
<1>2. ConInv /\ IoInv /\ FlagInv /\ ReturnSteps => FlagInv'
  BY DEF ReturnSteps, RunReturns, HandlerReturns, OnTerminate, mainVars,
         InService, IoInv
<1>3. ConInv /\ FlagInv /\ OpenSteps => FlagInv'
  BY DEF OpenSteps, OnOpen, OnOpenHdl, CreateTimer, mainVars, InService
<1>4. ConInv /\ FlagInv /\ LossSteps => FlagInv'
  BY DEF LossSteps, OnFail, OnClose, StopIo, KillHeartBeat, Reconnect, mainVars,
         InService
<1>5. ConInv /\ FlagInv /\ QueueSteps => FlagInv'
  BY DEF QueueSteps, PushQueue, Resend, Erase, mainVars,
         InService
<1>6. ConInv /\ FlagInv /\ NetworkSteps => FlagInv'
  BY DEF NetworkSteps, Opened, Failed, CloseFrame, Terminated, OnMessage, mainVars, InService
<1>7. MainStep => (InService' => InService) /\
          (m_bConnected' = m_bConnected \/ (m_bConnected' = FALSE /\ ~InService'))
  BY DEF MainStep, Submit, OnTimer, BeginSend, SendSteps, SendNow, Save, Unload,
         ShutdownSteps, ShutdownKillTimer, ShutdownClosing, ShutdownDisconnect,
         ShutdownStop, WaitForThread, InService
<1>8. FlagInv /\ MainStep => FlagInv'
  BY <1>7, MainKeeps
<1>9. FlagInv /\ UNCHANGED vars => FlagInv'
  BY DEF vars, mainVars, InService
<1> HIDE DEF FlagInv, ConInv
<1>10. QED
  BY <1>1, <1>2, <1>3, <1>4, <1>5, <1>6, <1>8, <1>9
     DEF IInv, ClientNext, ThreadStep, MainStep

\* In service, only the handlers stop the io_service, and they reset it.
LEMMA IoStep == IInv /\ [ClientNext]_vars => IoInv'
<1> USE DEF IoInv, ConInv, Losing, wsVars, netVars, flagVars, frameVars
<1>1. IInv /\ InitSteps => IoInv'
  <2>1. IInv /\ (RunThread \/ Connect \/ Dial) => IoInv'
    BY DEF IInv, RunThread, Connect, Dial, mainVars, InService
  <2>2. IInv /\ GetConnection => IoInv'
    <3>1. IInv /\ GetConnection /\ con' = "new" /\ wpc' = "Return" =>
             m_Retries' = MaxRetries
      BY ConstantsOK DEF IInv, RetryInv, TypeOK, ThreadTypeOK, GetConnection
    <3>2. QED
      BY <3>1 DEF IInv, GetConnection, mainVars, InService
  <2>3. QED
    BY <2>1, <2>2 DEF InitSteps
<1>2. TypeOK /\ ConInv /\ IoInv /\ ReturnSteps => IoInv'
  BY DEF ReturnSteps, RunReturns, HandlerReturns, OnTerminate, mainVars,
         InService, TypeOK, ThreadTypeOK
<1>3. ConInv /\ IoInv /\ OpenSteps => IoInv'
  BY DEF OpenSteps, OnOpen, OnOpenHdl, CreateTimer, mainVars, InService
<1>4. FlagInv /\ ConInv /\ IoInv /\ LossSteps => IoInv'
  BY DEF LossSteps, OnFail, OnClose, StopIo, KillHeartBeat, Reconnect, mainVars,
         InService, FlagInv
<1>5. ConInv /\ IoInv /\ QueueSteps => IoInv'
  BY DEF QueueSteps, PushQueue, Resend, Erase, mainVars,
         InService
<1>6. ConInv /\ IoInv /\ NetworkSteps => IoInv'
  BY DEF NetworkSteps, Opened, Failed, CloseFrame, Terminated, OnMessage, mainVars, InService
<1>7. MainStep => (InService' => InService /\ UNCHANGED <<io, m_bClosing>>)
  BY DEF MainStep, Submit, OnTimer, BeginSend, SendSteps, SendNow, Save, Unload,
         ShutdownSteps, ShutdownKillTimer, ShutdownClosing, ShutdownDisconnect,
         ShutdownStop, WaitForThread, InService
<1>8. IoInv /\ MainStep => IoInv'
  BY <1>7, MainKeeps
<1>9. IoInv /\ UNCHANGED vars => IoInv'
  BY DEF vars, mainVars, InService
<1> HIDE DEF IoInv, ConInv
<1>10. QED
  BY <1>1, <1>2, <1>3, <1>4, <1>5, <1>6, <1>8, <1>9
     DEF IInv, ClientNext, ThreadStep, MainStep

\* Every timer is created once and killed once until Shutdown is called.
LEMMA TimerStep == IInv /\ [ClientNext]_vars => TimerInv'
<1> USE DEF TimerInv, ConInv, Live, Losing, Opening, wsVars, netVars, timerVars
<1>1. ConInv /\ TimerInv /\ InitSteps => TimerInv'
  BY DEF InitSteps, RunThread, GetConnection, Connect, Dial, mainVars,
         BeforeShutdown, InService
<1>2. ConInv /\ TimerInv /\ ReturnSteps => TimerInv'
  BY DEF ReturnSteps, RunReturns, HandlerReturns, OnTerminate, mainVars,
         BeforeShutdown, InService
<1>3. ConInv /\ TimerInv /\ OpenSteps => TimerInv'
  BY ConstantsOK DEF OpenSteps, OnOpen, OnOpenHdl, CreateTimer, mainVars,
         BeforeShutdown, InService
<1>4. ConInv /\ TimerInv /\ LossSteps => TimerInv'
  <2>1. ConInv /\ TimerInv /\ (OnFail \/ OnClose \/ StopIo \/ Reconnect) =>
           TimerInv'
    BY DEF OnFail, OnClose, StopIo, Reconnect, mainVars, BeforeShutdown, InService
  <2>2. ConInv /\ TimerInv /\ KillHeartBeat => TimerInv'
    BY DEF KillHeartBeat, KillTimer, mainVars, BeforeShutdown, InService
  <2>3. QED
    BY <2>1, <2>2 DEF LossSteps
<1>5. ConInv /\ TimerInv /\ QueueSteps => TimerInv'
  BY DEF QueueSteps, PushQueue, Resend, Erase, mainVars,
         BeforeShutdown, InService
<1>6. ConInv /\ TimerInv /\ NetworkSteps => TimerInv'
  BY DEF NetworkSteps, Opened, Failed, CloseFrame, Terminated, OnMessage, mainVars, BeforeShutdown, InService
<1>7. MainStep => (BeforeShutdown' => BeforeShutdown /\ UNCHANGED <<timers, badKill>>)
  BY DEF MainStep, Submit, OnTimer, BeginSend, SendSteps, SendNow, Save, Unload,
         ShutdownSteps, ShutdownKillTimer, ShutdownClosing, ShutdownDisconnect,
         ShutdownStop, WaitForThread, BeforeShutdown, InService
<1>8. TimerInv /\ MainStep => TimerInv'
  BY <1>7, MainKeeps
<1>9. TimerInv /\ UNCHANGED vars => TimerInv'
  BY DEF vars, mainVars, BeforeShutdown, InService
<1> HIDE DEF TimerInv, ConInv
<1>10. QED
  BY <1>1, <1>2, <1>3, <1>4, <1>5, <1>6, <1>8, <1>9
     DEF IInv, ClientNext, ThreadStep, MainStep

\* A message leaves m_bQueue only after a send accepted it.
LEMMA QueueStep == IInv /\ [ClientNext]_vars => QueueInv'
<1> USE DEF QueueInv, Alive, queueVars, wsVars, mainVars
<1>1. QueueInv /\ InitSteps => QueueInv'
  BY DEF InitSteps, RunThread, GetConnection, Connect, Dial
<1>2. QueueInv /\ ReturnSteps => QueueInv'
  BY DEF ReturnSteps, RunReturns, HandlerReturns, OnTerminate
<1>3. QueueInv /\ OpenSteps => QueueInv'
  BY DEF OpenSteps, OnOpen, OnOpenHdl, CreateTimer
<1>4. QueueInv /\ LossSteps => QueueInv'
  BY DEF LossSteps, OnFail, OnClose, StopIo, KillHeartBeat, Reconnect
<1>5. QueueInv /\ QueueSteps => QueueInv'
  <2>1. QueueInv /\ PushQueue => QueueInv'
    BY DEF PushQueue
  <2>2. QueueInv /\ Resend => QueueInv'
    BY DEF Resend
  <2>3. QueueInv /\ Erase => QueueInv'
    BY DEF Erase
  <2>4. QED
    BY <2>1, <2>2, <2>3 DEF QueueSteps
<1>6. QueueInv /\ NetworkSteps => QueueInv'
  BY DEF NetworkSteps, Opened, Failed, CloseFrame, Terminated, OnMessage
<1>7. QueueInv /\ (Submit \/ OnTimer) => QueueInv'
  BY DEF Submit, OnTimer, BeginSend
<1>8. QueueInv /\ SendNow => QueueInv'
  BY DEF SendNow
<1>9. QueueInv /\ Save => QueueInv'
  BY DEF Save, SaveQueue, Iterating
<1>10. QueueInv /\ (Unload \/ ShutdownSteps) => QueueInv'
  BY DEF Unload, ShutdownSteps, ShutdownKillTimer, ShutdownClosing,
         ShutdownDisconnect, ShutdownStop, WaitForThread
<1>11. QueueInv /\ UNCHANGED vars => QueueInv'
  BY DEF vars
<1> HIDE DEF QueueInv
<1>12. QED
  BY <1>1, <1>2, <1>3, <1>4, <1>5, <1>6, <1>7, <1>8, <1>9, <1>10, <1>11
     DEF IInv, ClientNext, ThreadStep, SendSteps

\* The handle, the flag and the timer of a connection appear and go in order.
LEMMA PhaseStep == IInv /\ [ClientNext]_vars => PhaseInv'
<1> USE DEF PhaseInv, ConInv, Live, Losing, wsVars, netVars, flagVars, timerVars,
            mainVars, InService
<1>1. ConInv /\ PhaseInv /\ InitSteps => PhaseInv'
  BY DEF InitSteps, RunThread, GetConnection, Connect, Dial
<1>2. ConInv /\ IoInv /\ PhaseInv /\ ReturnSteps => PhaseInv'
  BY DEF ReturnSteps, RunReturns, HandlerReturns, OnTerminate, IoInv
<1>3. ConInv /\ PhaseInv /\ OpenSteps => PhaseInv'
  BY DEF OpenSteps, OnOpen, OnOpenHdl, CreateTimer
<1>4. FlagInv /\ ConInv /\ PhaseInv /\ LossSteps => PhaseInv'
  BY DEF LossSteps, OnFail, OnClose, StopIo, KillHeartBeat, Reconnect, FlagInv
<1>5. ConInv /\ PhaseInv /\ QueueSteps => PhaseInv'
  BY DEF QueueSteps, PushQueue, Resend, Erase
<1>6. FlagInv /\ TimerInv /\ ConInv /\ PhaseInv /\ NetworkSteps => PhaseInv'
  BY DEF NetworkSteps, Opened, Failed, CloseFrame, Terminated, OnMessage,
         FlagInv, TimerInv
<1>7. MainStep => (InService' => InService /\ UNCHANGED <<m_bConnected, m_bClosing>>)
  BY DEF MainStep, Submit, OnTimer, BeginSend, SendSteps, SendNow, Save, Unload,
         ShutdownSteps, ShutdownKillTimer, ShutdownClosing, ShutdownDisconnect,
         ShutdownStop, WaitForThread
<1>8. PhaseInv /\ MainStep => PhaseInv'
  BY <1>7, MainKeeps
<1>9. PhaseInv /\ UNCHANGED vars => PhaseInv'
  BY DEF vars
<1> HIDE DEF PhaseInv, ConInv
<1>10. QED
  BY <1>1, <1>2, <1>3, <1>4, <1>5, <1>6, <1>8, <1>9
     DEF IInv, ClientNext, ThreadStep, MainStep

\* After Shutdown the thread creates no timer before it has killed the freed one.
LEMMA ShutdownStep == IInv /\ [ClientNext]_vars => ShutdownInv'
<1> USE DEF ShutdownInv, AfterShutdown, wsVars, netVars, flagVars, timerVars, mainVars
<1>1. ShutdownInv /\ InitSteps => ShutdownInv'
  BY DEF InitSteps, RunThread, GetConnection, Connect, Dial
<1>2. ShutdownInv /\ ReturnSteps => ShutdownInv'
  BY DEF ReturnSteps, RunReturns, HandlerReturns, OnTerminate
<1>3. TypeOK /\ TimerInv /\ ShutdownInv /\ OpenSteps => ShutdownInv'
  <2>1. ShutdownInv /\ (OnOpen \/ OnOpenHdl) => ShutdownInv'
    BY DEF OnOpen, OnOpenHdl
  <2>2. ASSUME TypeOK, TimerInv, ShutdownInv, CreateTimer PROVE ShutdownInv'
    <3>1. PICK t \in Timers \ timers : timers' = timers \cup {t} /\ g_HeartBeat' = t
      BY <2>2 DEF CreateTimer
    <3>2. UNCHANGED <<con, mpc, badKill, m_bClosing>>
      BY <2>2 DEF CreateTimer
    <3>3. g_HeartBeat = NoTimer /\ timers \subseteq Timers
      BY <2>2 DEF TimerInv, Opening, CreateTimer, TypeOK, DataTypeOK
    <3>4. AfterShutdown => badKill /\ timers = {}
      BY <2>2, <3>3, ConstantsOK
    <3> QED
      BY <2>2, <3>1, <3>2, <3>4
  <2> QED
    BY <2>1, <2>2 DEF OpenSteps
<1>4. ShutdownInv /\ LossSteps => ShutdownInv'
  <2>1. ShutdownInv /\ (OnFail \/ OnClose \/ StopIo \/ Reconnect) => ShutdownInv'
    BY DEF OnFail, OnClose, StopIo, Reconnect
  <2>2. ASSUME ShutdownInv, KillHeartBeat PROVE ShutdownInv'
    <3>1. UNCHANGED <<con, mpc, m_bClosing>>
      BY <2>2 DEF KillHeartBeat
    <3>2. CASE g_HeartBeat = NoTimer
      BY <2>2, <3>1, <3>2 DEF KillHeartBeat
    <3>3. CASE g_HeartBeat # NoTimer
      <4>1. timers' = timers \ {g_HeartBeat}
            /\ badKill' = (badKill \/ g_HeartBeat \notin timers)
        BY <2>2, <3>3 DEF KillHeartBeat, KillTimer
      <4>2. AfterShutdown => timers' = {} /\ badKill'
        BY <2>2, <4>1
      <4> QED
        BY <2>2, <3>1, <4>2
    <3> QED
      BY <3>2, <3>3
  <2> QED
    BY <2>1, <2>2 DEF LossSteps
<1>5. ShutdownInv /\ QueueSteps => ShutdownInv'
  BY DEF QueueSteps, PushQueue, Resend, Erase
<1>6. ShutdownInv /\ NetworkSteps => ShutdownInv'
  BY DEF NetworkSteps, Opened, Failed, CloseFrame, Terminated, OnMessage
<1>7. ShutdownInv /\ (Submit \/ OnTimer \/ SendSteps \/ Unload) => ShutdownInv'
  BY DEF Submit, OnTimer, BeginSend, SendSteps, SendNow, Save, Unload
<1>8. ConInv /\ TimerInv /\ ShutdownInv /\ ShutdownSteps => ShutdownInv'
  <2>1. TimerInv /\ ShutdownKillTimer => ShutdownInv'
    BY DEF ShutdownKillTimer, KillTimer, TimerInv, BeforeShutdown
  <2>2. ShutdownInv /\ (ShutdownClosing \/ ShutdownDisconnect \/ ShutdownStop
                        \/ WaitForThread) => ShutdownInv'
    BY DEF ShutdownClosing, ShutdownDisconnect, ShutdownStop, WaitForThread
  <2> QED
    BY <2>1, <2>2 DEF ShutdownSteps
<1>9. ShutdownInv /\ UNCHANGED vars => ShutdownInv'
  BY DEF vars
<1> HIDE DEF ShutdownInv
<1>10. QED
  BY <1>1, <1>2, <1>3, <1>4, <1>5, <1>6, <1>7, <1>8, <1>9
     DEF IInv, ClientNext, ThreadStep

-----------------------------------------------------------------------------
\* Every step of the client, in whatever system it is part of, keeps IInv.
LEMMA ClientKeepsIInv == IInv /\ [ClientNext]_vars => IInv'
BY TypeStep, ConStep, RetryStep, FlagStep, IoStep, TimerStep, QueueStep, PhaseStep,
   ShutdownStep DEF IInv

\* IInv is an invariant of the client.
THEOREM InductiveInvariant == Spec => []IInv
BY InitIInv, ClientKeepsIInv, PTL DEF Spec

\* The variables of the client keep their types.
THEOREM TypeCorrect == Spec => []TypeOK
<1>1. IInv => TypeOK
  BY DEF IInv
<1>2. QED
  BY <1>1, InductiveInvariant, PTL

\* Whatever the interleaving of Send, SaveQueue and PushQueue, a message that no
\* send has accepted stays in m_bQueue.
THEOREM MessagesAreKept == Spec => []NoMessageLost
<1>1. IInv => NoMessageLost
  BY DEF IInv, QueueInv, NoMessageLost
<1>2. QED
  BY <1>1, InductiveInvariant, PTL

\* The heartbeat timer exists once, and exactly while connected.
THEOREM HeartBeatFollowsConnection == Spec => []OneHeartBeat
<1>1. IInv => OneHeartBeat
  BY DEF IInv, ConInv, FlagInv, TimerInv, OneHeartBeat, ConnectedIsCurrent, Live,
         Opening, BeforeShutdown
<1>2. QED
  BY <1>1, InductiveInvariant, PTL

\* No timer is killed twice, and no NULL timer, before Shutdown is called.
THEOREM TimersKilledOnce == Spec => []KillsLiveTimersOnly
<1>1. IInv => KillsLiveTimersOnly
  BY DEF IInv, TimerInv, KillsLiveTimersOnly, BeforeShutdown
<1>2. QED
  BY <1>1, InductiveInvariant, PTL

\* A timer that outlives Shutdown was made by a connection opened after it, over a
\* timer that was killed twice (websocket.cpp:311, :357 and :395).
THEOREM TimersEndWithShutdown == Spec => []ShutdownLeavesNoTimer
<1>1. IInv => ShutdownLeavesNoTimer
  BY DEF IInv, ShutdownInv, ShutdownLeavesNoTimer
<1>2. QED
  BY <1>1, InductiveInvariant, PTL

\* m_bConnected speaks of the connection m_Connection_hdl refers to.
THEOREM ConnectedFlagCorrect == Spec => []ConnectedIsCurrent
<1>1. IInv => ConnectedIsCurrent
  BY DEF IInv, FlagInv
<1>2. QED
  BY <1>1, InductiveInvariant, PTL

\* The guards of OnFail and OnClose never suppress the reconnection.
THEOREM ReconnectionAlwaysTried == Spec => []ReconnectNotSuppressed
<1>1. IInv => ReconnectNotSuppressed
  BY DEF IInv, FlagInv, Losing, ReconnectNotSuppressed
<1>2. QED
  BY <1>1, InductiveInvariant, PTL

\* A restart is asked for after MaxRetries - 1 failures in a row, never earlier.
THEOREM RestartOnlyAfterFailures == Spec => []RestartAfterFailures
<1>1. IInv => RestartAfterFailures
  BY ConstantsOK
     DEF IInv, RetryInv, RestartAfterFailures, TypeOK, ThreadTypeOK
<1>2. QED
  BY <1>1, InductiveInvariant, PTL

\* Only HandlerReturns shortens the stack of handlers.
LEMMA NestingStep ==
    ASSUME IInv, ClientNext
    PROVE  depth' < depth => m_bClosing \/ m_Retries = MaxRetries \/ ~InService
<1>1. depth \in Nat
  BY DEF IInv, TypeOK, ThreadTypeOK
<1>2. CASE HandlerReturns
  BY <1>2 DEF HandlerReturns, IInv, IoInv, ConInv
<1>3. CASE Reconnect
  BY <1>1, <1>3 DEF Reconnect
<1>4. ~HandlerReturns /\ ~Reconnect => depth' = depth
  <2>1. InitSteps \/ RunReturns \/ OnTerminate => depth' = depth
    BY DEF InitSteps, RunThread, GetConnection, Connect, Dial, RunReturns,
           OnTerminate, wsVars
  <2>2. OpenSteps \/ OnFail \/ OnClose \/ StopIo \/ KillHeartBeat
        \/ QueueSteps => depth' = depth
    BY DEF OpenSteps, OnOpen, OnOpenHdl, CreateTimer, OnFail, OnClose, StopIo,
           KillHeartBeat, QueueSteps, PushQueue, Resend, Erase, wsVars
  <2>3. NetworkSteps => depth' = depth
    BY DEF NetworkSteps, Opened, Failed, CloseFrame, Terminated, OnMessage,
           wsVars
  <2>4. MainStep => depth' = depth
    BY MainKeeps DEF wsVars
  <2>5. QED
    BY <2>1, <2>2, <2>3, <2>4
       DEF ClientNext, ThreadStep, ReturnSteps, LossSteps, MainStep
<1>5. QED
  BY <1>1, <1>2, <1>3, <1>4

\* In service no run() nested in a handler ever returns, unless Init gave up.
THEOREM NestingOnlyGrows == Spec => NestingUnwindsAtEndOnly
<1>1. IInv /\ [ClientNext]_vars =>
         [depth' < depth => m_bClosing \/ m_Retries = MaxRetries \/ ~InService]_vars
  BY NestingStep
<1>2. QED
  BY <1>1, InductiveInvariant, PTL DEF Spec, NestingUnwindsAtEndOnly

\* Only ShutdownKillTimer crashes in Shutdown, and only without a timer.
LEMMA ShutdownCrash ==
    ASSUME IInv, ClientNext, mpc = "unload", mpc' = "crashed"
    PROVE  ~m_bConnected \/ Opening
<1>1. g_HeartBeat = NoTimer
  <2>1. mainVars' # mainVars
    BY DEF mainVars
  <2>2. ~ThreadStep /\ ~NetworkSteps
    BY <2>1 DEF ThreadStep, InitSteps, ReturnSteps, OpenSteps, LossSteps,
          QueueSteps, NetworkSteps, RunThread, GetConnection, Connect, Dial,
          RunReturns, HandlerReturns, OnTerminate, OnOpen, OnOpenHdl,
          CreateTimer, OnFail, OnClose, StopIo, KillHeartBeat, Reconnect,
          PushQueue, Resend, Erase, Opened, Failed, CloseFrame, Terminated,
          OnMessage
  <2>3. ~(Submit \/ OnTimer \/ SendSteps \/ Unload)
    BY DEF Submit, OnTimer, BeginSend, SendSteps, SendNow, Save, Unload
  <2>4. ShutdownSteps
    BY <2>2, <2>3 DEF ClientNext
  <2>5. QED
    BY <2>4 DEF ShutdownSteps, ShutdownKillTimer, ShutdownClosing,
                ShutdownDisconnect, ShutdownStop, WaitForThread
<1>2. ~(Live /\ ~Opening) /\ wpc # "OnClose"
  BY <1>1 DEF IInv, TimerInv
<1>3. QED
  BY <1>2 DEF IInv, FlagInv, ConnectedIsCurrent, Live, Opening

\* Shutdown() kills a NULL timer only while the connection is down or OnOpen runs.
THEOREM ConnectedUnloadIsSafe == Spec => UnloadCrashesWhileDownOnly
<1>1. IInv /\ [ClientNext]_vars =>
         [mpc = "unload" /\ mpc' = "crashed" => ~m_bConnected \/ Opening]_vars
  BY ShutdownCrash
<1>2. QED
  BY <1>1, InductiveInvariant, PTL DEF Spec, UnloadCrashesWhileDownOnly

=============================================================================
