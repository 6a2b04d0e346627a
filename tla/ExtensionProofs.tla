-------------------------- MODULE ExtensionProofs --------------------------
(***************************************************************************)
(* Proofs about Extension.  The client's invariant IInv holds of the       *)
(* composed system too, so every theorem of WebSocketClientProofs about    *)
(* states carries over, and most about steps: OnGameFrame only clears the  *)
(* two flags and pops the queue.  NoConnectionForgotten is inductive as it stands: only OnOpenHdl *)
(* sets unannounced, in the step that sets the flag, and only TestConnects *)
(* clears the flag, in the step that starts the forward.                   *)
(***************************************************************************)
EXTENDS Extension, ClientProgressProofs

\* A step of the websocket thread never clears g_bSocketConnects, and sets it
\* in the step after which the connection counts as unannounced.
LEMMA ThreadSetsConnects ==
    ASSUME ThreadStep
    PROVE  /\ UNCHANGED g_tRecvQueue
           /\ \/ wpc # "OnOpenHdl" /\ UNCHANGED g_bSocketConnects
              \/ g_bSocketConnects'
<1> USE DEF elsewhere, frameVars
<1>1. CASE InitSteps
  BY <1>1 DEF InitSteps, RunThread, GetConnection, Connect, Dial
<1>2. CASE ReturnSteps
  BY <1>2 DEF ReturnSteps, RunReturns, HandlerReturns, OnTerminate
<1>3. CASE OpenSteps
  BY <1>3 DEF OpenSteps, OnOpen, OnOpenHdl, CreateTimer
<1>4. CASE LossSteps
  BY <1>4 DEF LossSteps, OnFail, OnClose, StopIo, KillHeartBeat, Reconnect
<1>5. CASE QueueSteps
  BY <1>5 DEF QueueSteps, PushQueue, Resend, Erase
<1>6. QED
  BY <1>1, <1>2, <1>3, <1>4, <1>5 DEF ThreadStep

\* The main thread's part of the client, as Extension splits it.
ExtMainStep == ExtPlugin \/ ExtTimer \/ ExtSendSteps \/ ExtUnload

\* Neither the connection nor the main thread's sends and shutdown touch the
\* flags and the queue.
LEMMA OthersKeepFrameVars ==
    ASSUME ExtNetworkStep \/ ExtMainStep
    PROVE  UNCHANGED <<frameVars, fmsg, recvRace, unannounced>>
<1>1. CASE ExtNetworkStep
  BY <1>1 DEF ExtNetworkStep, ConnectionSteps, extVars, Opened, Failed,
              CloseFrame, Terminated, ConGoes
<1>2. CASE ExtMainStep
  <2>1. MainStep
    BY <1>2 DEF ExtMainStep, ExtPlugin, ExtTimer, ExtSendSteps, ExtUnload, MainStep
  <2>2. UNCHANGED <<fmsg, recvRace, unannounced>>
    BY <1>2 DEF ExtMainStep, ExtPlugin, ExtTimer, ExtSendSteps, ExtUnload, extVars
  <2>3. QED
    BY <2>1, <2>2, MainKeeps
<1>3. QED
  BY <1>1, <1>2

\* OnGameFrame clears the flag only when it starts the forward.
LEMMA FrameKeepsConnections ==
    ASSUME NoConnectionForgotten, StartThread \/ FinishLoad \/ FrameSteps
    PROVE  NoConnectionForgotten'
<1> USE DEF NoConnectionForgotten, vars, extVars, frameVars
<1>1. CASE StartThread \/ FinishLoad \/ BeginFrame \/ TestQueue \/ MessageDone
  BY <1>1 DEF StartThread, FinishLoad, BeginFrame, TestQueue, MessageDone
<1>2. CASE TestConnects
  BY <1>2 DEF TestConnects
<1>3. CASE ClearRestart \/ ForwardReturns
  BY <1>3 DEF ClearRestart, ForwardReturns, ClearNothing
<1>4. CASE PopMessage \/ PopCrashes
  BY <1>4 DEF PopMessage, PopCrashes
<1>5. QED
  BY <1>1, <1>2, <1>3, <1>4 DEF FrameSteps

\* Every connection that was opened is announced to plugins, or the flag that
\* will announce it is set: OnOpen and OnGameFrame share g_bSocketConnects
\* without a lock and lose no connection.
THEOREM ConnectionsAreNotForgotten == ExtSpec => []NoConnectionForgotten
<1>1. ExtInit => NoConnectionForgotten
  BY DEF ExtInit, NoConnectionForgotten
<1>2. NoConnectionForgotten /\ [ExtNext]_extAllVars => NoConnectionForgotten'
  <2> SUFFICES ASSUME NoConnectionForgotten, [ExtNext]_extAllVars
               PROVE  NoConnectionForgotten'
    OBVIOUS
  <2>1. CASE StartThread \/ FinishLoad \/ FrameSteps
    BY <2>1, FrameKeepsConnections
  <2>2. CASE ExtThreadStep
    <3>1. ThreadStep /\ unannounced' = (unannounced \/ wpc = "OnOpenHdl")
      BY <2>2 DEF ExtThreadStep
    <3> QED
      BY <3>1, ThreadSetsConnects DEF NoConnectionForgotten
  <2>3. CASE ExtNetworkStep \/ ExtMainStep
    BY <2>3, OthersKeepFrameVars DEF NoConnectionForgotten, frameVars
  <2>4. CASE ExtOnMessage
    BY <2>4 DEF ExtOnMessage, OnMessage, NoConnectionForgotten
  <2>5. CASE UNCHANGED extAllVars
    BY <2>5 DEF extAllVars, vars, extVars, frameVars, NoConnectionForgotten
  <2> QED
    BY <2>1, <2>2, <2>3, <2>4, <2>5 DEF ExtNext, ExtMainStep
<1> QED
  BY <1>1, <1>2, PTL DEF ExtSpec

-----------------------------------------------------------------------------
(***************************************************************************)
(* The client's invariant in the composed system                           *)
(***************************************************************************)

\* What OnGameFrame does to the client's state: it clears flags, it changes the
\* queue, or the process dies.
FrameOnly ==
    /\ UNCHANGED <<wpc, wsVars, netVars, clientVars, envVars, mmsg>>
    /\ mpc' = mpc \/ mpc' = "crashed"
    /\ g_bRequireRestart' = g_bRequireRestart \/ g_bRequireRestart' = FALSE
    /\ g_bSocketConnects' \in BOOLEAN /\ g_tRecvQueue' \in Seq(Frames)

\* None of that disturbs IInv.
LEMMA FrameOnlyKeepsIInv == ASSUME IInv, FrameOnly PROVE IInv'
<1> USE DEF FrameOnly, clientVars, wsVars, netVars, flagVars, queueVars, timerVars,
            envVars
<1>1. TypeOK'
  <2>1. ThreadTypeOK'
    BY DEF IInv, TypeOK, ThreadTypeOK
  <2>2. FlagTypeOK'
    BY DEF IInv, TypeOK, FlagTypeOK
  <2>3. DataTypeOK'
    BY DEF IInv, TypeOK, DataTypeOK, MainPc
  <2>4. QED
    BY <2>1, <2>2, <2>3 DEF TypeOK
<1>2. InService' => InService
  BY DEF InService
<1>3. ConInv' /\ RetryInv'
  BY DEF IInv, ConInv, RetryInv, Losing, Live
<1>4. FlagInv' /\ IoInv'
  BY <1>2 DEF IInv, FlagInv, IoInv, ConnectedIsCurrent, Losing, Live
<1>5. TimerInv'
  BY <1>2 DEF IInv, TimerInv, BeforeShutdown, Opening, Live
<1>6. QueueInv'
  BY DEF IInv, QueueInv, Alive
<1>7. PhaseInv' /\ ShutdownInv'
  BY <1>2 DEF IInv, PhaseInv, ShutdownInv, AfterShutdown
<1>8. QED
  BY <1>1, <1>3, <1>4, <1>5, <1>6, <1>7 DEF IInv

\* What a pop leaves is a queue of frames.
LEMMA PopKeepsType ==
    ASSUME g_tRecvQueue \in Seq(Frames), g_tRecvQueue # <<>>, PopMessage
    PROVE  g_tRecvQueue' \in Seq(Frames)
<1> DEFINE rest == Tail(g_tRecvQueue)
<1>1. rest \in Seq(Frames)
  OBVIOUS
<1>2. SubSeq(rest, 1, Len(rest) - 1) \in Seq(Frames)
  BY <1>1
<1>3. \A f \in Frames : Append(rest, f) \in Seq(Frames)
  BY <1>1
<1>4. QED
  BY <1>1, <1>2, <1>3 DEF PopMessage, TornQueues, FrontPopped

\* Steps of OnGameFrame that touch the client touch only what FrameOnly says.
LEMMA FrameStepsAreFrameOnly ==
    ASSUME IInv, ExtTypeOK, ClearRestart \/ TestConnects \/ ForwardReturns
                            \/ PopMessage \/ PopCrashes
    PROVE  FrameOnly
<1>0. g_bSocketConnects \in BOOLEAN /\ g_tRecvQueue \in Seq(Frames)
  BY DEF ExtTypeOK, TypeOK, FlagTypeOK, DataTypeOK
<1> USE <1>0 DEF FrameOnly, clientVars, mainVars, frameVars
<1>1. CASE ClearRestart
  BY <1>1 DEF ClearRestart
<1>2. CASE TestConnects
  BY <1>2 DEF TestConnects, ClearConnects
<1>3. CASE ForwardReturns
  BY <1>3 DEF ForwardReturns, ClearNothing
<1>4. CASE PopMessage
  BY <1>4, PopKeepsType DEF PopMessage, ExtTypeOK
<1>5. CASE PopCrashes
  BY <1>5 DEF PopCrashes
<1>6. QED
  BY <1>1, <1>2, <1>3, <1>4, <1>5

\* A step of the composed system is one of the client, or of OnGameFrame.
LEMMA ExtStepIsClientStep ==
    ASSUME IInv, ExtTypeOK, [ExtNext]_extAllVars
    PROVE  [ClientNext]_vars \/ (Alive /\ FrameOnly /\ FrameSteps)
<1>1. CASE Alive /\ (ClearRestart \/ TestConnects \/ ForwardReturns \/ PopMessage
                     \/ PopCrashes)
  BY <1>1, FrameStepsAreFrameOnly DEF FrameSteps
<1>2. StartThread \/ FinishLoad \/ BeginFrame \/ TestQueue \/ MessageDone =>
         UNCHANGED vars
  BY DEF StartThread, FinishLoad, BeginFrame, TestQueue, MessageDone
<1>3. Alive /\ (ExtThreadStep \/ ExtNetworkStep \/ ExtOnMessage \/ ExtPlugin
                \/ ExtTimer \/ ExtSendSteps \/ ExtUnload) => ClientNext
  BY DEF ExtThreadStep, ExtNetworkStep, ConnectionSteps, ExtOnMessage, ExtPlugin,
         ExtTimer, ExtSendSteps, ExtUnload, ClientNext, NetworkSteps
<1>4. UNCHANGED extAllVars => UNCHANGED vars
  BY DEF extAllVars
<1>5. QED
  BY <1>1, <1>2, <1>3, <1>4 DEF ExtNext, FrameSteps

\* Every step of the composed system keeps the client's invariant.
LEMMA ExtKeepsIInv ==
    ASSUME IInv, ExtTypeOK, [ExtNext]_extAllVars
    PROVE  IInv'
BY ExtStepIsClientStep, FrameOnlyKeepsIInv, ClientKeepsIInv

\* What is popped stays where it is until OnGameFrame takes it: only OnGameFrame
\* removes a frame from g_tRecvQueue.
LEMMA ExtTypeStep ==
    ASSUME IInv, ExtTypeOK, IInv', [ExtNext]_extAllVars
    PROVE  ExtTypeOK'
<1>0. TypeOK' /\ g_tRecvQueue \in Seq(Frames) /\ NoFrame \notin Parsable
  BY FramesOK DEF IInv, ExtTypeOK, TypeOK, DataTypeOK
<1> USE <1>0 DEF ExtTypeOK, FramePc, vars, extVars, frameVars
<1>1. CASE StartThread \/ FinishLoad \/ BeginFrame \/ TestQueue \/ MessageDone
  BY <1>1 DEF StartThread, FinishLoad, BeginFrame, TestQueue, MessageDone
<1>2. CASE ClearRestart \/ TestConnects \/ ForwardReturns
  BY <1>2 DEF ClearRestart, TestConnects, ForwardReturns
<1>3. CASE PopMessage
  BY <1>3 DEF PopMessage, Accepted
<1>4. CASE PopCrashes
  BY <1>4 DEF PopCrashes
<1>5. CASE ExtThreadStep
  <2>1. UNCHANGED g_tRecvQueue
    BY <1>5, ThreadSetsConnects DEF ExtThreadStep
  <2>2. QED
    BY <1>5, <2>1 DEF ExtThreadStep
<1>6. CASE ExtOnMessage
  <2>1. g_tRecvQueue' # <<>>
    BY <1>6 DEF ExtOnMessage, OnMessage
  <2>2. QED
    BY <1>6, <2>1 DEF ExtOnMessage
<1>7. CASE ExtNetworkStep \/ ExtMainStep
  <2>1. UNCHANGED g_tRecvQueue
    BY <1>7, OthersKeepFrameVars
  <2>2. frame' = frame \/ frame' = "unhooked"
    BY <1>7 DEF ExtNetworkStep, ExtMainStep, ExtPlugin, ExtTimer, ExtSendSteps,
                ExtUnload
  <2>3. frame' = "unhooked" => frame # "callback" \/ frame' = frame
    BY <1>7 DEF ExtNetworkStep, ExtMainStep, ExtPlugin, ExtTimer, ExtSendSteps,
                ExtUnload
  <2>4. UNCHANGED <<fmsg, exits, recvRace, unannounced>>
    BY <1>7 DEF ExtNetworkStep, ExtMainStep, ExtPlugin, ExtTimer, ExtSendSteps,
                ExtUnload
  <2>5. QED
    BY <2>1, <2>2, <2>3, <2>4
<1>8. CASE UNCHANGED extAllVars
  BY <1>8 DEF extAllVars
<1>9. QED
  BY <1>1, <1>2, <1>3, <1>4, <1>5, <1>6, <1>7, <1>8
     DEF ExtNext, FrameSteps, ExtMainStep

\* The client's invariant and the extension's types hold of every behaviour of
\* the composed system.
THEOREM ExtInvariant == ExtSpec => [](IInv /\ ExtTypeOK)
<1>1. ExtInit => IInv /\ ExtTypeOK
  <2> SUFFICES ASSUME ExtInit PROVE IInv /\ ExtTypeOK OBVIOUS
  <2>1. IInv
    BY InitIInv DEF ExtInit
  <2>2. QED
    BY <2>1, FramesOK DEF ExtInit, ExtTypeOK, FramePc, IInv
<1>2. (IInv /\ ExtTypeOK) /\ [ExtNext]_extAllVars => (IInv /\ ExtTypeOK)'
  BY ExtKeepsIInv, ExtTypeStep
<1>3. QED
  BY <1>1, <1>2, PTL DEF ExtSpec

\* The variables of the extension keep their types, and OnGameFrame pops only
\* what is there.
THEOREM ExtTypeCorrect == ExtSpec => []ExtTypeOK
BY ExtInvariant, PTL

\* The client's promises hold inside the extension, against OnGameFrame and a
\* queue that both threads change: no message lost, one timer, honest flags, and
\* a restart only after the failures that call for it; no timer is killed twice
\* before Shutdown, and none outlives it but by way of a second kill.
THEOREM ClientKeptInExtension ==
    ExtSpec => [](/\ NoMessageLost /\ OneHeartBeat /\ ConnectedIsCurrent
                  /\ ReconnectNotSuppressed /\ RestartAfterFailures
                  /\ KillsLiveTimersOnly /\ ShutdownLeavesNoTimer)
<1>1. IInv => /\ NoMessageLost /\ OneHeartBeat /\ ConnectedIsCurrent
              /\ ReconnectNotSuppressed /\ RestartAfterFailures
              /\ KillsLiveTimersOnly /\ ShutdownLeavesNoTimer
  <2>1. IInv => NoMessageLost
    BY DEF IInv, QueueInv, NoMessageLost
  <2>2. IInv => OneHeartBeat
    BY DEF IInv, ConInv, FlagInv, TimerInv, OneHeartBeat, ConnectedIsCurrent,
           Live, Opening, BeforeShutdown
  <2>3. IInv => ConnectedIsCurrent /\ ReconnectNotSuppressed
    BY DEF IInv, FlagInv, Losing, ReconnectNotSuppressed
  <2>4. IInv => RestartAfterFailures
    BY ConstantsOK DEF IInv, RetryInv, RestartAfterFailures, TypeOK, ThreadTypeOK
  <2>5. IInv => KillsLiveTimersOnly /\ ShutdownLeavesNoTimer
    BY DEF IInv, TimerInv, BeforeShutdown, ShutdownInv, KillsLiveTimersOnly,
           ShutdownLeavesNoTimer
  <2>6. QED
    BY <2>1, <2>2, <2>3, <2>4, <2>5
<1>2. QED
  BY <1>1, ExtInvariant, PTL

\* SDK_OnUnload removes the frame hook before it does anything else, and hooks
\* are not set again: OnGameFrame never runs beside Shutdown.
Unhooked == Alive /\ ~InService => frame = "unhooked"

LEMMA UnhookedStep ==
    ASSUME Unhooked, [ExtNext]_extAllVars
    PROVE  Unhooked'
<1> USE DEF Unhooked, Alive, InService, vars, extVars, mainVars
<1>1. CASE StartThread \/ FinishLoad \/ BeginFrame \/ TestQueue \/ MessageDone
  BY <1>1 DEF StartThread, FinishLoad, BeginFrame, TestQueue, MessageDone
<1>2. CASE ClearRestart \/ TestConnects \/ ForwardReturns \/ PopMessage \/ PopCrashes
  BY <1>2 DEF ClearRestart, TestConnects, ForwardReturns, PopMessage, PopCrashes
<1>3. CASE ExtThreadStep \/ ExtNetworkStep \/ ExtOnMessage
  <2>1. ThreadStep \/ NetworkSteps
    BY <1>3 DEF ExtThreadStep, ExtNetworkStep, ConnectionSteps, ExtOnMessage,
                NetworkSteps
  <2>2. UNCHANGED <<mpc, frame>>
    BY <1>3, <2>1, ThreadKeepsMain DEF ExtThreadStep, ExtNetworkStep, ExtOnMessage
  <2> QED
    BY <2>2
<1>4. CASE ExtPlugin \/ ExtTimer
  BY <1>4 DEF ExtPlugin, ExtTimer, Submit, OnTimer, BeginSend
<1>5. CASE ExtSendSteps
  <2>1. UNCHANGED frame /\ (SendSteps \/ ShutdownSteps)
    BY <1>5 DEF ExtSendSteps
  <2>2. SendNow => mpc' \in {"idle", "save", "crashed"}
    BY DEF SendNow, SaveIt
  <2>3. Save => mpc' \in {"idle", "crashed"}
    BY DEF Save
  <2>4. ShutdownSteps => Alive /\ ~InService
    BY DEF ShutdownSteps, ShutdownKillTimer, ShutdownClosing, ShutdownDisconnect,
           ShutdownStop, WaitForThread
  <2> QED
    BY <2>1, <2>2, <2>3, <2>4 DEF SendSteps
<1>6. CASE ExtUnload
  BY <1>6 DEF ExtUnload
<1>7. CASE UNCHANGED extAllVars
  BY <1>7 DEF extAllVars
<1> QED
  BY <1>1, <1>2, <1>3, <1>4, <1>5, <1>6, <1>7 DEF ExtNext, FrameSteps

\* In service or not, OnGameFrame leaves what the client's promises about steps
\* speak of.
LEMMA FrameKeepsPromises ==
    ASSUME IInv, Alive, Unhooked, FrameOnly, FrameSteps
    PROVE  /\ UNCHANGED depth
           /\ InService
           /\ [Phases!Next]_<<Phase, Available, SendAccepted, timers # {}, ~InService>>
<1>1. InService
  BY DEF Unhooked, FrameSteps, BeginFrame, ClearRestart, TestConnects,
         ForwardReturns, TestQueue, PopMessage, PopCrashes, MessageDone, FrameOnly
<1>2. UNCHANGED <<wpc, depth, caller, con, hdlCurrent, m_bConnected, m_bClosing,
                  g_HeartBeat, timers>>
  BY DEF FrameOnly, wsVars, netVars, clientVars, flagVars, timerVars
<1>3. UNCHANGED <<Phase, Available, SendAccepted, timers # {}>>
  BY <1>2 DEF Phase, Opening, Available, SendAccepted
<1> QED
  BY <1>1, <1>2, <1>3 DEF Phases!Next

\* The client's promises about steps hold inside the extension too, whatever
\* OnGameFrame does meanwhile: the nested run()s, the unload of a connected
\* extension, the phases of a connection, and the end of SDK_OnUnload.
THEOREM ClientStepsKeptInExtension ==
    ExtSpec => /\ NestingUnwindsAtEndOnly /\ UnloadCrashesWhileDownOnly
               /\ PhasesKept /\ UnloadAdvances
<1> DEFINE Unwind == depth' < depth => m_bClosing \/ m_Retries = MaxRetries
                                       \/ ~InService
           Safe == mpc = "unload" /\ mpc' = "crashed" => ~m_bConnected \/ Opening
           Advances == UnloadEnding => \/ mpc' = "unloaded"
                                      \/ /\ UnloadEnding'
                                         /\ UnloadRank' \in 0..UnloadRank - 1
           phaseVars == <<Phase, Available, SendAccepted, timers # {}, ~InService>>
<1>1. ExtInit => Unhooked /\ Phases!Init
  <2>1. ExtInit => Init /\ Unhooked
    BY DEF ExtInit, Init, Unhooked, InService
  <2> QED
    BY <2>1, PhasesInit
<1>2. Unhooked /\ [ExtNext]_extAllVars => Unhooked'
  BY UnhookedStep
<1>3. IInv /\ ExtTypeOK /\ Unhooked /\ [ExtNext]_extAllVars =>
         [Unwind]_vars /\ [Safe]_vars /\ [Advances]_vars /\ [Phases!Next]_phaseVars
  <2> SUFFICES ASSUME IInv, ExtTypeOK, Unhooked, [ExtNext]_extAllVars
               PROVE  [Unwind]_vars /\ [Safe]_vars /\ [Advances]_vars
                      /\ [Phases!Next]_phaseVars
    OBVIOUS
  <2>1. CASE [ClientNext]_vars
    BY <2>1, NestingStep, ShutdownCrash, UnloadStep, ConnectionStep
  <2>2. CASE Alive /\ FrameOnly /\ FrameSteps
    <3>1. UNCHANGED depth /\ InService /\ [Phases!Next]_phaseVars
      BY <2>2, FrameKeepsPromises
    <3>2. depth \in Nat
      BY DEF IInv, TypeOK, ThreadTypeOK
    <3> QED
      BY <3>1, <3>2 DEF InService, UnloadEnding
  <2> QED
    BY <2>1, <2>2, ExtStepIsClientStep
<1> QED
  BY <1>1, <1>2, <1>3, ExtInvariant, PTL
     DEF ExtSpec, NestingUnwindsAtEndOnly, UnloadCrashesWhileDownOnly, PhasesKept,
         UnloadAdvances, Phases!Spec

-----------------------------------------------------------------------------
(***************************************************************************)
(* The extension implements Mailbox                                        *)
(***************************************************************************)

\* What plugins see of a step: a step of Mailbox, or nothing.
MailboxStep == Plugins!Next \/ UNCHANGED <<g_tRecvQueue, fmsg, recvRace>>

\* A pop takes out the first frame, and hands it over if it is a message; while
\* the websocket thread pushes, the mailbox is torn.
LEMMA PopIsMailboxStep ==
    ASSUME ExtTypeOK, PopMessage
    PROVE  MailboxStep
<1>1. fmsg = NoFrame /\ g_tRecvQueue # <<>>
  BY DEF ExtTypeOK, PopMessage
<1>2. CASE recvRace # "no"
  <2>1. recvRace' # "no"
    BY <1>2 DEF PopMessage
  <2> QED
    BY <2>1 DEF MailboxStep, Plugins!Next
<1>3. CASE recvRace = "no"
  <2>1. g_tRecvQueue' = Tail(g_tRecvQueue) /\ recvRace' = "no"
    BY <1>3 DEF PopMessage, FrontPopped
  <2>2. CASE Accepted
    <3>1. fmsg' = Head(g_tRecvQueue) /\ Head(g_tRecvQueue) \in Parsable
      BY <2>2 DEF PopMessage, Accepted
    <3>2. Plugins!Deliver
      BY <1>1, <2>1, <3>1 DEF Plugins!Deliver
    <3> QED
      BY <1>3, <2>1, <3>2 DEF MailboxStep, Plugins!Next
  <2>3. CASE ~Accepted
    <3>1. fmsg' = fmsg /\ Head(g_tRecvQueue) \notin Parsable
      BY <2>3 DEF PopMessage, Accepted
    <3>2. Plugins!Discard
      BY <1>1, <2>1, <3>1 DEF Plugins!Discard
    <3> QED
      BY <1>3, <2>1, <3>2 DEF MailboxStep, Plugins!Next
  <2> QED
    BY <2>2, <2>3
<1> QED
  BY <1>2, <1>3

\* PushMessage is a Receive, unless it falls into a pop.
LEMMA PushIsMailboxStep ==
    ASSUME ExtTypeOK, ExtOnMessage
    PROVE  MailboxStep
<1>1. \E f \in Frames : g_tRecvQueue' = Append(g_tRecvQueue, f)
  BY DEF ExtOnMessage, OnMessage
<1>2. fmsg' = fmsg /\ (recvRace' = recvRace \/ recvRace' = "now")
  BY DEF ExtOnMessage
<1>3. Plugins!Receive
  BY <1>1, <1>2 DEF Plugins!Receive
<1>4. CASE recvRace' = "now"
  BY <1>4 DEF MailboxStep, Plugins!Next
<1>5. CASE recvRace' = recvRace
  BY <1>3, <1>5 DEF MailboxStep, Plugins!Next
<1> QED
  BY <1>2, <1>4, <1>5

LEMMA ExtStepIsMailboxStep ==
    ASSUME ExtTypeOK, [ExtNext]_extAllVars
    PROVE  MailboxStep
<1> USE DEF vars, extVars, frameVars
<1>1. CASE StartThread \/ FinishLoad \/ BeginFrame \/ TestQueue
  BY <1>1 DEF StartThread, FinishLoad, BeginFrame, TestQueue, MailboxStep
<1>2. CASE ClearRestart \/ TestConnects \/ ForwardReturns \/ PopCrashes
  BY <1>2 DEF ClearRestart, TestConnects, ForwardReturns, PopCrashes, MailboxStep
<1>3. CASE PopMessage
  BY <1>3, PopIsMailboxStep
<1>4. CASE MessageDone
  <2>1. fmsg # NoFrame /\ fmsg' = NoFrame /\ UNCHANGED <<g_tRecvQueue, recvRace>>
    BY <1>4 DEF MessageDone, ExtTypeOK
  <2>2. Plugins!Finish
    BY <2>1 DEF Plugins!Finish
  <2> QED
    BY <2>1, <2>2 DEF MailboxStep, Plugins!Next
<1>5. CASE ExtThreadStep
  <2>1. UNCHANGED g_tRecvQueue
    BY <1>5, ThreadSetsConnects DEF ExtThreadStep
  <2> QED
    BY <1>5, <2>1 DEF ExtThreadStep, MailboxStep
<1>6. CASE ExtOnMessage
  BY <1>6, PushIsMailboxStep
<1>7. CASE ExtNetworkStep \/ ExtMainStep
  BY <1>7, OthersKeepFrameVars DEF MailboxStep
<1>8. CASE UNCHANGED extAllVars
  BY <1>8 DEF extAllVars, MailboxStep
<1> QED
  BY <1>1, <1>2, <1>3, <1>4, <1>5, <1>6, <1>7, <1>8 DEF ExtNext, FrameSteps, ExtMainStep

\* OnGameFrame and PushMessage, with one queue between two threads, hand every
\* message over once and in order, and discard only what is none, until a push
\* falls into a pop.
THEOREM ExtensionIsMailbox == ExtSpec => MailboxKept
<1>1. ExtInit => Plugins!Init
  BY DEF ExtInit, Init, Plugins!Init
<1>2. ExtTypeOK /\ [ExtNext]_extAllVars =>
         [Plugins!Next]_<<g_tRecvQueue, fmsg, recvRace # "no">>
  <2> SUFFICES ASSUME ExtTypeOK, [ExtNext]_extAllVars
               PROVE  Plugins!Next \/ UNCHANGED <<g_tRecvQueue, fmsg, recvRace # "no">>
    OBVIOUS
  <2>1. MailboxStep
    BY ExtStepIsMailboxStep
  <2> QED
    BY <2>1 DEF MailboxStep
<1> QED
  BY <1>1, <1>2, ExtTypeCorrect, PTL DEF ExtSpec, MailboxKept, Plugins!Spec

=============================================================================
